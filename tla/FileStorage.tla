---------------------------- MODULE FileStorage ----------------------------
(***************************************************************************)
(* FileStorage<BlockType> (src/src/storage/file_storage.tpp): blocks kept  *)
(* as files `<hash>.block' of one data directory, and the newest of them a *)
(* second time as `latest.block'.                                          *)
(*                                                                         *)
(* store_block runs under storage_mutex_, so inside a process the          *)
(* operations exclude each other; but it touches the disk four times, and  *)
(* a write error, a crash, or another process with the same relative       *)
(* directory (the two-node example of the README starts two in one         *)
(* directory) can come in between.  Each touch of the disk is a step.      *)
(*                                                                         *)
(* Two processes that fill latest.block at the same time leave a content   *)
(* that is read as the block of the one that wrote last: see BlockFile.    *)
(***************************************************************************)
EXTENDS Naturals

CONSTANTS
    Procs,      \* processes that opened the same data directory
    Blocks,     \* blocks, identified by their hash
    NoBlock,    \* std::nullopt; as a file content: there is no latest.block
    Torn,       \* a content that deserialize refuses: empty or cut off
    MaxFaults   \* bound: I/O errors and crashes in one behaviour

ASSUME SentinelAssumption ==
    /\ NoBlock \notin Blocks
    /\ Torn \notin Blocks
    /\ Torn # NoBlock
ASSUME MaxFaultsAssumption == MaxFaults \in Nat

VARIABLES
    file,    \* `<hash>.block' of every block: "absent", "torn" or "whole"
    latest,  \* latest.block: a block, Torn, or NoBlock when it is not there
    step,    \* where each process is in store_block; "idle": outside it
    arg,     \* the block each process is storing
    acked,   \* history: blocks store_block answered true for
    faults,  \* history: I/O errors and crashes so far
    snap     \* history: file and latest when the mutex was last taken

vars == <<file, latest, step, arg, acked, faults, snap>>

Contents == {"absent", "torn", "whole"}
Steps == {"idle", "write", "copy", "fill"}

-----------------------------------------------------------------------------
(* The queries, as a caller that holds storage_mutex_ is answered.         *)

Readable(content) == IF content \in Blocks THEN content ELSE NoBlock

GetLatestBlock == Readable(latest)

GetBlock(b) == IF file[b] = "whole" THEN b ELSE NoBlock

BlockExists(b) == file[b] # "absent"

-----------------------------------------------------------------------------
(* An I/O error is possible while the bound allows it. *)
Fault ==
    /\ faults < MaxFaults
    /\ faults' = faults + 1

Return(p) ==
    /\ step' = [step EXCEPT ![p] = "idle"]
    /\ UNCHANGED arg

(* initialize: the directory is created, or is there already and empty. *)
Init ==
    /\ file = [b \in Blocks |-> "absent"]
    /\ latest = NoBlock
    /\ step = [p \in Procs |-> "idle"]
    /\ arg \in [Procs -> Blocks]
    /\ acked = {}
    /\ faults = 0
    /\ snap = [file |-> file, latest |-> latest]

(* Take the mutex and open `<hash>.block' for writing: the file exists and *)
(* is empty from here on, also when it held this very block before.        *)
StoreOpen(p, b) ==
    /\ step[p] = "idle"
    /\ file' = [file EXCEPT ![b] = "torn"]
    /\ step' = [step EXCEPT ![p] = "write"]
    /\ arg' = [arg EXCEPT ![p] = b]
    /\ snap' = [file |-> file, latest |-> latest]
    /\ UNCHANGED <<latest, acked, faults>>

StoreOpenFails(p) ==
    /\ step[p] = "idle"
    /\ Fault
    /\ UNCHANGED <<file, latest, step, arg, acked, snap>>

(* Slips the checks must notice: an existing file is appended to, so that  *)
(* a block stored twice has a file of two blocks; a file that is never     *)
(* closed.                                                                 *)
WriteFileAppends(p) ==
    /\ step[p] = "write"
    /\ file' = [file EXCEPT ![arg[p]] = IF arg[p] \in acked THEN "torn" ELSE "whole"]
    /\ step' = [step EXCEPT ![p] = "copy"]
    /\ UNCHANGED <<latest, arg, acked, faults, snap>>

WriteFileLeftOpen(p) ==
    /\ step[p] = "write"
    /\ file' = [file EXCEPT ![arg[p]] = "open"]
    /\ step' = [step EXCEPT ![p] = "copy"]
    /\ UNCHANGED <<latest, arg, acked, faults, snap>>

(* The bytes are written and the stream closed. *)
WriteFile(p) ==
    /\ step[p] = "write"
    /\ file' = [file EXCEPT ![arg[p]] = "whole"]
    /\ step' = [step EXCEPT ![p] = "copy"]
    /\ UNCHANGED <<latest, arg, acked, faults, snap>>

(* A slip the checks must notice: the file that could not be written is    *)
(* removed, though it may have held the block before.                      *)
WriteFailsRemoves(p) ==
    /\ step[p] = "write"
    /\ Fault
    /\ file' = [file EXCEPT ![arg[p]] = "absent"]
    /\ Return(p)
    /\ UNCHANGED <<latest, acked, snap>>

(* file.good() is false after the write: store_block gives up and leaves   *)
(* what was written where it is.                                           *)
WriteFails(p) ==
    /\ step[p] = "write"
    /\ Fault
    /\ file' = [file EXCEPT ![arg[p]] = "torn"]
    /\ Return(p)
    /\ UNCHANGED <<latest, acked, snap>>

(* The bytes were only buffered and flushing them fails inside close(),    *)
(* whose outcome is not checked: the copy goes ahead all the same.         *)
FlushLost(p) ==
    /\ step[p] = "write"
    /\ Fault
    /\ file' = [file EXCEPT ![arg[p]] = "torn"]
    /\ step' = [step EXCEPT ![p] = "copy"]
    /\ UNCHANGED <<latest, arg, acked, snap>>

(* copy_file opens latest.block with overwrite_existing: what it held is   *)
(* gone before the new content is there.                                   *)
CopyOpen(p) ==
    /\ step[p] = "copy"
    /\ latest' = Torn
    /\ step' = [step EXCEPT ![p] = "fill"]
    /\ UNCHANGED <<file, arg, acked, faults, snap>>

CopyOpenFails(p) ==
    /\ step[p] = "copy"
    /\ Fault
    /\ Return(p)
    /\ UNCHANGED <<file, latest, acked, snap>>

(* The content that copying the file of b puts into latest.block. *)
Copied(b) == IF file[b] = "whole" THEN b ELSE Torn

(* The copy ends and store_block returns true. *)
CopyFill(p) ==
    /\ step[p] = "fill"
    /\ latest' = Copied(arg[p])
    /\ acked' = acked \cup {arg[p]}
    /\ Return(p)
    /\ UNCHANGED <<file, faults, snap>>

CopyFillFails(p) ==
    /\ step[p] = "fill"
    /\ Fault
    /\ Return(p)
    /\ UNCHANGED <<file, latest, acked, snap>>

(* The process dies inside store_block and is started again. *)
Crash(p) ==
    /\ step[p] # "idle"
    /\ Fault
    /\ Return(p)
    /\ UNCHANGED <<file, latest, acked, snap>>

Next ==
    \E p \in Procs :
        \/ \E b \in Blocks : StoreOpen(p, b)
        \/ StoreOpenFails(p)
        \/ WriteFile(p)
        \/ WriteFails(p)
        \/ FlushLost(p)
        \/ CopyOpen(p)
        \/ CopyOpenFails(p)
        \/ CopyFill(p)
        \/ CopyFillFails(p)
        \/ Crash(p)

Spec == Init /\ [][Next]_vars

-----------------------------------------------------------------------------
TypeOK ==
    /\ file \in [Blocks -> Contents]
    /\ latest \in Blocks \cup {Torn, NoBlock}
    /\ step \in [Procs -> Steps]
    /\ arg \in [Procs -> Blocks]
    /\ acked \subseteq Blocks
    /\ faults \in 0..MaxFaults
    /\ snap \in [file : [Blocks -> Contents], latest : Blocks \cup {Torn, NoBlock}]

(* latest.block never shows a block that has no file of its own, whatever  *)
(* fails or dies between the two writes of store_block: the copy is made   *)
(* from the file and nothing removes a file.  This is what lets a caller   *)
(* use get_latest_block's hash as a key for block_exists.                  *)
LatestNamesExistingFile == latest \in Blocks => BlockExists(latest)

AllIdle == \A p \in Procs : step[p] = "idle"

(* Without faults, whenever no store is under way the latest block is one  *)
(* that was acknowledged and can be read, and every acknowledged block can *)
(* be read back by its hash, though a block may be stored again over its   *)
(* own file and several processes may have been storing at once.           *)
QuiescentReadable ==
    (faults = 0 /\ AllIdle) =>
        /\ acked # {} => GetLatestBlock \in acked
        /\ \A b \in acked : GetBlock(b) = b

(* What initialize() of the consensus relies on (time_chain_consensus.cpp, *)
(* produce_block: an empty latest block "should not happen as we've        *)
(* ensured a genesis block exists"): without faults, once a block has been *)
(* stored, a process that is allowed to read finds a latest block.         *)
ReadersFindLatest ==
    (faults = 0 /\ acked # {} /\ \E p \in Procs : step[p] = "idle") =>
        GetLatestBlock # NoBlock

(* The files as the next holder of the mutex will have found them: while a *)
(* store is under way nobody in this process can look at the disk.         *)
Committed ==
    IF AllIdle THEN [file |-> file, latest |-> latest] ELSE snap

Abstract == INSTANCE BlockStore WITH
    present <- {b \in Blocks : Committed.file[b] # "absent"},
    whole   <- {b \in Blocks : Committed.file[b] = "whole"},
    latest  <- Readable(Committed.latest)

(* One process: all of store_block's steps together, with every fault and  *)
(* a crash at every point, amount to one step of BlockStore.               *)
ImplementsBlockStore == Abstract!StoreSpec
=============================================================================

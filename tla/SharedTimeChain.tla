--------------------------- MODULE SharedTimeChain ---------------------------
(***************************************************************************)
(* Time nodes that were started in one directory, as the two of the        *)
(* README's example are: each has a TimeChainConsensus of its own, with a  *)
(* mutex and a key of its own, but their storages are the same files       *)
(* ("data/time_chain", Node::initialize_time_chain).                       *)
(*                                                                         *)
(* The module composes the starts and the producers of the processes with  *)
(* FileStorage: initialize() reads latest.block and perhaps stores the     *)
(* genesis block, produce_block reads it, and later stores a block that    *)
(* refers to what was read.  Every touch of the disk is still a step.      *)
(***************************************************************************)
EXTENDS FileStorage

CONSTANTS
    Genesis,   \* the genesis block, the same for all
    OwnBlocks, \* the blocks each process may produce: they carry its key
    ZeroHash,  \* previous_hash when no latest block was found
    Unmade     \* not a block yet

ASSUME SharedAssumption ==
    /\ Genesis \in Blocks
    /\ OwnBlocks \in [Procs -> SUBSET (Blocks \ {Genesis})]
    /\ \A p, q \in Procs : p # q => OwnBlocks[p] \cap OwnBlocks[q] = {}
    /\ ZeroHash \notin Blocks /\ Unmade \notin Blocks \cup {ZeroHash}

VARIABLES
    task,   \* what each process is about: "start" before initialize, "genesis"
            \* when it has to store that, "idle" in the loop, "linked" when
            \* produce_block has read, "storing" until store_block returns
    read,   \* previous_hash, while a process has it
    prev,   \* history: previous_hash of every block made
    blind   \* history: latest.block was read while somebody else was storing
            \* a block, or had not begun to store the genesis block

taskVars == <<task, read, prev, blind>>
sharedVars == <<vars, taskVars>>

Tasks == {"start", "genesis", "idle", "linked", "storing"}
Links == Blocks \cup {ZeroHash}

SharedInit ==
    /\ Init
    /\ task = [p \in Procs |-> "start"]
    /\ read = [p \in Procs |-> ZeroHash]
    /\ prev = [b \in Blocks |-> Unmade]
    /\ blind = FALSE

Goes(p, from, to) == task[p] = from /\ task' = [task EXCEPT ![p] = to]

Made(b) == prev[b] # Unmade

-----------------------------------------------------------------------------
(* get_latest_block, read by a process that is in no storage operation.    *)
(* Another process may be in one: its mutex is another.                    *)
Look(p) ==
    blind' = (blind \/ \E q \in Procs \ {p} : step[q] # "idle" \/ task[q] = "genesis")

(* A slip the checks must notice: a start without the genesis block. *)
StartWithoutGenesis(p) ==
    /\ Goes(p, "start", "idle")
    /\ Look(p)
    /\ UNCHANGED <<vars, read, prev>>

(* A slip the checks must notice: the genesis block at every start. *)
StartWithGenesis(p) ==
    /\ Goes(p, "start", "genesis")
    /\ Look(p)
    /\ UNCHANGED <<vars, read, prev>>

(* initialize() looks for a latest block ... *)
Initialize(p) ==
    /\ IF GetLatestBlock # NoBlock THEN Goes(p, "start", "idle") ELSE Goes(p, "start", "genesis")
    /\ Look(p)
    /\ UNCHANGED <<vars, read, prev>>

(* ... and stores the genesis block when there is none. *)
StoreGenesis(p) ==
    /\ task[p] = "genesis"
    /\ StoreOpen(p, Genesis)
    /\ prev' = [prev EXCEPT ![Genesis] = ZeroHash]
    /\ UNCHANGED <<task, read, blind>>

(* produce_block reads the block to refer to ... *)
PreviousHash == IF GetLatestBlock = NoBlock THEN ZeroHash ELSE GetLatestBlock

ReadLatest(p) ==
    /\ Goes(p, "idle", "linked")
    /\ Look(p)
    /\ read' = [read EXCEPT ![p] = PreviousHash]
    /\ UNCHANGED <<vars, prev>>

(* ... and stores a new one, which nobody has stored before. *)
StoreOwn(p, b) ==
    /\ ~Made(b)
    /\ Goes(p, "linked", "storing")
    /\ StoreOpen(p, b)
    /\ prev' = [prev EXCEPT ![b] = read[p]]
    /\ UNCHANGED <<read, blind>>

-----------------------------------------------------------------------------
(* store_block, see FileStorage.  A block whose store fails is not made     *)
(* again, and initialize() that cannot store ends the program.             *)

Continue(p) ==
    /\ WriteFile(p) \/ FlushLost(p) \/ CopyOpen(p)
    /\ UNCHANGED taskVars

AnswersTrue(p) ==
    /\ CopyFill(p)
    /\ task' = [task EXCEPT ![p] = "idle"]
    /\ UNCHANGED <<read, prev, blind>>

AnswersFalse(p) ==
    /\ WriteFails(p) \/ CopyOpenFails(p) \/ CopyFillFails(p)
    /\ task' = [task EXCEPT ![p] = IF @ = "genesis" THEN "start" ELSE "idle"]
    /\ UNCHANGED <<read, prev, blind>>

OpenFails(p) ==
    /\ StoreOpenFails(p)
    /\ Goes(p, "linked", "idle") \/ Goes(p, "genesis", "start")
    /\ UNCHANGED <<read, prev, blind>>

(* The process dies, inside store_block or outside, and is started again.  *)
CrashStoring(p) ==
    /\ Crash(p)
    /\ task' = [task EXCEPT ![p] = "start"]
    /\ UNCHANGED <<read, prev, blind>>

RestartProcess(p) ==
    /\ step[p] = "idle"
    /\ Goes(p, "idle", "start") \/ Goes(p, "linked", "start")
    /\ UNCHANGED <<vars, read, prev, blind>>

SharedNext ==
    \E p \in Procs :
        \/ Initialize(p) \/ StoreGenesis(p) \/ ReadLatest(p)
        \/ \E b \in OwnBlocks[p] : StoreOwn(p, b)
        \/ Continue(p) \/ AnswersTrue(p) \/ AnswersFalse(p) \/ OpenFails(p)
        \/ CrashStoring(p) \/ RestartProcess(p)

SharedSpec == SharedInit /\ [][SharedNext]_sharedVars

-----------------------------------------------------------------------------
SharedTypeOK ==
    /\ TypeOK
    /\ task \in [Procs -> Tasks]
    /\ read \in [Procs -> Links]
    /\ prev \in [Blocks -> Links \cup {Unmade}]
    /\ blind \in BOOLEAN

(* Whatever the processes do to each other's files, and whatever fails,    *)
(* the block that a block refers to has a file, though perhaps not a       *)
(* readable one, and was made before it (produce_block).                   *)
PredecessorsHaveFiles ==
    \A b \in Blocks : prev[b] \in Blocks => BlockExists(prev[b]) /\ Made(prev[b])

(* produce_block: an empty latest block "should not happen as we've ensured*)
(* a genesis block exists in initialize()".  Without faults that is so for *)
(* processes that share the files too, as long as nobody reads latest.block*)
(* while another stores: every block but the genesis block has a           *)
(* predecessor.                                                            *)
PredecessorUnlessBlind ==
    faults = 0 /\ ~blind =>
        \A b \in Blocks \ {Genesis} : Made(b) => prev[b] \in Blocks

(* initialize checks "if TimeChain has any blocks": in the same cases the  *)
(* genesis block is never put over a chain that has grown.                 *)
GenesisStaysFirst ==
    [][faults' = 0 /\ ~blind' /\ latest' = Genesis /\ latest # Genesis
          => \A b \in Blocks \ {Genesis} : ~Made(b)]_sharedVars
=============================================================================

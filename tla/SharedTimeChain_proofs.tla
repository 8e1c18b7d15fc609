------------------------ MODULE SharedTimeChain_proofs ------------------------
(***************************************************************************)
(* Proofs about FileStorage and about SharedTimeChain, which composes it.  *)
(* Of FileStorage, for all processes and blocks and every bound on the     *)
(* faults: its type invariant, the two invariants that hold even           *)
(* when several processes share the directory, and, for a single process,  *)
(* that it implements BlockStore.  Of SharedTimeChain, for any number of   *)
(* processes in one directory: that it implements FileStorage, so that the *)
(* theorems about FileStorage hold of it, and what the blocks of the       *)
(* processes refer to.                                                     *)
(***************************************************************************)
EXTENDS SharedTimeChain, TLAPS

-----------------------------------------------------------------------------
(* FileStorage. *)

(* Every variable has its type. *)
THEOREM Typing == Spec => []TypeOK
<1>1. Init => TypeOK
  BY MaxFaultsAssumption, SentinelAssumption DEF Init, TypeOK, Contents, Steps
<1>2. TypeOK /\ [Next]_vars => TypeOK'
  <2> SUFFICES ASSUME TypeOK, [Next]_vars
               PROVE  TypeOK'
    OBVIOUS
  <2> USE MaxFaultsAssumption DEF TypeOK, Contents, Steps
  <2>1. ASSUME NEW p \in Procs, NEW b \in Blocks, StoreOpen(p, b)
        PROVE  TypeOK'
    BY <2>1 DEF StoreOpen
  <2>2. ASSUME NEW p \in Procs, StoreOpenFails(p)
        PROVE  TypeOK'
    BY <2>2 DEF StoreOpenFails, Fault
  <2>3. ASSUME NEW p \in Procs, WriteFile(p)
        PROVE  TypeOK'
    BY <2>3 DEF WriteFile
  <2>4. ASSUME NEW p \in Procs, WriteFails(p) \/ FlushLost(p)
        PROVE  TypeOK'
    BY <2>4 DEF WriteFails, FlushLost, Return, Fault
  <2>5. ASSUME NEW p \in Procs, CopyOpen(p)
        PROVE  TypeOK'
    BY <2>5 DEF CopyOpen
  <2>6. ASSUME NEW p \in Procs, CopyOpenFails(p) \/ CopyFillFails(p) \/ Crash(p)
        PROVE  TypeOK'
    BY <2>6 DEF CopyOpenFails, CopyFillFails, Crash, Return, Fault
  <2>7. ASSUME NEW p \in Procs, CopyFill(p)
        PROVE  TypeOK'
    BY <2>7 DEF CopyFill, Copied, Return
  <2>8. CASE UNCHANGED vars
    BY <2>8 DEF vars
  <2> QED
    BY <2>1, <2>2, <2>3, <2>4, <2>5, <2>6, <2>7, <2>8 DEF Next
<1> QED
  BY <1>1, <1>2, PTL DEF Spec

-----------------------------------------------------------------------------
(* What makes the two invariants inductive: a block that is being copied   *)
(* or was acknowledged has a file; a process that is past opening          *)
(* latest.block, and every acknowledgement, imply that latest.block is     *)
(* there; and, without faults, an unreadable file is one that somebody is  *)
(* writing, and an unreadable latest.block one that somebody will fill.    *)
HaveFiles ==
    /\ \A p \in Procs : step[p] # "idle" => file[arg[p]] # "absent"
    /\ \A b \in acked : file[b] # "absent"

LatestFromFile ==
    /\ latest \in Blocks => file[latest] # "absent" /\ latest \in acked
    /\ acked # {} => latest # NoBlock
    /\ \A p \in Procs : step[p] = "fill" => latest # NoBlock

TornIsBusy ==
    faults = 0 =>
        /\ \A b \in Blocks : file[b] = "torn" =>
               \E p \in Procs : step[p] = "write" /\ arg[p] = b
        /\ latest = Torn => \E p \in Procs : step[p] # "idle"

IInv == TypeOK /\ HaveFiles /\ LatestFromFile /\ TornIsBusy

LEMMA InitInvariant == Init => IInv
<1> SUFFICES ASSUME Init PROVE IInv
  OBVIOUS
<1>1. TypeOK
  BY MaxFaultsAssumption, SentinelAssumption DEF Init, TypeOK, Contents, Steps
<1>2. HaveFiles /\ LatestFromFile /\ TornIsBusy
  BY SentinelAssumption DEF Init, HaveFiles, LatestFromFile, TornIsBusy
<1> QED
  BY <1>1, <1>2 DEF IInv

LEMMA NextHaveFiles ==
    ASSUME TypeOK, HaveFiles, [Next]_vars
    PROVE  HaveFiles'
<1> USE DEF TypeOK, HaveFiles, Contents, Steps
<1>1. ASSUME NEW p \in Procs, NEW b \in Blocks, StoreOpen(p, b)
      PROVE  HaveFiles'
  BY <1>1 DEF StoreOpen
<1>2. ASSUME NEW p \in Procs, StoreOpenFails(p) \/ CopyOpen(p)
      PROVE  HaveFiles'
  BY <1>2 DEF StoreOpenFails, CopyOpen
<1>3. ASSUME NEW p \in Procs, WriteFile(p) \/ FlushLost(p)
      PROVE  HaveFiles'
  BY <1>3 DEF WriteFile, FlushLost
<1>4. ASSUME NEW p \in Procs,
             \/ WriteFails(p) \/ CopyOpenFails(p)
             \/ CopyFill(p) \/ CopyFillFails(p) \/ Crash(p)
      PROVE  HaveFiles'
  BY <1>4 DEF WriteFails, CopyOpenFails, CopyFill, CopyFillFails, Crash, Return
<1>5. CASE UNCHANGED vars
  BY <1>5 DEF vars
<1> QED
  BY <1>1, <1>2, <1>3, <1>4, <1>5 DEF Next

LEMMA NextLatestFromFile ==
    ASSUME TypeOK, HaveFiles, LatestFromFile, [Next]_vars
    PROVE  LatestFromFile'
<1> USE SentinelAssumption DEF TypeOK, LatestFromFile, Contents, Steps
<1>1. ASSUME NEW p \in Procs, NEW b \in Blocks, StoreOpen(p, b)
      PROVE  LatestFromFile'
  BY <1>1 DEF StoreOpen
<1>2. ASSUME NEW p \in Procs, StoreOpenFails(p) \/ CopyOpen(p)
      PROVE  LatestFromFile'
  BY <1>2 DEF StoreOpenFails, CopyOpen
<1>3. ASSUME NEW p \in Procs, WriteFile(p) \/ FlushLost(p)
      PROVE  LatestFromFile'
  BY <1>3 DEF WriteFile, FlushLost
<1>4. ASSUME NEW p \in Procs,
             WriteFails(p) \/ CopyOpenFails(p) \/ CopyFillFails(p) \/ Crash(p)
      PROVE  LatestFromFile'
  BY <1>4 DEF WriteFails, CopyOpenFails, CopyFillFails, Crash, Return
<1>5. ASSUME NEW p \in Procs, CopyFill(p)
      PROVE  LatestFromFile'
  BY <1>5 DEF CopyFill, Copied, Return, HaveFiles
<1>6. CASE UNCHANGED vars
  BY <1>6 DEF vars
<1> QED
  BY <1>1, <1>2, <1>3, <1>4, <1>5, <1>6 DEF Next

LEMMA FaultIsCounted == ASSUME TypeOK, Fault PROVE faults' # 0
  BY MaxFaultsAssumption DEF TypeOK, Fault

LEMMA NextTornIsBusy ==
    ASSUME TypeOK, HaveFiles, TornIsBusy, [Next]_vars
    PROVE  TornIsBusy'
<1> USE SentinelAssumption DEF TypeOK, TornIsBusy, Contents, Steps
<1>1. ASSUME NEW p \in Procs, NEW b \in Blocks, StoreOpen(p, b)
      PROVE  TornIsBusy'
  BY <1>1 DEF StoreOpen
<1>2. ASSUME NEW p \in Procs, WriteFile(p)
      PROVE  TornIsBusy'
  BY <1>2 DEF WriteFile
<1>3. ASSUME NEW p \in Procs, CopyOpen(p)
      PROVE  TornIsBusy'
  BY <1>3 DEF CopyOpen
<1>4. ASSUME NEW p \in Procs, CopyFill(p)
      PROVE  TornIsBusy'
  <2> SUFFICES ASSUME faults' = 0
               PROVE  /\ \A b \in Blocks : file'[b] = "torn" =>
                             \E q \in Procs : step'[q] = "write" /\ arg'[q] = b
                      /\ latest' = Torn => \E q \in Procs : step'[q] # "idle"
    OBVIOUS
  <2>1. ASSUME NEW b \in Blocks, file[b] = "torn"
        PROVE  \E q \in Procs : step'[q] = "write" /\ arg'[q] = b
    <3>1. PICK q \in Procs : step[q] = "write" /\ arg[q] = b
      BY <1>4, <2>1 DEF CopyFill
    <3>2. q # p /\ step'[q] = "write" /\ arg'[q] = b
      BY <3>1, <1>4 DEF CopyFill, Return
    <3> QED
      BY <3>2
  <2>2. latest' = Torn => file[arg[p]] = "torn"
    BY <1>4 DEF CopyFill, Copied, HaveFiles
  <2> QED
    BY <2>1, <2>2, <1>4 DEF CopyFill
<1>5. ASSUME NEW p \in Procs,
             \/ StoreOpenFails(p) \/ WriteFails(p) \/ FlushLost(p)
             \/ CopyOpenFails(p) \/ CopyFillFails(p) \/ Crash(p)
      PROVE  TornIsBusy'
  <2>1. Fault
    BY <1>5 DEF StoreOpenFails, WriteFails, FlushLost, CopyOpenFails, CopyFillFails, Crash
  <2> QED
    BY <2>1, FaultIsCounted
<1>6. CASE UNCHANGED vars
  BY <1>6 DEF vars
<1> QED
  BY <1>1, <1>2, <1>3, <1>4, <1>5, <1>6 DEF Next

LEMMA Invariance == Spec => []IInv
<1>1. TypeOK /\ IInv /\ [Next]_vars /\ TypeOK' => IInv'
  BY NextHaveFiles, NextLatestFromFile, NextTornIsBusy DEF IInv
<1> QED
  BY <1>1, InitInvariant, Typing, PTL DEF Spec

(* latest.block never names a block without a file, for any number of      *)
(* processes in the directory and whatever fails.                          *)
THEOREM LatestHasFile == Spec => []LatestNamesExistingFile
<1>1. IInv => LatestNamesExistingFile
  BY DEF IInv, LatestFromFile, LatestNamesExistingFile, BlockExists
<1> QED
  BY <1>1, Invariance, PTL

(* Without faults every acknowledged block can be read, and the latest one *)
(* is acknowledged, whenever all processes are outside store_block.        *)
THEOREM ReadableAtRest == Spec => []QuiescentReadable
<1>1. ASSUME IInv PROVE QuiescentReadable
  <2> SUFFICES ASSUME faults = 0, AllIdle
               PROVE  /\ acked # {} => GetLatestBlock \in acked
                      /\ \A b \in acked : GetBlock(b) = b
    BY DEF QuiescentReadable
  <2>1. latest # Torn /\ \A b \in Blocks : file[b] # "torn"
    BY <1>1 DEF IInv, TornIsBusy, AllIdle
  <2>2. \A b \in acked : GetBlock(b) = b
    BY <1>1, <2>1 DEF IInv, TypeOK, Contents, HaveFiles, GetBlock
  <2>3. acked # {} => latest \in Blocks
    BY <1>1, <2>1 DEF IInv, TypeOK, LatestFromFile
  <2> QED
    BY <1>1, <2>2, <2>3 DEF IInv, LatestFromFile, GetLatestBlock, Readable
<1> QED
  BY <1>1, Invariance, PTL

-----------------------------------------------------------------------------
(* Implementation of BlockStore by a single process.  While its store is   *)
(* under way the disk differs from what it was when the mutex was taken    *)
(* only in the block being stored and, in the last stage, in latest.block. *)
Untouched(p) ==
    step[p] # "idle" =>
        /\ \A b \in Blocks : b # arg[p] => file[b] = snap.file[b]
        /\ file[arg[p]] \in {"torn", "whole"}
        /\ latest = IF step[p] = "fill" THEN Torn ELSE snap.latest

LEMMA NextUntouched ==
    ASSUME NEW p, Procs = {p}, TypeOK, Untouched(p), [Next]_vars
    PROVE  Untouched(p)'
<1> USE DEF TypeOK, Untouched, Contents, Steps
<1>1. ASSUME NEW b \in Blocks, StoreOpen(p, b)
      PROVE  Untouched(p)'
  BY <1>1 DEF StoreOpen
<1>2. CASE StoreOpenFails(p) \/ CopyOpen(p)
  BY <1>2 DEF StoreOpenFails, CopyOpen
<1>3. CASE WriteFile(p) \/ FlushLost(p)
  BY <1>3 DEF WriteFile, FlushLost
<1>4. CASE \/ WriteFails(p) \/ CopyOpenFails(p)
           \/ CopyFill(p) \/ CopyFillFails(p) \/ Crash(p)
  BY <1>4 DEF WriteFails, CopyOpenFails, CopyFill, CopyFillFails, Crash, Return
<1>5. CASE UNCHANGED vars
  BY <1>5 DEF vars
<1> QED
  BY <1>1, <1>2, <1>3, <1>4, <1>5 DEF Next

(* A store that is cut short anywhere is a PutCut. *)
LEMMA CutStep ==
    ASSUME NEW p, Procs = {p}, TypeOK, Untouched(p),
           step[p] # "idle", step' = [step EXCEPT ![p] = "idle"],
           NEW content \in {"torn", "whole"},
           file' = [file EXCEPT ![arg[p]] = content],
           latest' = latest
    PROVE  Abstract!PutCut(arg[p])
<1> USE DEF TypeOK, Contents
<1>1. AllIdle' /\ ~AllIdle
  BY DEF AllIdle
<1>2. Committed = snap /\ Committed' = [file |-> file', latest |-> latest']
  BY <1>1 DEF Committed
<1>3. \A b \in Blocks : file'[b] = IF b = arg[p] THEN content ELSE snap.file[b]
  BY DEF Untouched
<1>4. latest' \in {snap.latest, Torn}
  BY DEF Untouched
<1>5. Readable(Torn) = NoBlock
  BY SentinelAssumption DEF Readable
<1>6. arg[p] \in Blocks
  OBVIOUS
<1>7. {b \in Blocks : Committed.file[b] # "absent"}'
        = {b \in Blocks : Committed.file[b] # "absent"} \cup {arg[p]}
  BY <1>2, <1>3, <1>6
<1>8. {b \in Blocks : Committed.file[b] = "whole"}' \in
        {{b \in Blocks : Committed.file[b] = "whole"} \ {arg[p]},
         {b \in Blocks : Committed.file[b] = "whole"} \cup {arg[p]}}
  <2>1. CASE content = "torn"
    <3>1. {b \in Blocks : Committed.file[b] = "whole"}'
            = {b \in Blocks : Committed.file[b] = "whole"} \ {arg[p]}
      BY <2>1, <1>2, <1>3, <1>6
    <3> QED
      BY <3>1
  <2>2. CASE content = "whole"
    <3>1. {b \in Blocks : Committed.file[b] = "whole"}'
            = {b \in Blocks : Committed.file[b] = "whole"} \cup {arg[p]}
      BY <2>2, <1>2, <1>3, <1>6
    <3> QED
      BY <3>1
  <2> QED
    BY <2>1, <2>2
<1>9. Readable(Committed.latest)' \in {Readable(Committed.latest), NoBlock}
  BY <1>2, <1>4, <1>5 DEF Readable
<1> QED
  BY <1>7, <1>8, <1>9 DEF Abstract!PutCut

(* A store that runs to its end is a Put, or a PutLost when what was       *)
(* copied over latest.block cannot be read.                                *)
LEMMA FillStep ==
    ASSUME NEW p, Procs = {p}, TypeOK, Untouched(p), CopyFill(p)
    PROVE  Abstract!Put(arg[p]) \/ Abstract!PutLost(arg[p])
<1> USE DEF TypeOK, Contents, CopyFill, Return
<1>1. AllIdle' /\ ~AllIdle
  BY DEF AllIdle, Steps
<1>2. Committed = snap /\ Committed' = [file |-> file', latest |-> latest']
  BY <1>1 DEF Committed
<1>3. \A b \in Blocks : b # arg[p] => file'[b] = snap.file[b]
  BY DEF Untouched
<1>4. arg[p] \in Blocks /\ file' = file
  OBVIOUS
<1>5. file[arg[p]] \in {"torn", "whole"}
  BY DEF Untouched
<1>6. {b \in Blocks : Committed.file[b] # "absent"}'
        = {b \in Blocks : Committed.file[b] # "absent"} \cup {arg[p]}
  BY <1>2, <1>3, <1>4, <1>5
<1>7. CASE file[arg[p]] = "whole"
  <2>1. {b \in Blocks : Committed.file[b] = "whole"}'
          = {b \in Blocks : Committed.file[b] = "whole"} \cup {arg[p]}
    BY <1>7, <1>2, <1>3, <1>4
  <2>2. Readable(Committed.latest)' = arg[p]
    BY <1>7, <1>2, <1>4 DEF Readable, Copied
  <2> QED
    BY <1>6, <2>1, <2>2 DEF Abstract!Put
<1>8. CASE file[arg[p]] = "torn"
  <2>1. {b \in Blocks : Committed.file[b] = "whole"}'
          = {b \in Blocks : Committed.file[b] = "whole"} \ {arg[p]}
    BY <1>8, <1>2, <1>3, <1>4
  <2>2. Readable(Committed.latest)' = NoBlock
    BY <1>8, <1>2, SentinelAssumption DEF Readable, Copied
  <2> QED
    BY <1>6, <2>1, <2>2 DEF Abstract!PutLost
<1> QED
  BY <1>5, <1>7, <1>8

LEMMA StepRefinement ==
    ASSUME NEW p, Procs = {p}, TypeOK, Untouched(p), [Next]_vars
    PROVE  [Abstract!StoreNext]_(Abstract!storeVars)
<1> USE DEF TypeOK, Contents, Steps
<1>1. ASSUME Committed' = Committed
      PROVE  UNCHANGED Abstract!storeVars
  BY <1>1 DEF Abstract!storeVars, Readable
<1>2. ASSUME NEW b \in Blocks, StoreOpen(p, b)
      PROVE  Committed' = Committed
  BY <1>2 DEF StoreOpen, Committed, AllIdle
<1>3. ASSUME \/ WriteFile(p) \/ FlushLost(p) \/ CopyOpen(p)
             \/ StoreOpenFails(p) \/ UNCHANGED vars
      PROVE  Committed' = Committed
  BY <1>3 DEF WriteFile, FlushLost, CopyOpen, StoreOpenFails, vars, Committed, AllIdle
<1>4. ASSUME \/ WriteFails(p) \/ CopyOpenFails(p)
             \/ CopyFillFails(p) \/ Crash(p)
      PROVE  Abstract!PutCut(arg[p])
  <2>1. step[p] # "idle" /\ step' = [step EXCEPT ![p] = "idle"] /\ latest' = latest
    BY <1>4 DEF WriteFails, CopyOpenFails, CopyFillFails, Crash, Return
  <2>2. \E content \in {"torn", "whole"} : file' = [file EXCEPT ![arg[p]] = content]
    <3>1. CASE WriteFails(p)
      BY <3>1 DEF WriteFails
    <3>2. CASE file' = file
      <4>1. file' = [file EXCEPT ![arg[p]] = file[arg[p]]]
        BY <3>2
      <4> QED
        BY <4>1, <2>1 DEF Untouched
    <3> QED
      BY <1>4, <3>1, <3>2 DEF CopyOpenFails, CopyFillFails, Crash
  <2> QED
    BY <2>1, <2>2, CutStep
<1>5. ASSUME CopyFill(p)
      PROVE  Abstract!Put(arg[p]) \/ Abstract!PutLost(arg[p])
  BY <1>5, FillStep
<1>6. arg[p] \in Blocks
  OBVIOUS
<1>7. \/ Committed' = Committed
      \/ Abstract!PutCut(arg[p])
      \/ Abstract!Put(arg[p]) \/ Abstract!PutLost(arg[p])
  BY <1>2, <1>3, <1>4, <1>5 DEF Next
<1>8. ASSUME \/ Abstract!PutCut(arg[p])
             \/ Abstract!Put(arg[p]) \/ Abstract!PutLost(arg[p])
      PROVE  Abstract!StoreNext
  BY <1>6, <1>8 DEF Abstract!StoreNext, Abstract!Put, Abstract!PutLost, Abstract!PutCut
<1> QED
  BY <1>1, <1>7, <1>8

(* With one process in the directory, store_block is atomic to everybody   *)
(* who holds the mutex, and can only end as BlockStore says.               *)
THEOREM Refinement ==
    ASSUME NEW p, Procs = {p}
    PROVE  Spec => ImplementsBlockStore
<1>1. Init => Abstract!StoreInit
  <2> SUFFICES ASSUME Init PROVE Abstract!StoreInit
    OBVIOUS
  <2>1. Committed = [file |-> file, latest |-> latest]
    BY DEF Init, Committed, AllIdle
  <2> QED
    BY <2>1, SentinelAssumption DEF Init, Abstract!StoreInit, Readable
<1>2. Init => Untouched(p)
  BY DEF Init, Untouched
<1>3. TypeOK /\ Untouched(p) /\ [Next]_vars => Untouched(p)'
  BY NextUntouched
<1>4. TypeOK /\ Untouched(p) /\ [Next]_vars
        => [Abstract!StoreNext]_(Abstract!storeVars)
  BY StepRefinement
<1> QED
  BY <1>1, <1>2, <1>3, <1>4, Typing, PTL DEF Spec, ImplementsBlockStore, Abstract!StoreSpec

-----------------------------------------------------------------------------
(* SharedTimeChain. *)

LEMMA SharedStep == [SharedNext]_sharedVars => [Next]_vars
<1> SUFFICES ASSUME [SharedNext]_sharedVars
             PROVE  Next \/ UNCHANGED vars
  OBVIOUS
<1>1. ASSUME NEW p \in Procs, Initialize(p) \/ ReadLatest(p) \/ RestartProcess(p)
      PROVE  UNCHANGED vars
  BY <1>1 DEF Initialize, ReadLatest, RestartProcess
<1>2. ASSUME NEW p \in Procs,
             StoreGenesis(p) \/ \E b \in OwnBlocks[p] : StoreOwn(p, b)
      PROVE  Next
  BY <1>2, SharedAssumption DEF StoreGenesis, StoreOwn, Next
<1>3. ASSUME NEW p \in Procs,
             Continue(p) \/ AnswersTrue(p) \/ AnswersFalse(p) \/ OpenFails(p) \/ CrashStoring(p)
      PROVE  Next
  BY <1>3 DEF Continue, AnswersTrue, AnswersFalse, OpenFails, CrashStoring, Next
<1>4. CASE UNCHANGED sharedVars
  BY <1>4 DEF sharedVars
<1> QED
  BY <1>1, <1>2, <1>3, <1>4 DEF SharedNext

(* Processes that share a directory use it as FileStorage says.            *)
THEOREM SharedRefinement == SharedSpec => Spec
<1>1. SharedInit => Init
  BY DEF SharedInit
<1> QED
  BY <1>1, SharedStep, PTL DEF SharedSpec, Spec

-----------------------------------------------------------------------------
TaskTyped ==
    /\ task \in [Procs -> Tasks]
    /\ read \in [Procs -> Links]
    /\ prev \in [Blocks -> Links \cup {Unmade}]
    /\ blind \in BOOLEAN

LEMMA LookTyped == ASSUME TaskTyped, NEW p \in Procs, Look(p) PROVE blind' \in BOOLEAN
  BY DEF TaskTyped, Look

LEMMA GetLatestTyped == GetLatestBlock \in Blocks \cup {NoBlock}
  BY DEF GetLatestBlock, Readable

LEMMA TaskTypedHolds == SharedSpec => []TaskTyped
<1>1. SharedInit => TaskTyped
  BY DEF SharedInit, TaskTyped, Tasks, Links
<1>2. TaskTyped /\ [SharedNext]_sharedVars => TaskTyped'
  <2> SUFFICES ASSUME TaskTyped, [SharedNext]_sharedVars
               PROVE  TaskTyped'
    OBVIOUS
  <2> USE LookTyped DEF TaskTyped, Tasks, Links, Goes
  <2>1. ASSUME NEW p \in Procs, Initialize(p) \/ RestartProcess(p)
        PROVE  TaskTyped'
    BY <2>1 DEF Initialize, RestartProcess
  <2>2. ASSUME NEW p \in Procs, StoreGenesis(p)
        PROVE  TaskTyped'
    BY <2>2, SharedAssumption DEF StoreGenesis
  <2>3. ASSUME NEW p \in Procs, ReadLatest(p)
        PROVE  TaskTyped'
    BY <2>3, GetLatestTyped DEF ReadLatest, PreviousHash
  <2>4. ASSUME NEW p \in Procs, NEW b \in OwnBlocks[p], StoreOwn(p, b)
        PROVE  TaskTyped'
    BY <2>4, SharedAssumption DEF StoreOwn
  <2>5. ASSUME NEW p \in Procs, Continue(p)
        PROVE  TaskTyped'
    BY <2>5 DEF Continue, taskVars
  <2>6. ASSUME NEW p \in Procs, AnswersTrue(p) \/ AnswersFalse(p) \/ OpenFails(p) \/ CrashStoring(p)
        PROVE  TaskTyped'
    BY <2>6 DEF AnswersTrue, AnswersFalse, OpenFails, CrashStoring
  <2>7. CASE UNCHANGED sharedVars
    BY <2>7 DEF sharedVars, taskVars
  <2> QED
    BY <2>1, <2>2, <2>3, <2>4, <2>5, <2>6, <2>7 DEF SharedNext
<1> QED
  BY <1>1, <1>2, PTL DEF SharedSpec

(* Every variable has its type. *)
THEOREM SharedTyping == SharedSpec => []SharedTypeOK
<1>1. TypeOK /\ TaskTyped => SharedTypeOK
  BY DEF TaskTyped, SharedTypeOK
<1> QED
  BY <1>1, SharedRefinement, Typing, TaskTypedHolds, PTL

-----------------------------------------------------------------------------
(* What is stored or acknowledged was made, and so was what a process has  *)
(* read, which has a file as well.                                         *)
LinkInv ==
    /\ \A p \in Procs : step[p] # "idle" => Made(arg[p])
    /\ \A b \in acked : Made(b)
    /\ \A p \in Procs : read[p] \in Blocks => file[read[p]] # "absent" /\ Made(read[p])
    /\ PredecessorsHaveFiles

LEMMA FilesStay ==
    ASSUME TypeOK, HaveFiles, [Next]_vars, NEW b \in Blocks, file[b] # "absent"
    PROVE  file'[b] # "absent"
  BY DEF TypeOK, HaveFiles, Next, vars, StoreOpen, StoreOpenFails, WriteFile, WriteFails,
         FlushLost, CopyOpen, CopyOpenFails, CopyFill, CopyFillFails, Crash

LEMMA LinkStep ==
    ASSUME IInv, TaskTyped, LinkInv, [SharedNext]_sharedVars
    PROVE  LinkInv'
<1> USE DEF IInv, TypeOK, TaskTyped, LinkInv, PredecessorsHaveFiles, BlockExists, Made
<1>1. \A b \in Blocks : file[b] # "absent" => file'[b] # "absent"
  BY SharedStep, FilesStay
<1>2. ASSUME NEW p \in Procs, Initialize(p) \/ RestartProcess(p)
      PROVE  LinkInv'
  BY <1>2 DEF Initialize, RestartProcess, vars
<1>3. ASSUME NEW p \in Procs, ReadLatest(p)
      PROVE  LinkInv'
  <2>1. PreviousHash \in Blocks => file[PreviousHash] # "absent" /\ Made(PreviousHash)
    BY SharedAssumption, SentinelAssumption
    DEF PreviousHash, GetLatestBlock, Readable, LatestFromFile
  <2> QED
    BY <1>3, <2>1 DEF ReadLatest, vars
<1>4. ASSUME NEW p \in Procs, NEW b \in Blocks, NEW h \in Links, StoreOpen(p, b),
             prev' = [prev EXCEPT ![b] = h], read' = read,
             h \in Blocks => file[h] # "absent" /\ Made(h)
      PROVE  LinkInv'
  <2>1. \A x \in Blocks : Made(x) => prev'[x] # Unmade
    BY <1>4, SharedAssumption DEF Links
  <2>2. prev'[b] # Unmade
    BY <1>4, SharedAssumption DEF Links
  <2>3. \A q \in Procs : step'[q] # "idle" => prev'[arg'[q]] # Unmade
    BY <1>4, <2>1, <2>2 DEF StoreOpen
  <2>4. \A x \in acked' : prev'[x] # Unmade
    BY <1>4, <2>1 DEF StoreOpen
  <2> QED
    BY <1>1, <1>4, <2>1, <2>3, <2>4
<1>5. ASSUME NEW p \in Procs, StoreGenesis(p)
      PROVE  LinkInv'
  <2>1. ZeroHash \in Links /\ ZeroHash \notin Blocks
    BY SharedAssumption DEF Links
  <2> QED
    BY <1>4, <1>5, <2>1, SharedAssumption DEF StoreGenesis
<1>6. ASSUME NEW p \in Procs, NEW b \in OwnBlocks[p], StoreOwn(p, b)
      PROVE  LinkInv'
  <2>1. b \in Blocks /\ read[p] \in Links
    BY SharedAssumption
  <2> QED
    BY <1>4, <1>6, <2>1 DEF StoreOwn
<1>7. ASSUME NEW p \in Procs,
             Continue(p) \/ AnswersTrue(p) \/ AnswersFalse(p) \/ OpenFails(p) \/ CrashStoring(p)
      PROVE  LinkInv'
  <2>1. /\ UNCHANGED <<read, prev, arg>>
        /\ \/ acked' = acked
           \/ step[p] = "fill" /\ acked' = acked \cup {arg[p]}
        /\ \A q \in Procs : step'[q] # "idle" => step[q] # "idle"
    <3>1. CASE Continue(p)
      BY <3>1 DEF Continue, taskVars, WriteFile, FlushLost, CopyOpen
    <3>2. CASE AnswersTrue(p)
      BY <3>2 DEF AnswersTrue, CopyFill, Return
    <3>3. CASE AnswersFalse(p)
      BY <3>3 DEF AnswersFalse, WriteFails, CopyOpenFails, CopyFillFails, Return
    <3>4. CASE OpenFails(p) \/ CrashStoring(p)
      BY <3>4 DEF OpenFails, CrashStoring, StoreOpenFails, Crash, Return
    <3> QED
      BY <1>7, <3>1, <3>2, <3>3, <3>4
  <2>2. \A q \in Procs : step[q] = "fill" => Made(arg[q])
    OBVIOUS
  <2> QED
    BY <1>1, <2>1, <2>2
<1>8. CASE UNCHANGED sharedVars
  BY <1>8 DEF sharedVars, vars, taskVars
<1> QED
  BY <1>2, <1>3, <1>5, <1>6, <1>7, <1>8 DEF SharedNext

LEMMA LinkInvHolds == SharedSpec => []LinkInv
<1>1. SharedInit => LinkInv
  BY SharedAssumption DEF SharedInit, Init, LinkInv, PredecessorsHaveFiles
<1> QED
  BY <1>1, LinkStep, SharedRefinement, Invariance, TaskTypedHolds, PTL DEF SharedSpec

(* A block that was made refers to one that was made before and has a file,*)
(* whatever the processes do to each other's files.                        *)
THEOREM PredecessorFiles == SharedSpec => []PredecessorsHaveFiles
  BY LinkInvHolds, PTL DEF LinkInv

(* The invariants of FileStorage that need no single process.              *)
THEOREM SharedLatest == SharedSpec => []LatestNamesExistingFile
  BY SharedRefinement, LatestHasFile, PTL

THEOREM SharedReadable == SharedSpec => []QuiescentReadable
  BY SharedRefinement, ReadableAtRest, PTL

-----------------------------------------------------------------------------
(* A process is inside store_block only for a task that stores, and then   *)
(* it is the genesis block in one task and another block in the other.     *)
Purpose ==
    \A p \in Procs : step[p] # "idle" =>
        \/ task[p] = "genesis" /\ arg[p] = Genesis
        \/ task[p] = "storing" /\ arg[p] # Genesis

(* Without faults a process is past initialize(), and a block other than   *)
(* the genesis block is made, only after some block was acknowledged.      *)
Founded ==
    faults = 0 =>
        /\ \A p \in Procs : task[p] \in {"idle", "linked", "storing"} => acked # {}
        /\ \A b \in Blocks \ {Genesis} : Made(b) => acked # {}

(* If moreover nobody looked while another stored, what was read is a      *)
(* block, and a process that is to store the genesis block is alone.       *)
Sighted ==
    faults = 0 /\ ~blind =>
        /\ \A p \in Procs : task[p] = "linked" => read[p] \in Blocks
        /\ \A p \in Procs : task[p] = "genesis" =>
              /\ acked = {}
              /\ \A q \in Procs \ {p} : task[q] = "start"

SightInv == Purpose /\ Founded /\ Sighted /\ PredecessorUnlessBlind

LEMMA SharedFault ==
    ASSUME TypeOK, NEW p \in Procs,
           AnswersFalse(p) \/ OpenFails(p) \/ CrashStoring(p)
    PROVE  faults' # 0
<1>1. Fault
  BY DEF AnswersFalse, OpenFails, CrashStoring, StoreOpenFails, WriteFails, CopyOpenFails,
         CopyFillFails, Crash
<1> QED
  BY <1>1, FaultIsCounted

LEMMA PurposeStep ==
    ASSUME TypeOK, TaskTyped, Purpose, [SharedNext]_sharedVars
    PROVE  Purpose'
<1> USE DEF TypeOK, TaskTyped, Purpose, Steps, Tasks
<1>1. ASSUME NEW p \in Procs, Initialize(p) \/ ReadLatest(p) \/ RestartProcess(p)
      PROVE  Purpose'
  BY <1>1 DEF Initialize, ReadLatest, RestartProcess, Goes, vars
<1>2. ASSUME NEW p \in Procs, StoreGenesis(p)
      PROVE  Purpose'
  BY <1>2, SharedAssumption DEF StoreGenesis, StoreOpen
<1>3. ASSUME NEW p \in Procs, NEW b \in OwnBlocks[p], StoreOwn(p, b)
      PROVE  Purpose'
  <2>1. b \in Blocks /\ b # Genesis
    BY SharedAssumption
  <2> QED
    BY <1>3, <2>1 DEF StoreOwn, StoreOpen, Goes
<1>4. ASSUME NEW p \in Procs, Continue(p)
      PROVE  Purpose'
  BY <1>4 DEF Continue, taskVars, WriteFile, FlushLost, CopyOpen
<1>5. ASSUME NEW p \in Procs, AnswersTrue(p)
      PROVE  Purpose'
  BY <1>5 DEF AnswersTrue, CopyFill, Return
<1>6. ASSUME NEW p \in Procs, AnswersFalse(p)
      PROVE  Purpose'
  BY <1>6 DEF AnswersFalse, WriteFails, CopyOpenFails, CopyFillFails, Return
<1>7. ASSUME NEW p \in Procs, OpenFails(p)
      PROVE  Purpose'
  BY <1>7 DEF OpenFails, StoreOpenFails, Goes
<1>8. ASSUME NEW p \in Procs, CrashStoring(p)
      PROVE  Purpose'
  BY <1>8 DEF CrashStoring, Crash, Return
<1>9. CASE UNCHANGED sharedVars
  BY <1>9 DEF sharedVars, vars, taskVars
<1> QED
  BY <1>1, <1>2, <1>3, <1>4, <1>5, <1>6, <1>7, <1>8, <1>9 DEF SharedNext

(* A process that looks while nobody stores finds a block if and only if   *)
(* one was acknowledged.                                                   *)
LEMMA LookSees ==
    ASSUME IInv, TaskTyped, Purpose, faults = 0,
           NEW p \in Procs, task[p] \in {"start", "idle"}, Look(p), ~blind'
    PROVE  /\ ~blind
           /\ \A q \in Procs \ {p} : task[q] # "genesis"
           /\ acked # {} <=> GetLatestBlock # NoBlock
<1>1. /\ ~blind
      /\ \A q \in Procs \ {p} : step[q] = "idle" /\ task[q] # "genesis"
  BY DEF Look, TaskTyped
<1>2. AllIdle
  BY <1>1 DEF Purpose, AllIdle
<1>3. latest # Torn
  BY <1>2 DEF IInv, TornIsBusy, AllIdle
<1> QED
  BY <1>1, <1>3, SentinelAssumption
  DEF IInv, TypeOK, LatestFromFile, GetLatestBlock, Readable

LEMMA SightStep ==
    ASSUME IInv, TaskTyped, SightInv, [SharedNext]_sharedVars
    PROVE  SightInv'
<1> USE SharedAssumption DEF TaskTyped, Tasks, Links, Made
<1>0. Purpose' /\ TypeOK
  BY PurposeStep DEF IInv, SightInv
<1>1. ASSUME NEW p \in Procs, Initialize(p)
      PROVE  SightInv'
  <2>1. Founded'
    <3>1. GetLatestBlock # NoBlock => acked # {}
      BY SentinelAssumption DEF IInv, LatestFromFile, GetLatestBlock, Readable
    <3> QED
      BY <1>1, <3>1 DEF SightInv, Initialize, Founded, vars, Goes
  <2>2. Sighted'
    <3> SUFFICES ASSUME faults = 0, ~blind'
                 PROVE  /\ \A q \in Procs : task'[q] = "linked" => read'[q] \in Blocks
                        /\ \A q \in Procs : task'[q] = "genesis" =>
                              /\ acked' = {}
                              /\ \A r \in Procs \ {q} : task'[r] = "start"
      BY <1>1 DEF Sighted, Initialize, vars
    <3>1. /\ ~blind
          /\ \A q \in Procs \ {p} : task[q] # "genesis"
          /\ acked # {} <=> GetLatestBlock # NoBlock
      BY <1>1, LookSees DEF SightInv, Initialize, Goes
    <3>2. task[p] = "start"
      BY <1>1 DEF Initialize, Goes
    <3>3. CASE GetLatestBlock # NoBlock
      BY <1>1, <3>1, <3>2, <3>3 DEF SightInv, Sighted, Initialize, Goes, vars
    <3>4. CASE GetLatestBlock = NoBlock
      <4>1. acked = {} /\ \A q \in Procs \ {p} : task[q] = "start"
        BY <3>1, <3>4 DEF SightInv, Founded
      <4> QED
        BY <1>1, <3>4, <4>1 DEF Initialize, Goes, vars
    <3> QED
      BY <3>3, <3>4
  <2> QED
    BY <1>0, <1>1, <2>1, <2>2
    DEF SightInv, PredecessorUnlessBlind, Initialize, Look, vars
<1>2. ASSUME NEW p \in Procs, StoreGenesis(p)
      PROVE  SightInv'
  BY <1>0, <1>2
  DEF SightInv, Founded, Sighted, PredecessorUnlessBlind, StoreGenesis, StoreOpen
<1>3. ASSUME NEW p \in Procs, ReadLatest(p)
      PROVE  SightInv'
  <2>1. ASSUME faults = 0, ~blind'
        PROVE  ~blind /\ PreviousHash \in Blocks
    <3>1. ~blind /\ (acked # {} <=> GetLatestBlock # NoBlock)
      BY <1>3, <2>1, LookSees DEF SightInv, ReadLatest, Goes
    <3>2. acked # {}
      BY <1>3, <2>1 DEF SightInv, Founded, ReadLatest, Goes
    <3> QED
      BY <3>1, <3>2, GetLatestTyped DEF PreviousHash
  <2>2. Founded'
    BY <1>3 DEF SightInv, Founded, ReadLatest, Goes, vars
  <2>3. Sighted'
    BY <1>3, <2>1 DEF SightInv, Sighted, ReadLatest, Goes, vars
  <2> QED
    BY <1>0, <1>3, <2>1, <2>2, <2>3 DEF SightInv, PredecessorUnlessBlind, ReadLatest, vars
<1>4. ASSUME NEW p \in Procs, NEW b \in OwnBlocks[p], StoreOwn(p, b)
      PROVE  SightInv'
  <2>1. Founded'
    BY <1>4 DEF SightInv, Founded, StoreOwn, StoreOpen, Goes
  <2>2. Sighted'
    BY <1>4 DEF SightInv, Sighted, StoreOwn, StoreOpen, Goes
  <2>3. PredecessorUnlessBlind'
    BY <1>4 DEF SightInv, Sighted, PredecessorUnlessBlind, StoreOwn, StoreOpen, Goes
  <2> QED
    BY <1>0, <2>1, <2>2, <2>3 DEF SightInv
<1>5. ASSUME NEW p \in Procs, Continue(p)
      PROVE  SightInv'
  <2>1. UNCHANGED <<task, read, prev, blind, acked>> /\ (faults' = 0 => faults = 0)
    BY <1>0, <1>5, FaultIsCounted DEF Continue, taskVars, WriteFile, FlushLost, CopyOpen
  <2> QED
    BY <1>0, <2>1 DEF SightInv, Founded, Sighted, PredecessorUnlessBlind
<1>6. ASSUME NEW p \in Procs, AnswersTrue(p)
      PROVE  SightInv'
  <2>1. task[p] \in {"genesis", "storing"}
    BY <1>6 DEF SightInv, Purpose, AnswersTrue, CopyFill
  <2>2. /\ task' = [task EXCEPT ![p] = "idle"]
        /\ UNCHANGED <<read, prev, blind, faults>>
        /\ acked' # {} /\ acked \subseteq acked'
    BY <1>6 DEF AnswersTrue, CopyFill
  <2>3. Founded'
    BY <2>2 DEF Founded
  <2>4. Sighted'
    BY <2>1, <2>2 DEF SightInv, Founded, Sighted
  <2> QED
    BY <1>0, <2>2, <2>3, <2>4 DEF SightInv, PredecessorUnlessBlind
<1>7. ASSUME NEW p \in Procs, AnswersFalse(p) \/ OpenFails(p) \/ CrashStoring(p)
      PROVE  SightInv'
  BY <1>0, <1>7, SharedFault DEF SightInv, Founded, Sighted, PredecessorUnlessBlind
<1>8. ASSUME NEW p \in Procs, RestartProcess(p)
      PROVE  SightInv'
  BY <1>0, <1>8
  DEF SightInv, Founded, Sighted, PredecessorUnlessBlind, RestartProcess, Goes, vars
<1>9. CASE UNCHANGED sharedVars
  BY <1>0, <1>9
  DEF SightInv, Founded, Sighted, PredecessorUnlessBlind, sharedVars, vars, taskVars
<1> QED
  BY <1>1, <1>2, <1>3, <1>4, <1>5, <1>6, <1>7, <1>8, <1>9 DEF SharedNext

LEMMA SightInvHolds == SharedSpec => []SightInv
<1>1. SharedInit => SightInv
  BY SharedAssumption
  DEF SharedInit, Init, SightInv, Purpose, Founded, Sighted, PredecessorUnlessBlind, Made
<1> QED
  BY <1>1, SightStep, SharedRefinement, Invariance, TaskTypedHolds, PTL DEF SharedSpec

(* Without faults, and unless latest.block was read while another process  *)
(* stored, every block but the genesis block has a predecessor.            *)
THEOREM Predecessors == SharedSpec => []PredecessorUnlessBlind
  BY SightInvHolds, PTL DEF SightInv

(* ... and the genesis block is never put over a chain that has grown.     *)
THEOREM GenesisFirst == SharedSpec => GenesisStaysFirst
<1> DEFINE Grown == \E b \in Blocks \ {Genesis} : Made(b)
           Safe == faults' = 0 /\ ~blind' /\ latest' = Genesis /\ latest # Genesis => ~Grown
<1>1. ASSUME TypeOK, SightInv, [SharedNext]_sharedVars
      PROVE  [Safe]_sharedVars
  <2> SUFFICES ASSUME faults' = 0, ~blind', latest' = Genesis, latest # Genesis
               PROVE  ~Grown
    OBVIOUS
  <2>1. PICK p \in Procs : AnswersTrue(p)
    BY <1>1, SharedAssumption, SentinelAssumption
    DEF SharedNext, sharedVars, vars, Initialize, StoreGenesis, ReadLatest, StoreOwn, StoreOpen,
        Continue, WriteFile, FlushLost, CopyOpen, AnswersFalse, WriteFails, CopyOpenFails,
        CopyFillFails, OpenFails, StoreOpenFails, CrashStoring, Crash, RestartProcess
  <2>2. arg[p] = Genesis /\ step[p] # "idle" /\ UNCHANGED <<faults, blind>>
    BY <2>1, SharedAssumption, SentinelAssumption DEF AnswersTrue, CopyFill, Copied
  <2>3. task[p] = "genesis"
    BY <1>1, <2>2 DEF SightInv, Purpose
  <2>4. acked = {}
    BY <1>1, <2>2, <2>3 DEF SightInv, Sighted
  <2> QED
    BY <1>1, <2>2, <2>4 DEF SightInv, Founded
<1>2. [Safe]_sharedVars => [faults' = 0 /\ ~blind' /\ latest' = Genesis /\ latest # Genesis
          => \A b \in Blocks \ {Genesis} : ~Made(b)]_sharedVars
  OBVIOUS
<1> QED
  BY <1>1, <1>2, SharedRefinement, Typing, SightInvHolds, PTL DEF SharedSpec, GenesisStaysFirst
=============================================================================

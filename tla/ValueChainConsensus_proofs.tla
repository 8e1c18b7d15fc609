--------------------- MODULE ValueChainConsensus_proofs ---------------------
(***************************************************************************)
(* Proofs about ValueChainConsensus, for every set of transactions, blocks *)
(* and time blocks and every value of the bounds: its type invariant, that *)
(* no transaction is lost and none spent more often than it came, and what *)
(* the time and the reference of a produced block have to do with each     *)
(* other.                                                                  *)
(***************************************************************************)
EXTENDS ValueChainConsensus, FiniteSetTheorems, Induction, TLAPS

LEMMA GenesisIsForeign ==
    /\ GenesisBlock \in ValueBlocks /\ GenesisBlock.hash \notin Nat
    /\ PeerBlocks \subseteq ValueBlocks
    /\ \A b \in PeerBlocks : b.hash \notin Nat
  BY BlockAssumption, HashAssumption

LEMMA EmptyIsBag == Empty \in [Txs -> Nat]
  BY DEF Empty

(* All that the proofs need to know of a store, whatever its outcome.      *)
StoreEffect(b) ==
    /\ present' \in {present, present \cup {b}}
    /\ whole' \subseteq present'
    /\ latest' \in {latest, NoBlock, b}
    /\ faults' \in Nat
    /\ faults' = 0 => faults = 0 /\ whole' = whole \cup {b}

LEMMA StoreHasEffect ==
    ASSUME Store!StoreTypeOK, faults \in Nat, NEW b \in ValueBlocks, StoreBlock(b)
    PROVE  StoreEffect(b)
<1> USE BoundAssumption DEF Store!StoreTypeOK, StoreEffect
<1>1. CASE Store!Put(b) /\ UNCHANGED faults
  BY <1>1 DEF Store!Put
<1>2. CASE Store!PutLost(b) /\ Fault
  BY <1>2 DEF Store!PutLost, Fault
<1>3. CASE Store!PutCut(b) /\ Fault
  <2>1. CASE UNCHANGED storeVars
    BY <1>3, <2>1 DEF Fault, storeVars
  <2>2. CASE /\ present' = present \cup {b}
             /\ whole' \in {whole \ {b}, whole \cup {b}}
             /\ latest' \in {latest, NoBlock}
    BY <1>3, <2>2 DEF Fault
  <2> QED
    BY <1>3, <2>1, <2>2 DEF Store!PutCut, Store!storeVars, storeVars
<1> QED
  BY <1>1, <1>2, <1>3 DEF StoreBlock, StoreAnswersTrue, StoreAnswersFalse

LEMMA EffectKeepsType ==
    ASSUME Store!StoreTypeOK, NEW b \in ValueBlocks, StoreEffect(b)
    PROVE  Store!StoreTypeOK' /\ faults' \in Nat
  BY DEF Store!StoreTypeOK, StoreEffect

-----------------------------------------------------------------------------
(* What the two threads hold where: the producer has gathered transactions *)
(* only from Gather to StoreOwn, and then its block is made of them; a     *)
(* handler that runs has a block of a peer.                                *)
Held ==
    /\ pc \in {"down", "sleep", "draw", "gather"} => hands = Empty
    /\ pc = "store" => block \in ValueBlocks /\ block.txs = hands
    /\ stage \in {"time", "store", "purge"} => incoming \in PeerBlocks

Typed == TypeOK /\ Held

(* What a step does to the storage: nothing, or one store, of the block    *)
(* the producer made or of one this node did not make.                     *)
Quiet == UNCHANGED storeVars /\ faults' \in Nat /\ (faults' = 0 => faults = 0)

(* When the producer stores, what it had gathered leaves its hands.       *)
HandsOver == hands' = Empty /\ UNCHANGED delivered /\ pool' \in {pool, Empty}

Stores(b) ==
    /\ b \in ValueBlocks
    /\ StoreEffect(b)
    /\ b.hash \notin Nat \/ (pc = "store" /\ b = block /\ HandsOver)

LEMMA StepStores ==
    ASSUME Typed, [Next]_vars
    PROVE  Quiet \/ \E b \in ValueBlocks : Stores(b)
<1> USE DEF Typed, TypeOK, Quiet
<1>1. CASE UNCHANGED vars
  BY <1>1 DEF vars
<1>2. ASSUME Fault PROVE faults' \in Nat /\ faults' # 0
  BY <1>2, BoundAssumption DEF Fault
<1>3. ASSUME NEW b \in ValueBlocks, StoreBlock(b),
             b.hash \notin Nat \/ (pc = "store" /\ b = block /\ HandsOver)
      PROVE  \E c \in ValueBlocks : Stores(c)
  BY <1>3, StoreHasEffect DEF Stores
<1>4. stage \in {"time", "store", "purge"} => incoming \in ValueBlocks /\ incoming.hash \notin Nat
  BY GenesisIsForeign DEF Held
<1>5. pc = "store" => block \in ValueBlocks
  BY DEF Held
<1>6. CASE Producer
  <2>1. CASE StoreOwn
    BY <1>3, <1>5, <2>1 DEF StoreOwn, HandsOver
  <2>2. CASE ~StoreOwn
    BY <1>6, <2>2
    DEF Producer, Generate, NothingToGenerate, Draw, Gather, Link, ReadTime, Reference
  <2> QED
    BY <2>1, <2>2
<1>7. CASE Network
  <2>1. CASE StoreReceived
    BY <1>3, <1>4, <2>1 DEF StoreReceived, StoreBlock
  <2> QED
    BY <1>7, <2>1 DEF Network, Deliver, CheckReference, CheckBlock, Purge
<1>8. CASE \E found \in TimeBlocks \cup {NoBlock} : TimeChainMoves(found)
  BY <1>2, <1>8 DEF TimeChainMoves
<1>9. CASE Crash
  <2>1. CASE UNCHANGED storeVars
    BY <1>2, <1>9, <2>1 DEF Crash
  <2>2. CASE pc = "store" /\ Store!PutCut(block)
    BY <1>3, <1>5, <1>9, <2>2 DEF Crash, HandsOver, StoreBlock, StoreAnswersFalse
  <2>3. CASE stage = "store" /\ Store!PutCut(incoming)
    BY <1>3, <1>4, <1>9, <2>3 DEF Crash, StoreBlock, StoreAnswersFalse
  <2> QED
    BY <1>9, <2>1, <2>2, <2>3 DEF Crash
<1>10. CASE Restart
  BY <1>3, <1>10, GenesisIsForeign DEF Restart, StoreBlock
<1> QED
  BY <1>1, <1>6, <1>7, <1>8, <1>9, <1>10 DEF Next

LEMMA StoreTyped ==
    ASSUME Typed, [Next]_vars
    PROVE  Store!StoreTypeOK' /\ faults' \in Nat
<1>1. CASE Quiet
  BY <1>1 DEF Quiet, storeVars, Typed, TypeOK, Store!StoreTypeOK
<1>2. CASE \E b \in ValueBlocks : Stores(b)
  BY <1>2, EffectKeepsType DEF Stores, Typed, TypeOK
<1> QED
  BY <1>1, <1>2, StepStores

LEMMA TimeAnswers ==
    ASSUME TypeOK
    PROVE  /\ LatestTimeBlock \in TimeBlocks \cup {NoBlock}
           /\ GetLatestBlockHash \in TimeHashes
           /\ GetCurrentTime \in Nat
  BY TimeAssumption
  DEF TypeOK, LatestTimeBlock, GetLatestBlockHash, GetCurrentTime, TimeHashOf, TimeIn, TimeHashes

LEMMA TypedInit == Init => Typed
<1> SUFFICES ASSUME Init PROVE Typed
  OBVIOUS
<1> USE DEF Init, IdleProducer
<1>1. Store!StoreTypeOK
  BY GenesisIsForeign DEF Store!StoreTypeOK
<1>2. timeLog \in Seq(TimeBlocks \cup {NoBlock}) /\ timeLog # <<>>
  BY TimeAssumption
<1> QED
  BY <1>1, <1>2, EmptyIsBag, HashAssumption DEF Typed, TypeOK, Held, Hashes

LEMMA TypedStep ==
    ASSUME Typed, [Next]_vars
    PROVE  Typed'
<1>0. Store!StoreTypeOK' /\ faults' \in Nat
  BY StoreTyped
<1> USE EmptyIsBag DEF Typed, TypeOK, Held
<1>1. ASSUME NEW t \in Txs, AddTransaction(t)
      PROVE  pool' \in [Txs -> Nat] /\ delivered' \in [Txs -> Nat]
  BY <1>1 DEF AddTransaction
<1>2. ASSUME NEW t \in PeerTxs, Deliver(t)
      PROVE  Typed'
  BY <1>0, <1>1, <1>2 DEF Deliver, Txs, producerVars, networkVars
<1>3. ASSUME NEW t \in OwnTxs, Generate(t)
      PROVE  Typed'
  BY <1>0, <1>1, <1>3 DEF Generate, Txs, networkVars
<1>4. ASSUME NothingToGenerate \/ \E eligible \in BOOLEAN : Draw(eligible)
      PROVE  Typed'
  BY <1>0, <1>4 DEF NothingToGenerate, Draw, networkVars
<1>5. ASSUME Gather
      PROVE  Typed'
  BY <1>0, <1>5 DEF Gather, networkVars
<1>6. ASSUME Link
      PROVE  Typed'
  <2>1. prev' \in Hashes
    BY <1>6 DEF Link, Hashes, ValueBlocks, Store!StoreTypeOK
  <2> QED
    BY <1>0, <1>6, <2>1 DEF Link, networkVars
<1>7. ASSUME ReadTime
      PROVE  Typed'
  BY <1>0, <1>7, TimeAnswers DEF ReadTime, networkVars
<1>8. ASSUME Reference
      PROVE  Typed'
  <2>1. block' \in ValueBlocks /\ block'.txs = hands /\ produced' \in Nat
    BY <1>8, TimeAnswers DEF Reference, ValueBlocks, Hashes
  <2> QED
    BY <1>0, <1>8, <2>1 DEF Reference, networkVars
<1>9. ASSUME StoreOwn
      PROVE  Typed'
  BY <1>0, <1>9 DEF StoreOwn, networkVars, Hashes
<1>10. ASSUME NEW b \in PeerBlocks, CheckReference(b)
       PROVE  Typed'
  BY <1>0, <1>10 DEF CheckReference, producerVars
<1>11. ASSUME CheckBlock \/ StoreReceived
       PROVE  Typed'
  BY <1>0, <1>11 DEF CheckBlock, StoreReceived, producerVars
<1>12. ASSUME Purge
       PROVE  Typed'
  <2>1. pool' \in [Txs -> Nat]
    BY <1>12 DEF Purge, PurgePool
  <2> QED
    BY <1>0, <1>12, <2>1 DEF Purge, producerVars
<1>13. ASSUME NEW found \in TimeBlocks \cup {NoBlock}, TimeChainMoves(found)
       PROVE  Typed'
  <2>1. timeLog' \in Seq(TimeBlocks \cup {NoBlock}) /\ timeLog' # <<>>
    BY <1>13 DEF TimeChainMoves
  <2> QED
    BY <1>0, <1>13, <2>1 DEF TimeChainMoves, producerVars, networkVars
<1>14. ASSUME Crash
       PROVE  Typed'
  BY <1>0, <1>14 DEF Crash, Hashes
<1>15. ASSUME Restart
       PROVE  Typed'
  BY <1>0, <1>15 DEF Restart
<1>16. CASE UNCHANGED vars
  BY <1>0, <1>16 DEF vars, producerVars, networkVars
<1> QED
  BY <1>2, <1>3, <1>4, <1>5, <1>6, <1>7, <1>8, <1>9, <1>10, <1>11, <1>12, <1>13, <1>14,
     <1>15, <1>16 DEF Next, Producer, Network

LEMMA TypedHolds == Spec => []Typed
  BY TypedInit, TypedStep, PTL DEF Spec

(* Every variable has its type. *)
THEOREM Typing == Spec => []TypeOK
  BY TypedHolds, PTL DEF Typed

-----------------------------------------------------------------------------
(* A block whose transactions are being purged from the pool is safe.      *)
PurgedIsWhole == faults = 0 /\ stage = "purge" => incoming \in whole

LEMMA WholeGrows ==
    ASSUME Typed, [Next]_vars, faults' = 0
    PROVE  faults = 0 /\ whole \subseteq whole'
<1>1. CASE Quiet
  BY <1>1 DEF Quiet, storeVars
<1>2. CASE \E b \in ValueBlocks : Stores(b)
  BY <1>2 DEF Stores, StoreEffect
<1> QED
  BY <1>1, <1>2, StepStores

LEMMA PurgedStep ==
    ASSUME Typed, PurgedIsWhole, [Next]_vars
    PROVE  PurgedIsWhole'
<1> SUFFICES ASSUME faults' = 0, stage' = "purge"
             PROVE  incoming' \in whole'
  BY DEF PurgedIsWhole
<1>0. faults = 0 /\ whole \subseteq whole'
  BY WholeGrows
<1>1. CASE StoreReceived
  <2>1. StoreBlock(incoming) /\ incoming \in ValueBlocks /\ incoming' = incoming
    BY <1>1, GenesisIsForeign DEF StoreReceived, StoreBlock, Typed, Held
  <2>2. StoreEffect(incoming)
    BY <2>1, StoreHasEffect DEF Typed, TypeOK
  <2> QED
    BY <2>1, <2>2 DEF StoreEffect
<1>2. CASE UNCHANGED <<stage, incoming>>
  BY <1>0, <1>2 DEF PurgedIsWhole
<1>3. CASE UNCHANGED vars
  BY <1>2, <1>3 DEF vars, networkVars
<1>4. CASE Producer
  BY <1>2, <1>4
  DEF Producer, Generate, NothingToGenerate, Draw, Gather, Link, ReadTime, Reference, StoreOwn,
      networkVars
<1>5. CASE Network
  BY <1>1, <1>2, <1>5 DEF Network, Deliver, CheckReference, CheckBlock, Purge, networkVars
<1>6. CASE Crash \/ Restart \/ \E found \in TimeBlocks \cup {NoBlock} : TimeChainMoves(found)
  BY <1>2, <1>6 DEF Crash, Restart, TimeChainMoves, networkVars
<1> QED
  BY <1>3, <1>4, <1>5, <1>6 DEF Next

LEMMA LostStep ==
    ASSUME Typed, PurgedIsWhole, NoTransactionLost, [Next]_vars
    PROVE  NoTransactionLost'
<1> SUFFICES ASSUME faults' = 0, NEW t \in Txs, delivered'[t] > 0
             PROVE  \/ pool'[t] > 0
                    \/ hands'[t] > 0
                    \/ \E b \in whole' : t \in In(b)
  BY DEF NoTransactionLost, In
<1> USE DEF Typed, TypeOK
<1>0. faults = 0 /\ whole \subseteq whole'
  BY WholeGrows
<1>1. CASE UNCHANGED <<pool, hands, delivered>>
  BY <1>0, <1>1 DEF NoTransactionLost
<1>2. ASSUME NEW u \in Txs, AddTransaction(u), UNCHANGED hands
      PROVE  pool'[t] > 0 \/ hands'[t] > 0 \/ \E b \in whole' : t \in In(b)
  <2>1. CASE t = u
    BY <1>2, <2>1 DEF AddTransaction
  <2>2. CASE t # u
    BY <1>0, <1>2, <2>2 DEF AddTransaction, NoTransactionLost
  <2> QED
    BY <2>1, <2>2
<1>3. CASE Gather
  <2>1. hands[t] = 0 /\ hands' = pool /\ delivered' = delivered
    BY <1>3 DEF Gather, Held, Empty
  <2> QED
    BY <1>0, <2>1 DEF NoTransactionLost
<1>4. CASE StoreOwn
  <2>1. block \in ValueBlocks /\ block.txs = hands /\ UNCHANGED <<pool, delivered>>
    BY <1>4 DEF StoreOwn, Held
  <2>2. block \in whole'
    BY <1>4, <2>1, StoreHasEffect DEF StoreOwn, StoreEffect
  <2> QED
    BY <1>0, <2>1, <2>2 DEF NoTransactionLost, In
<1>5. CASE Purge
  <2>1. incoming \in whole /\ UNCHANGED <<hands, delivered>> /\ pool' = PurgePool(incoming)
    BY <1>0, <1>5 DEF Purge, PurgedIsWhole, producerVars
  <2>2. CASE t \in In(incoming)
    BY <1>0, <2>1, <2>2
  <2>3. CASE t \notin In(incoming)
    BY <1>0, <2>1, <2>3 DEF NoTransactionLost, PurgePool
  <2> QED
    BY <2>2, <2>3
<1>6. CASE Producer
  BY <1>1, <1>2, <1>3, <1>4, <1>6
  DEF Producer, Generate, NothingToGenerate, Draw, Link, ReadTime, Reference, Txs
<1>7. CASE Network
  BY <1>1, <1>2, <1>5, <1>7
  DEF Network, Deliver, CheckReference, CheckBlock, StoreReceived, producerVars, Txs
<1>8. CASE Crash
  BY <1>0, <1>8 DEF Crash, Fault
<1>9. CASE Restart \/ \E found \in TimeBlocks \cup {NoBlock} : TimeChainMoves(found)
  BY <1>1, <1>9 DEF Restart, TimeChainMoves, producerVars
<1>10. CASE UNCHANGED vars
  BY <1>1, <1>10 DEF vars, producerVars
<1> QED
  BY <1>6, <1>7, <1>8, <1>9, <1>10 DEF Next

(* Without faults no transaction that entered the pool is lost, whatever   *)
(* peers send and however the two threads interleave.                      *)
THEOREM NothingLost == Spec => []NoTransactionLost
<1>1. Init => PurgedIsWhole /\ NoTransactionLost
  BY DEF Init, PurgedIsWhole, NoTransactionLost, Empty
<1> QED
  BY <1>1, PurgedStep, LostStep, TypedHolds, PTL DEF Spec

-----------------------------------------------------------------------------
(* The time of b was read no later than its reference. *)
Timely(b) ==
    \E j \in DOMAIN timeLog : \E i \in 1..j :
        /\ b.time = TimeIn(timeLog[i])
        /\ b.ref = TimeHashOf(timeLog[j])

(* The producer on its way from the time to the block.                     *)
TimeWasRead ==
    /\ pc = "reference" => \E i \in DOMAIN timeLog : time = TimeIn(timeLog[i])
    /\ pc = "store" => Timely(block)

LEMMA LogGrows ==
    ASSUME Typed, [Next]_vars
    PROVE  /\ DOMAIN timeLog = 1..Len(timeLog) /\ Len(timeLog) \in Nat \ {0}
           /\ \A i \in DOMAIN timeLog : i \in DOMAIN timeLog' /\ timeLog'[i] = timeLog[i]
<1> USE DEF Typed, TypeOK
<1>1. DOMAIN timeLog = 1..Len(timeLog) /\ Len(timeLog) \in Nat \ {0}
  OBVIOUS
<1>2. CASE \E found \in TimeBlocks \cup {NoBlock} : TimeChainMoves(found)
  BY <1>1, <1>2 DEF TimeChainMoves
<1>3. CASE UNCHANGED timeLog
  BY <1>1, <1>3
<1>4. CASE Producer \/ Network \/ Crash \/ Restart \/ UNCHANGED vars
  BY <1>3, <1>4
  DEF Producer, Generate, NothingToGenerate, Draw, Gather, Link, ReadTime, Reference, StoreOwn,
      Network, Deliver, CheckReference, CheckBlock, StoreReceived, Purge, Crash, Restart, vars
<1> QED
  BY <1>2, <1>4 DEF Next

LEMMA TimelyStays ==
    ASSUME Typed, [Next]_vars, NEW b, Timely(b)
    PROVE  Timely(b)'
<1>1. PICK j \in DOMAIN timeLog : \E i \in 1..j :
              b.time = TimeIn(timeLog[i]) /\ b.ref = TimeHashOf(timeLog[j])
  BY DEF Timely
<1>2. PICK i \in 1..j : b.time = TimeIn(timeLog[i]) /\ b.ref = TimeHashOf(timeLog[j])
  BY <1>1
<1>3. i \in DOMAIN timeLog
  BY <1>1, <1>2, LogGrows
<1>4. j \in DOMAIN timeLog' /\ timeLog'[i] = timeLog[i] /\ timeLog'[j] = timeLog[j]
  BY <1>1, <1>3, LogGrows
<1> QED
  BY <1>2, <1>4 DEF Timely, TimeIn, TimeHashOf

LEMMA TimeWasReadStep ==
    ASSUME Typed, TimeWasRead, [Next]_vars
    PROVE  TimeWasRead'
<1>1. CASE ReadTime
  <2>1. time' = TimeIn(timeLog[Len(timeLog)]) /\ timeLog' = timeLog /\ pc' = "reference"
    BY <1>1 DEF ReadTime, GetCurrentTime, LatestTimeBlock
  <2>2. Len(timeLog) \in DOMAIN timeLog
    BY LogGrows
  <2> QED
    BY <2>1, <2>2 DEF TimeWasRead, TimeIn
<1>2. CASE Reference
  <2>1. /\ pc = "reference" /\ timeLog' = timeLog /\ pc' = "store"
        /\ block'.time = time
        /\ block'.ref = TimeHashOf(timeLog[Len(timeLog)])
    BY <1>2 DEF Reference, GetLatestBlockHash, LatestTimeBlock
  <2>2. PICK i \in DOMAIN timeLog : time = TimeIn(timeLog[i])
    BY <2>1 DEF TimeWasRead
  <2>3. Len(timeLog) \in DOMAIN timeLog /\ i \in 1..Len(timeLog)
    BY LogGrows
  <2> QED
    BY <2>1, <2>2, <2>3 DEF TimeWasRead, Timely, TimeIn, TimeHashOf
<1>3. CASE pc' \notin {"reference", "store"}
  BY <1>3 DEF TimeWasRead
<1>4. CASE UNCHANGED <<pc, time, block>>
  <2>1. pc' = "store" => Timely(block)'
    BY <1>4, TimelyStays DEF TimeWasRead, Timely
  <2>2. pc' = "reference" => \E i \in DOMAIN timeLog' : time' = TimeIn(timeLog'[i])
    BY <1>4, LogGrows DEF TimeWasRead
  <2> QED
    BY <2>1, <2>2 DEF TimeWasRead, TimeIn
<1>5. CASE Producer
  BY <1>1, <1>2, <1>3, <1>5
  DEF Producer, Generate, NothingToGenerate, Draw, Gather, Link, StoreOwn
<1>6. CASE Network \/ \E found \in TimeBlocks \cup {NoBlock} : TimeChainMoves(found)
  BY <1>4, <1>6
  DEF Network, Deliver, CheckReference, CheckBlock, StoreReceived, Purge, TimeChainMoves,
      producerVars
<1>7. CASE Crash \/ Restart \/ UNCHANGED vars
  BY <1>3, <1>4, <1>7 DEF Crash, Restart, vars, producerVars
<1> QED
  BY <1>5, <1>6, <1>7 DEF Next

LEMMA OwnTimelyStep ==
    ASSUME Typed, TimeWasRead, TimeNotAfterReference, [Next]_vars
    PROVE  TimeNotAfterReference'
<1> SUFFICES ASSUME NEW b \in OwnBlocks'
             PROVE  Timely(b)'
  BY DEF TimeNotAfterReference, Timely
<1>1. b \in OwnBlocks \/ (pc = "store" /\ b = block)
  <2>1. CASE Quiet
    BY <2>1 DEF Quiet, storeVars, OwnBlocks
  <2>2. CASE \E c \in ValueBlocks : Stores(c)
    BY <2>2 DEF Stores, StoreEffect, OwnBlocks
  <2> QED
    BY <2>1, <2>2, StepStores
<1>2. Timely(b)
  BY <1>1 DEF TimeNotAfterReference, TimeWasRead, Timely
<1> QED
  BY <1>2, TimelyStays

(* The time of a produced block is no later than its reference, though     *)
(* both are read from a time chain that moves in between.                  *)
THEOREM TimeThenReference == Spec => []TimeNotAfterReference
<1>1. Init => TimeWasRead /\ TimeNotAfterReference
  BY GenesisIsForeign DEF Init, IdleProducer, TimeWasRead, TimeNotAfterReference, OwnBlocks
<1> QED
  BY <1>1, TimeWasReadStep, OwnTimelyStep, TypedHolds, PTL DEF Spec

(* As long as the time chain only moves forward, the node would accept     *)
(* every block of its own at any later time.                               *)
THEOREM OwnBlocksPass == Spec => []OwnBlocksPassOwnCheck
<1>1. ASSUME TypeOK, TimeNotAfterReference PROVE OwnBlocksPassOwnCheck
  <2> SUFFICES ASSUME TimeMovesForward, NEW b \in OwnBlocks
               PROVE  TimeBlockExists(b.ref) /\ NotInTheFuture(b)
    BY DEF OwnBlocksPassOwnCheck
  <2>1. PICK last \in Nat \ {0} : last = Len(timeLog) /\ DOMAIN timeLog = 1..last
    BY <1>1 DEF TypeOK
  <2>2. PICK i, j \in 1..last :
          i <= j /\ b.time = TimeIn(timeLog[i]) /\ b.ref = TimeHashOf(timeLog[j])
    BY <1>1, <2>1 DEF TimeNotAfterReference
  <2>3. i \in Nat /\ i <= last /\ last \in 1..last
    BY <2>1, <2>2
  <2>4. \A n \in 1..last : timeLog[n] \in TimeBlocks /\ timeLog[n] # NoBlock
    BY <1>1, <2>1 DEF TypeOK, TimeMovesForward
  <2>5. TimeBlockExists(b.ref)
    BY <2>1, <2>2, <2>4 DEF TimeBlockExists, TimeHashOf
  <2>6. TimeOf[timeLog[i]] <= TimeOf[timeLog[last]]
    <3>1. TimeOf[timeLog[i]] \in Nat /\ TimeOf[timeLog[last]] \in Nat
      BY <2>2, <2>3, <2>4, TimeAssumption
    <3>2. \A m, n \in 1..last : m < n => TimeOf[timeLog[m]] < TimeOf[timeLog[n]]
      BY <2>1 DEF TimeMovesForward
    <3>3. i = last \/ i < last
      BY <2>3
    <3>4. CASE i < last
      <4>1. TimeOf[timeLog[i]] < TimeOf[timeLog[last]]
        BY <2>2, <2>3, <3>2, <3>4
      <4> QED
        BY <3>1, <4>1
    <3> QED
      BY <3>1, <3>3, <3>4
  <2>7. GetCurrentTime = TimeOf[timeLog[last]] /\ b.time = TimeOf[timeLog[i]]
    BY <2>1, <2>2, <2>3, <2>4 DEF GetCurrentTime, LatestTimeBlock, TimeIn
  <2> QED
    BY <2>5, <2>6, <2>7 DEF NotInTheFuture
<1> QED
  BY <1>1, Typing, TimeThenReference, PTL

-----------------------------------------------------------------------------
(* Copies of a transaction in a set of blocks: MapThenSumSet takes a block *)
(* it chooses from the set, and goes on with the others.                   *)
CopiesIn(t, S) == LET Copies(b) == b.txs[t] IN MapThenSumSet(Copies, S)

AnyOf(s) == CHOOSE x \in s : TRUE

Sums(f, t, S) ==
    f = [s \in SUBSET S |-> IF s = {} THEN 0 ELSE AnyOf(s).txs[t] + f[s \ {AnyOf(s)}]]

LEMMA CopiesAreSums ==
    ASSUME NEW t, NEW S
    PROVE  CopiesIn(t, S) = (CHOOSE f : Sums(f, t, S))[S]
  BY DEF CopiesIn, MapThenSumSet, MapThenFoldSet, Sums, AnyOf

LEMMA SumOf ==
    ASSUME NEW t, NEW S, NEW f, Sums(f, t, S)
    PROVE  /\ f[{}] = 0
           /\ \A s \in SUBSET S : s # {} =>
                 /\ AnyOf(s) \in s /\ s \ {AnyOf(s)} \in SUBSET S
                 /\ f[s] = AnyOf(s).txs[t] + f[s \ {AnyOf(s)}]
<1>1. \A s \in SUBSET S : s # {} => AnyOf(s) \in s
  BY DEF AnyOf
<1>2. \A s \in SUBSET S :
         f[s] = IF s = {} THEN 0 ELSE AnyOf(s).txs[t] + f[s \ {AnyOf(s)}]
  BY DEF Sums
<1> QED
  BY <1>1, <1>2

(* A set without one of its elements is smaller by one. *)
LEMMA Smaller ==
    ASSUME NEW S, IsFiniteSet(S), NEW s \in SUBSET S, NEW x \in s
    PROVE  /\ Cardinality(s) \in Nat \ {0} /\ Cardinality(s \ {x}) \in Nat
           /\ Cardinality(s \ {x}) = Cardinality(s) - 1
<1>1. IsFiniteSet(s) /\ s # {}
  BY FS_Subset
<1>2. Cardinality(s) \in Nat /\ Cardinality(s) # 0
  BY <1>1, FS_CardinalityType, FS_EmptySet
<1>3. Cardinality(s \ {x}) = Cardinality(s) - 1
  BY <1>1, FS_RemoveElement
<1> QED
  BY <1>2, <1>3

(* Such a function exists: it is made for larger and larger subsets.       *)
LEMMA SumExists ==
    ASSUME NEW t, NEW S, IsFiniteSet(S)
    PROVE  \E f : Sums(f, t, S)
<1> DEFINE UpTo(n) == {s \in SUBSET S : Cardinality(s) <= n}
           Part(f, n) == f = [s \in UpTo(n) |->
                                IF s = {} THEN 0 ELSE AnyOf(s).txs[t] + f[s \ {AnyOf(s)}]]
           T == {n \in Nat : \E f : Part(f, n)}
<1>1. \A s \in SUBSET S : Cardinality(s) \in Nat /\ (Cardinality(s) = 0 <=> s = {})
  BY FS_Subset, FS_CardinalityType, FS_EmptySet
<1>2. 0 \in T
  <2> DEFINE f == [s \in UpTo(0) |-> 0]
  <2>1. \A s \in UpTo(0) : s = {}
    BY <1>1
  <2>2. f = [s \in UpTo(0) |-> IF s = {} THEN 0 ELSE AnyOf(s).txs[t] + f[s \ {AnyOf(s)}]]
    BY <2>1
  <2>3. Part(f, 0)
    BY <2>2
  <2> HIDE DEF f, Part
  <2> QED
    BY <2>3
<1>3. ASSUME NEW n \in Nat, NEW f, Part(f, n)
      PROVE  \E g : Part(g, n + 1)
  <2> DEFINE g == [s \in UpTo(n + 1) |->
                     IF s = {} THEN 0 ELSE AnyOf(s).txs[t] + f[s \ {AnyOf(s)}]]
  <2>1. \A s \in UpTo(n) : s \in UpTo(n + 1)
    BY <1>1
  <2>2. \A s \in UpTo(n) :
           f[s] = IF s = {} THEN 0 ELSE AnyOf(s).txs[t] + f[s \ {AnyOf(s)}]
    BY <1>3
  <2>3. \A s \in UpTo(n) : g[s] = f[s]
    BY <2>1, <2>2
  <2>4. ASSUME NEW s \in UpTo(n + 1), s # {} PROVE s \ {AnyOf(s)} \in UpTo(n)
    <3>1. AnyOf(s) \in s /\ s \in SUBSET S
      BY <2>4 DEF AnyOf
    <3>2. /\ Cardinality(s) \in Nat /\ Cardinality(s \ {AnyOf(s)}) \in Nat
          /\ Cardinality(s \ {AnyOf(s)}) = Cardinality(s) - 1
      BY <3>1, Smaller
    <3>3. Cardinality(s) <= n + 1
      OBVIOUS
    <3>4. Cardinality(s \ {AnyOf(s)}) <= n
      BY <3>2, <3>3
    <3> QED
      BY <3>1, <3>4
  <2>5. g = [s \in UpTo(n + 1) |->
               IF s = {} THEN 0 ELSE AnyOf(s).txs[t] + g[s \ {AnyOf(s)}]]
    BY <2>3, <2>4
  <2>6. Part(g, n + 1)
    BY <2>5
  <2> HIDE DEF g, Part
  <2> QED
    BY <2>6
<1>4. Cardinality(S) \in T
  <2>1. \A n \in Nat : n \in T => n + 1 \in T
    <3> HIDE DEF Part
    <3> QED
      BY <1>3
  <2> HIDE DEF T
  <2> QED
    BY <1>1, <1>2, <2>1, Induction
<1>5. UpTo(Cardinality(S)) = SUBSET S
  BY FS_Subset
<1> QED
  BY <1>4, <1>5 DEF Sums

(* Whichever block the choice takes first, the sum is the same.            *)
LEMMA SumAnyOrder ==
    ASSUME NEW t \in Txs, NEW S, S \subseteq ValueBlocks, IsFiniteSet(S), NEW f, Sums(f, t, S)
    PROVE  \A s \in SUBSET S :
              f[s] \in Nat /\ \A x \in s : f[s] = x.txs[t] + f[s \ {x}]
<1> DEFINE Free(s) == f[s] \in Nat /\ \A x \in s : f[s] = x.txs[t] + f[s \ {x}]
           T == {n \in Nat : \A s \in SUBSET S : Cardinality(s) <= n => Free(s)}
<1>0. \A s \in SUBSET S : Cardinality(s) \in Nat /\ (Cardinality(s) = 0 <=> s = {})
  BY FS_Subset, FS_CardinalityType, FS_EmptySet
<1>1. \A b \in S : b.txs[t] \in Nat
  BY DEF ValueBlocks
<1>2. 0 \in T
  <2>1. \A s \in SUBSET S : Cardinality(s) <= 0 => s = {}
    BY <1>0
  <2>2. f[{}] = 0
    BY SumOf
  <2>3. ASSUME NEW s \in SUBSET S, Cardinality(s) <= 0 PROVE Free(s)
    <3>1. s = {}
      BY <2>1, <2>3
    <3> QED
      BY <2>2, <3>1
  <2> HIDE DEF Free
  <2> QED
    BY <2>3
<1>3. ASSUME NEW n \in Nat, n \in T, NEW s \in SUBSET S, Cardinality(s) <= n + 1
      PROVE  Free(s)
  <2>0. CASE Cardinality(s) <= n
    BY <1>3, <2>0
  <2> SUFFICES ASSUME ~(Cardinality(s) <= n) PROVE Free(s)
    BY <2>0
  <2>1. s # {}
    BY <1>0
  <2>2. \A x \in s : s \ {x} \in SUBSET S /\ Cardinality(s \ {x}) <= n
    <3> SUFFICES ASSUME NEW x \in s PROVE Cardinality(s \ {x}) <= n
      OBVIOUS
    <3>1. /\ Cardinality(s) \in Nat /\ Cardinality(s \ {x}) \in Nat
          /\ Cardinality(s \ {x}) = Cardinality(s) - 1
      BY Smaller
    <3> QED
      BY <1>3, <3>1
  <2>3. \A x \in s : Free(s \ {x})
    BY <1>3, <2>2
  <2>4. PICK c \in s : f[s] = c.txs[t] + f[s \ {c}]
    <3>1. AnyOf(s) \in s /\ f[s] = AnyOf(s).txs[t] + f[s \ {AnyOf(s)}]
      BY <2>1, SumOf
    <3> QED
      BY <3>1
  <2>5. c.txs[t] \in Nat /\ f[s \ {c}] \in Nat
    BY <1>1, <2>3
  <2>6. ASSUME NEW x \in s, x # c PROVE f[s] = x.txs[t] + f[s \ {x}]
    <3>1. x \in s \ {c} /\ c \in s \ {x}
      BY <2>6
    <3>2. PICK r : r = f[s \ {c, x}]
      OBVIOUS
    <3>3. (s \ {c}) \ {x} = s \ {c, x} /\ (s \ {x}) \ {c} = s \ {c, x}
      OBVIOUS
    <3>4. f[s \ {c}] = x.txs[t] + r
      BY <2>3, <3>1, <3>2, <3>3
    <3>5. f[s \ {x}] = c.txs[t] + r
      BY <2>3, <3>1, <3>2, <3>3
    <3>6. r \in Nat
      <4>1. s \ {c} \in SUBSET S
        OBVIOUS
      <4>2. /\ Cardinality(s \ {c}) \in Nat /\ Cardinality((s \ {c}) \ {x}) \in Nat
            /\ Cardinality((s \ {c}) \ {x}) = Cardinality(s \ {c}) - 1
        BY <3>1, <4>1, Smaller
      <4>3. Cardinality(s \ {c, x}) <= n
        <5>1. Cardinality(s \ {c}) <= n
          BY <2>2
        <5>2. Cardinality((s \ {c}) \ {x}) <= n
          BY <4>2, <5>1
        <5> QED
          BY <3>3, <5>2
      <4>4. Free(s \ {c, x})
        BY <1>3, <4>3
      <4> QED
        BY <3>2, <4>4
    <3>7. PICK k \in Nat : k = x.txs[t]
      BY <1>1
    <3>8. PICK m \in Nat : m = c.txs[t]
      BY <1>1
    <3>9. m + (k + r) = k + (m + r)
      BY <3>6
    <3> QED
      BY <2>4, <3>4, <3>5, <3>7, <3>8, <3>9
  <2>7. f[s] \in Nat
    BY <2>4, <2>5
  <2> QED
    BY <2>4, <2>6, <2>7
<1>4. \A n \in Nat : n \in T => n + 1 \in T
  <2> HIDE DEF Free
  <2> QED
    BY <1>3
<1>5. \A n \in Nat : n \in T
  <2> HIDE DEF T
  <2> QED
    BY <1>2, <1>4, Induction
<1>6. \A s \in SUBSET S : Free(s)
  <2> HIDE DEF Free
  <2> QED
    BY <1>0, <1>5
<1> QED
  BY <1>6

(* The sum over a set is the same within a larger one.                     *)
LEMMA SumsAgree ==
    ASSUME NEW t, NEW B, IsFiniteSet(B), NEW A \in SUBSET B,
           NEW f, NEW g, Sums(f, t, A), Sums(g, t, B)
    PROVE  \A s \in SUBSET A : f[s] = g[s]
<1> DEFINE T == {n \in Nat : \A s \in SUBSET A : Cardinality(s) = n => f[s] = g[s]}
<1>0. IsFiniteSet(A)
  BY FS_Subset
<1>1. \A s \in SUBSET A : Cardinality(s) \in Nat /\ (Cardinality(s) = 0 <=> s = {})
  BY <1>0, FS_Subset, FS_CardinalityType, FS_EmptySet
<1>2. /\ f[{}] = 0
      /\ \A s \in SUBSET A : s # {} =>
            /\ AnyOf(s) \in s /\ s \ {AnyOf(s)} \in SUBSET A
            /\ f[s] = AnyOf(s).txs[t] + f[s \ {AnyOf(s)}]
  BY SumOf
<1>3. /\ g[{}] = 0
      /\ \A s \in SUBSET B : s # {} =>
            /\ AnyOf(s) \in s /\ s \ {AnyOf(s)} \in SUBSET B
            /\ g[s] = AnyOf(s).txs[t] + g[s \ {AnyOf(s)}]
  BY SumOf
<1>4. 0 \in T
  BY <1>1, <1>2, <1>3
<1>5. \A n \in Nat : n \in T => n + 1 \in T
  <2> SUFFICES ASSUME NEW n \in Nat, n \in T,
                      NEW s \in SUBSET A, Cardinality(s) = n + 1
               PROVE  f[s] = g[s]
    OBVIOUS
  <2>1. s # {} /\ s \in SUBSET B
    BY <1>1
  <2>2. AnyOf(s) \in s /\ s \ {AnyOf(s)} \in SUBSET A
    BY <1>2, <2>1
  <2>3. Cardinality(s \ {AnyOf(s)}) = n
    BY <1>0, <2>2, Smaller
  <2>4. f[s] = AnyOf(s).txs[t] + f[s \ {AnyOf(s)}]
    BY <1>2, <2>1
  <2>5. g[s] = AnyOf(s).txs[t] + g[s \ {AnyOf(s)}]
    BY <1>3, <2>1
  <2>6. f[s \ {AnyOf(s)}] = g[s \ {AnyOf(s)}]
    BY <2>2, <2>3
  <2> QED
    BY <2>4, <2>5, <2>6
<1>6. \A n \in Nat : n \in T
  <2> HIDE DEF T
  <2> QED
    BY <1>4, <1>5, Induction
<1> QED
  BY <1>1, <1>6

(* One block more brings its copies with it. *)
LEMMA CopiesAdd ==
    ASSUME NEW t \in Txs, NEW S, S \subseteq ValueBlocks, IsFiniteSet(S),
           NEW x \in ValueBlocks, x \notin S
    PROVE  CopiesIn(t, S) \in Nat /\ CopiesIn(t, S \cup {x}) = CopiesIn(t, S) + x.txs[t]
<1> DEFINE B == S \cup {x}
<1>1. IsFiniteSet(B) /\ B \subseteq ValueBlocks
  BY FS_AddElement
<1>2. PICK f : Sums(f, t, S) /\ f[S] = CopiesIn(t, S)
  <2>1. Sums(CHOOSE f : Sums(f, t, S), t, S)
    BY SumExists
  <2> QED
    BY <2>1, CopiesAreSums
<1>3. PICK g : Sums(g, t, B) /\ g[B] = CopiesIn(t, B)
  <2>1. Sums(CHOOSE g : Sums(g, t, B), t, B)
    BY <1>1, SumExists
  <2> QED
    BY <2>1, CopiesAreSums
<1>4. f[S] = g[S]
  BY <1>1, <1>2, <1>3, SumsAgree
<1>5. f[S] \in Nat
  BY <1>2, SumAnyOrder
<1>6. g[B] = x.txs[t] + g[B \ {x}]
  BY <1>1, <1>3, SumAnyOrder
<1>7. B \ {x} = S
  OBVIOUS
<1>8. x.txs[t] \in Nat
  BY DEF ValueBlocks
<1>9. PICK m \in Nat : m = f[S]
  BY <1>5
<1>10. CopiesIn(t, B) = x.txs[t] + m
  BY <1>3, <1>4, <1>6, <1>7, <1>9
<1>11. CopiesIn(t, S) = m
  BY <1>2, <1>9
<1>12. CopiesIn(t, B) = m + x.txs[t]
  BY <1>8, <1>10
<1> QED
  BY <1>11, <1>12

CopiesFit(t) == CopiesIn(t, OwnBlocks) + pool[t] + hands[t] <= delivered[t]

(* The pool and the producer's hands get a copy only when one is added, or *)
(* from each other: a block that is stored takes them out of the hands.    *)
LEMMA CopiesMove ==
    ASSUME Typed, [Next]_vars, NEW t \in Txs
    PROVE  pool'[t] + hands'[t] + delivered[t] <= pool[t] + hands[t] + delivered'[t]
<1> USE DEF Typed, TypeOK
<1>0. /\ pool[t] \in Nat /\ hands[t] \in Nat /\ delivered[t] \in Nat
      /\ Empty[t] = 0 /\ Empty \in [Txs -> Nat]
  BY DEF Empty
<1>1. CASE UNCHANGED <<pool, hands, delivered>>
  BY <1>0, <1>1
<1>2. ASSUME NEW u \in Txs, AddTransaction(u), UNCHANGED hands
      PROVE  pool'[t] + hands'[t] + delivered[t] <= pool[t] + hands[t] + delivered'[t]
  <2>1. CASE t = u
    <3>1. pool'[t] = pool[t] + 1 /\ delivered'[t] = delivered[t] + 1
      BY <1>2, <2>1 DEF AddTransaction
    <3> QED
      BY <1>0, <1>2, <3>1
  <2>2. CASE t # u
    <3>1. pool'[t] = pool[t] /\ delivered'[t] = delivered[t]
      BY <1>2, <2>2 DEF AddTransaction
    <3> QED
      BY <1>0, <1>2, <3>1
  <2> QED
    BY <2>1, <2>2
<1>3. CASE Gather
  <2>1. hands'[t] = pool[t] /\ pool'[t] = 0 /\ delivered' = delivered
    BY <1>0, <1>3 DEF Gather
  <2> QED
    BY <1>0, <2>1
<1>4. CASE StoreOwn
  <2>1. hands'[t] = 0 /\ pool' = pool /\ delivered' = delivered
    BY <1>0, <1>4 DEF StoreOwn
  <2> QED
    BY <1>0, <2>1
<1>5. CASE Purge
  <2>1. pool'[t] \in {0, pool[t]} /\ hands' = hands /\ delivered' = delivered
    BY <1>5 DEF Purge, PurgePool, producerVars
  <2> QED
    BY <1>0, <2>1
<1>6. CASE Producer
  BY <1>1, <1>2, <1>3, <1>4, <1>6
  DEF Producer, Generate, NothingToGenerate, Draw, Link, ReadTime, Reference, Txs
<1>7. CASE Network
  BY <1>1, <1>2, <1>5, <1>7
  DEF Network, Deliver, CheckReference, CheckBlock, StoreReceived, producerVars, Txs
<1>8. CASE Crash
  <2>1. pool'[t] = 0 /\ hands'[t] = 0 /\ delivered' = delivered
    BY <1>0, <1>8 DEF Crash
  <2> QED
    BY <1>0, <2>1
<1>9. CASE Restart \/ \E found \in TimeBlocks \cup {NoBlock} : TimeChainMoves(found)
  BY <1>1, <1>9 DEF Restart, TimeChainMoves, producerVars
<1>10. CASE UNCHANGED vars
  BY <1>1, <1>10 DEF vars, producerVars
<1> QED
  BY <1>6, <1>7, <1>8, <1>9, <1>10 DEF Next

LEMMA OwnBlocksStep ==
    ASSUME Typed, [Next]_vars
    PROVE  \/ OwnBlocks' = OwnBlocks
           \/ /\ OwnBlocks' = OwnBlocks \cup {block}
              /\ block \in ValueBlocks /\ block.txs = hands
              /\ HandsOver
<1>1. CASE Quiet
  BY <1>1 DEF Quiet, storeVars, OwnBlocks
<1>2. ASSUME NEW b \in ValueBlocks, Stores(b), b.hash \notin Nat
      PROVE  OwnBlocks' = OwnBlocks
  BY <1>2 DEF Stores, StoreEffect, OwnBlocks
<1>3. ASSUME NEW b \in ValueBlocks, Stores(b), b.hash \in Nat
      PROVE  /\ OwnBlocks' = OwnBlocks \/ OwnBlocks' = OwnBlocks \cup {block}
             /\ block \in ValueBlocks /\ block.txs = hands
             /\ HandsOver
  <2>1. pc = "store" /\ b = block /\ HandsOver
    BY <1>3 DEF Stores
  <2>2. block \in ValueBlocks /\ block.txs = hands
    BY <2>1 DEF Typed, Held
  <2>3. present' \in {present, present \cup {block}}
    BY <1>3, <2>1 DEF Stores, StoreEffect
  <2> QED
    BY <1>3, <2>1, <2>2, <2>3 DEF OwnBlocks
<1> QED
  BY <1>1, <1>2, <1>3, StepStores

LEMMA FiniteStep ==
    ASSUME Typed, IsFiniteSet(present), [Next]_vars
    PROVE  IsFiniteSet(present')
<1>1. CASE Quiet
  BY <1>1 DEF Quiet, storeVars
<1>2. CASE \E b \in ValueBlocks : Stores(b)
  <2>1. PICK b : present' \in {present, present \cup {b}}
    BY <1>2 DEF Stores, StoreEffect
  <2> QED
    BY <2>1, FS_AddElement
<1> QED
  BY <1>1, <1>2, StepStores

LEMMA OwnFinite ==
    ASSUME Typed, IsFiniteSet(present)
    PROVE  OwnBlocks \subseteq ValueBlocks /\ IsFiniteSet(OwnBlocks)
<1>1. OwnBlocks \in SUBSET present
  BY DEF OwnBlocks
<1> QED
  BY <1>1, FS_Subset DEF Typed, TypeOK, Store!StoreTypeOK

LEMMA CopiesStep ==
    ASSUME Typed, IsFiniteSet(present), NEW t \in Txs, CopiesFit(t), [Next]_vars
    PROVE  CopiesFit(t)'
<1>1. OwnBlocks \subseteq ValueBlocks /\ IsFiniteSet(OwnBlocks)
  BY OwnFinite
<1>2. PICK n \in Nat : n = CopiesIn(t, OwnBlocks)
  <2>1. \E x : x \in ValueBlocks /\ x \notin OwnBlocks
    BY GenesisIsForeign DEF OwnBlocks
  <2> QED
    BY <1>1, <2>1, CopiesAdd
<1>3. /\ pool[t] \in Nat /\ hands[t] \in Nat /\ delivered[t] \in Nat
      /\ pool'[t] \in Nat /\ hands'[t] \in Nat /\ delivered'[t] \in Nat
  BY TypedStep DEF Typed, TypeOK
<1>4. n + pool[t] + hands[t] <= delivered[t]
  BY <1>2 DEF CopiesFit
<1>5. CASE OwnBlocks' = OwnBlocks
  <2>1. pool'[t] + hands'[t] + delivered[t] <= pool[t] + hands[t] + delivered'[t]
    BY CopiesMove
  <2>2. n + pool'[t] + hands'[t] <= delivered'[t]
    BY <1>3, <1>4, <2>1
  <2>3. CopiesIn(t, OwnBlocks') = n
    BY <1>2, <1>5
  <2> QED
    BY <2>2, <2>3 DEF CopiesFit
<1>6. CASE /\ OwnBlocks' = OwnBlocks \cup {block} /\ block \notin OwnBlocks
           /\ block \in ValueBlocks /\ block.txs = hands
           /\ HandsOver
  <2>1. CopiesIn(t, OwnBlocks \cup {block}) = n + hands[t]
    BY <1>1, <1>2, <1>6, CopiesAdd
  <2>2. pool'[t] \in {pool[t], 0} /\ hands'[t] = 0 /\ delivered'[t] = delivered[t]
    BY <1>6 DEF HandsOver, Empty
  <2>3. (n + hands[t]) + pool'[t] + hands'[t] <= delivered'[t]
    BY <1>3, <1>4, <2>2
  <2>4. CopiesIn(t, OwnBlocks') = n + hands[t]
    BY <1>6, <2>1
  <2> QED
    BY <2>3, <2>4 DEF CopiesFit
<1> QED
  BY <1>5, <1>6, OwnBlocksStep

(* The node never spends one arrival of a transaction twice, for any       *)
(* number of blocks, transactions and deliveries, whatever fails: the sum  *)
(* grows by what the producer's hands lose, and Gather takes the pool and  *)
(* clears it in one step (gather_transactions, store_block).               *)
THEOREM CopiesNeverExceed == Spec => []CopiesWereDelivered
<1> DEFINE Fits == \A t \in Txs : CopiesFit(t)
           Inv == IsFiniteSet(present) /\ Fits
<1>1. Init => IsFiniteSet(present)
  BY FS_Singleton DEF Init
<1>2. ASSUME Init, NEW t \in Txs PROVE CopiesFit(t)
  <2>1. OwnBlocks = {}
    BY <1>2, GenesisIsForeign DEF Init, OwnBlocks
  <2>2. PICK f : Sums(f, t, {}) /\ f[{}] = CopiesIn(t, {})
    <3>1. Sums(CHOOSE f : Sums(f, t, {}), t, {})
      BY SumExists, FS_EmptySet
    <3> QED
      BY <3>1, CopiesAreSums
  <2>3. CopiesIn(t, {}) = 0
    BY <2>2, SumOf
  <2>4. pool[t] = 0 /\ hands[t] = 0 /\ delivered[t] = 0
    BY <1>2 DEF Init, IdleProducer, Empty
  <2> QED
    BY <2>1, <2>3, <2>4 DEF CopiesFit
<1>3. Typed /\ Inv /\ [Next]_vars => Inv'
  BY FiniteStep, CopiesStep
<1>4. Fits => CopiesWereDelivered
  BY DEF CopiesFit, CopiesIn, CopiesWereDelivered
<1>5. Init => Inv
  BY <1>1, <1>2
<1> HIDE DEF Fits
<1> QED
  BY <1>3, <1>4, <1>5, TypedHolds, PTL DEF Spec
=============================================================================

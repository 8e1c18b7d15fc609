--------------------- MODULE TimeChainConsensus_proofs ---------------------
(***************************************************************************)
(* Proofs about TimeChainConsensus, for every set of keys and of blocks    *)
(* that peers send and every value of the bounds: its type invariant, the  *)
(* two invariants of the blocks a node produces, and the two properties of *)
(* the steps that change the latest block.                                 *)
(***************************************************************************)
EXTENDS TimeChainConsensus, TLAPS

LEMMA GenesisIsBlock == Genesis \in TimeBlocks
  BY BoundAssumption DEF Genesis, TimeBlocks, Hashes, AllKeys

LEMMA HashIsHash == \A b \in TimeBlocks : Hash(b) \in Hashes /\ Hash(b) # ZeroHash
  BY SentinelAssumption DEF TimeBlocks, Hash, Hashes

(* All that the proofs need to know of a store, whatever its outcome: the  *)
(* only block it can add is its own, that block can become the latest one, *)
(* and if nothing has ever gone wrong it does.                             *)
StoreEffect(b) ==
    /\ present \subseteq present'
    /\ present' \subseteq present \cup {b}
    /\ whole' \subseteq present'
    /\ latest' \in {latest, NoBlock, b}
    /\ latest' # latest => latest' = NoBlock \/ latest' \in present'
    /\ faults' \in Nat /\ faults' >= faults
    /\ faults' = 0 => latest' = b /\ b \in present'

LEMMA StoreHasEffect ==
    ASSUME Store!StoreTypeOK, faults \in Nat, NEW b \in TimeBlocks,
           StoreBlock(b)
    PROVE  StoreEffect(b)
<1> USE BoundAssumption DEF Store!StoreTypeOK, StoreEffect
<1>1. CASE Store!Put(b) /\ UNCHANGED faults
  BY <1>1 DEF Store!Put
<1>2. CASE Store!PutLost(b) /\ Fault
  BY <1>2 DEF Store!PutLost, Fault
<1>3. CASE Store!PutCut(b) /\ Fault
  <2>1. CASE UNCHANGED storeVars
    BY <1>3, <2>1 DEF Fault, storeVars
  <2>2. CASE /\ present' = present \cup {b}
             /\ whole' \in {whole \ {b}, whole \cup {b}}
             /\ latest' \in {latest, NoBlock}
    BY <1>3, <2>2 DEF Fault
  <2> QED
    BY <1>3, <2>1, <2>2 DEF Store!PutCut, Store!storeVars, storeVars
<1> QED
  BY <1>1, <1>2, <1>3 DEF StoreBlock, StoreAnswersTrue, StoreSucceeds, StoreAnswersFalse

LEMMA EffectKeepsType ==
    ASSUME Store!StoreTypeOK, NEW b \in TimeBlocks, StoreEffect(b)
    PROVE  Store!StoreTypeOK' /\ faults' \in Nat
  BY DEF Store!StoreTypeOK, StoreEffect

(* A failed store, as a start or a crash may have it. *)
LEMMA FailureIsStore ==
    \A b : StoreAnswersFalse(b) \/ StoreAnswersTrue(b) => StoreBlock(b)
  BY DEF StoreBlock

(* Every variable has its type, and the thread runs when the process does. *)
THEOREM Typing == Spec => []TypeOK
<1>1. Init => TypeOK
  BY DEF Init, TypeOK, ProducerTypeOK, Store!StoreInit, Store!StoreTypeOK, Hashes,
         Stages, Running
<1>2. TypeOK /\ [Next]_vars => TypeOK'
  <2> SUFFICES ASSUME TypeOK, [Next]_vars
               PROVE  TypeOK'
    OBVIOUS
  <2> USE DEF TypeOK, ProducerTypeOK, Stages, Running
  <2>1. ASSUME NEW k \in Keys, Start(k)
        PROVE  TypeOK'
    <3>1. k # NoKey
      BY KeyAssumption DEF AllKeys
    <3>2. Store!StoreTypeOK' /\ faults' \in Nat
      <4>1. CASE UNCHANGED <<storeVars, faults>>
        BY <4>1 DEF storeVars, Store!StoreTypeOK
      <4>2. CASE StoreBlock(Genesis)
        BY <4>2, GenesisIsBlock, StoreHasEffect, EffectKeepsType
      <4> QED
        BY <2>1, <4>1, <4>2, FailureIsStore DEF Start, Initialize
    <3> QED
      BY <2>1, <3>1, <3>2 DEF Start
  <2>2. ASSUME Crash
        PROVE  TypeOK'
    <3>1. Store!StoreTypeOK' /\ faults' \in Nat
      <4>1. CASE UNCHANGED <<storeVars, faults>>
        BY <4>1 DEF storeVars, Store!StoreTypeOK
      <4>2. ASSUME NEW b \in TimeBlocks, StoreAnswersFalse(b)
            PROVE  Store!StoreTypeOK' /\ faults' \in Nat
        BY <4>2, FailureIsStore, StoreHasEffect, EffectKeepsType
      <4> QED
        BY <2>2, <4>1, <4>2, PeerAssumption DEF Crash
    <3> QED
      BY <2>2, <3>1 DEF Crash, Hashes
  <2>3. ASSUME Reboot \/ Tick
        PROVE  TypeOK'
    BY <2>3, BoundAssumption
    DEF Reboot, Tick, storeVars, producerVars, Store!StoreTypeOK
  <2>4. ASSUME NEW eligible \in BOOLEAN, Draw(eligible)
        PROVE  TypeOK'
    BY <2>4 DEF Draw, storeVars, Store!StoreTypeOK
  <2>5. ASSUME ReadLatest
        PROVE  TypeOK'
    BY <2>5, HashIsHash
    DEF ReadLatest, PreviousHash, Hashes, storeVars, Store!StoreTypeOK
  <2>6. ASSUME Stamp
        PROVE  TypeOK'
    <3>1. block' \in TimeBlocks
      BY <2>6 DEF Stamp, TimeBlocks, AllKeys
    <3> QED
      BY <2>6, <3>1, SentinelAssumption DEF Stamp, storeVars, Store!StoreTypeOK
  <2>7. ASSUME StoreOwn
        PROVE  TypeOK'
    <3>1. block \in TimeBlocks /\ StoreBlock(block)
      BY <2>7 DEF StoreOwn
    <3>2. Store!StoreTypeOK' /\ faults' \in Nat
      BY <3>1, StoreHasEffect, EffectKeepsType
    <3> QED
      BY <2>7, <3>2 DEF StoreOwn, Hashes
  <2>8. ASSUME Wake
        PROVE  TypeOK'
    BY <2>8 DEF Wake, storeVars, Store!StoreTypeOK
  <2>9. ASSUME NEW b \in PeerBlocks, ValidateBlock(b)
        PROVE  TypeOK'
    BY <2>9 DEF ValidateBlock, storeVars, producerVars, Store!StoreTypeOK
  <2>10. ASSUME StoreReceived
         PROVE  TypeOK'
    <3>1. checked \in TimeBlocks /\ StoreBlock(checked)
      BY <2>10, PeerAssumption DEF StoreReceived
    <3>2. Store!StoreTypeOK' /\ faults' \in Nat
      BY <3>1, StoreHasEffect, EffectKeepsType
    <3> QED
      BY <2>10, <3>2 DEF StoreReceived, producerVars
  <2>11. CASE UNCHANGED vars
    BY <2>11 DEF vars, storeVars, producerVars, Store!StoreTypeOK
  <2> QED
    BY <2>1, <2>2, <2>3, <2>4, <2>5, <2>6, <2>7, <2>8, <2>9, <2>10, <2>11 DEF Next
<1> QED
  BY <1>1, <1>2, PTL DEF Spec

-----------------------------------------------------------------------------
(* Links.  A hash is fit to be linked to when its block has a file, and    *)
(* the zero hash once something has gone wrong.  The producer only ever    *)
(* carries such hashes, because what get_latest_block answered with has a  *)
(* file, and without faults there always is an answer.                     *)
Linked(hash) == HasFile(hash) \/ (hash = ZeroHash /\ faults > 0)

LatestPresent == latest # NoBlock => latest \in present

LatestFound == Running /\ faults = 0 => latest # NoBlock

ProducerLinked ==
    /\ pc = "stamp" => Linked(prev)
    /\ pc = "store" => Linked(block.prev) /\ block.key = own

LinkInv ==
    /\ LatestPresent
    /\ LatestFound
    /\ ProducerLinked
    /\ OwnBlocksLinked

LEMMA LinkedStays ==
    ASSUME faults \in Nat, faults' \in Nat, faults' >= faults,
           present \subseteq present', NEW hash, Linked(hash)
    PROVE  (\E b \in present' : Hash(b) = hash) \/ (hash = ZeroHash /\ faults' > 0)
  BY DEF Linked, HasFile, Hash

(* What a store does to links: nothing, if an own block is linked already. *)
LEMMA StoreKeepsLinks ==
    ASSUME faults \in Nat, NEW c \in TimeBlocks, StoreEffect(c),
           LatestPresent, OwnBlocksLinked,
           c.key \in Keys => Linked(c.prev)
    PROVE  LatestPresent' /\ OwnBlocksLinked'
<1>1. LatestPresent'
  BY DEF StoreEffect, LatestPresent
<1>2. ASSUME NEW b \in OwnBlocks'
      PROVE  (\E d \in present' : Hash(d) = b.prev) \/ (b.prev = ZeroHash /\ faults' > 0)
  <2>1. Linked(b.prev)
    BY <1>2 DEF StoreEffect, OwnBlocks, OwnBlocksLinked, Linked, HasFile
  <2> QED
    BY <2>1, LinkedStays DEF StoreEffect
<1> QED
  BY <1>1, <1>2 DEF OwnBlocksLinked, HasFile, Hash

LEMMA ProducerLinksStay ==
    ASSUME faults \in Nat, faults' \in Nat, faults' >= faults,
           present \subseteq present', ProducerLinked,
           UNCHANGED <<pc, prev, block, own>>
    PROVE  ProducerLinked'
<1>1. pc' = "stamp" => Linked(prev)'
  <2> SUFFICES ASSUME pc' = "stamp" PROVE Linked(prev)'
    OBVIOUS
  <2>1. Linked(prev)
    BY DEF ProducerLinked
  <2> QED
    BY <2>1, LinkedStays DEF Linked, HasFile, Hash
<1>2. pc' = "store" => Linked(block.prev)' /\ block'.key = own'
  <2> SUFFICES ASSUME pc' = "store" PROVE Linked(block.prev)' /\ block'.key = own'
    OBVIOUS
  <2>1. Linked(block.prev) /\ block.key = own
    BY DEF ProducerLinked
  <2> QED
    BY <2>1, LinkedStays DEF Linked, HasFile, Hash
<1> QED
  BY <1>1, <1>2 DEF ProducerLinked

LEMMA ForeignOrGenesisNotOwn ==
    \A b \in PeerBlocks \cup {Genesis} : b.key \notin Keys
  BY PeerAssumption, KeyAssumption DEF Genesis

LEMMA NextLinkInv ==
    ASSUME TypeOK, LinkInv, [Next]_vars
    PROVE  LinkInv'
<1> USE DEF TypeOK, ProducerTypeOK, LinkInv, Running
<1>1. ASSUME NEW k \in Keys, Start(k)
      PROVE  LinkInv'
  <2>1. pc' # "stamp" /\ pc' # "store"
    BY <1>1 DEF Start
  <2>2. CASE UNCHANGED <<storeVars, faults>> /\ latest # NoBlock
    BY <1>1, <2>1, <2>2
    DEF storeVars, LatestPresent, LatestFound, ProducerLinked, OwnBlocksLinked, OwnBlocks,
        HasFile
  <2>3. CASE StoreBlock(Genesis) /\ (own' = NoKey \/ StoreAnswersTrue(Genesis))
    <3>1. StoreEffect(Genesis)
      BY <2>3, GenesisIsBlock, StoreHasEffect
    <3>2. LatestPresent' /\ OwnBlocksLinked'
      BY <3>1, GenesisIsBlock, ForeignOrGenesisNotOwn, StoreKeepsLinks
    <3>3. LatestFound'
      BY <3>1, GenesisIsBlock, SentinelAssumption DEF StoreEffect, LatestFound
    <3> QED
      BY <2>1, <3>2, <3>3 DEF ProducerLinked
  <2>4. CASE latest # NoBlock /\ ~(UNCHANGED <<storeVars, faults>>)
    BY <1>1, <2>4 DEF Start, Initialize
  <2> QED
    BY <1>1, <2>2, <2>3, <2>4, FailureIsStore DEF Start, Initialize
<1>2. ASSUME Crash
      PROVE  LinkInv'
  <2>1. own' = NoKey /\ pc' = "down"
    BY <1>2 DEF Crash
  <2>2. LatestPresent' /\ OwnBlocksLinked'
    <3>1. CASE UNCHANGED <<storeVars, faults>>
      BY <3>1 DEF storeVars, LatestPresent, OwnBlocksLinked, OwnBlocks, HasFile
    <3>2. CASE pc = "store" /\ StoreAnswersFalse(block)
      BY <3>2, FailureIsStore, StoreHasEffect, StoreKeepsLinks DEF ProducerLinked
    <3>3. CASE checked # NoBlock /\ StoreAnswersFalse(checked)
      BY <3>3, FailureIsStore, StoreHasEffect, StoreKeepsLinks, PeerAssumption,
         ForeignOrGenesisNotOwn
    <3> QED
      BY <1>2, <3>1, <3>2, <3>3 DEF Crash
  <2> QED
    BY <2>1, <2>2 DEF LatestFound, ProducerLinked
<1>3. ASSUME UNCHANGED <<storeVars, own, faults>>
      PROVE  LatestPresent' /\ LatestFound' /\ OwnBlocksLinked'
  BY <1>3 DEF storeVars, LatestPresent, LatestFound, OwnBlocksLinked, OwnBlocks, HasFile
<1>4. ASSUME \/ Reboot \/ Tick \/ (\E b \in PeerBlocks : ValidateBlock(b))
             \/ UNCHANGED vars
      PROVE  LinkInv'
  <2>1. UNCHANGED <<storeVars, own, faults, pc, prev, block>>
    BY <1>4 DEF Reboot, Tick, ValidateBlock, vars, producerVars
  <2>2. ProducerLinked'
    BY <2>1, ProducerLinksStay DEF storeVars
  <2> QED
    BY <1>3, <2>1, <2>2
<1>5. ASSUME (\E eligible \in BOOLEAN : Draw(eligible)) \/ Wake
      PROVE  LinkInv'
  <2>1. pc' # "stamp" /\ pc' # "store" /\ UNCHANGED <<storeVars, own, faults>>
    BY <1>5 DEF Draw, Wake
  <2> QED
    BY <1>3, <2>1 DEF ProducerLinked
<1>6. ASSUME ReadLatest
      PROVE  LinkInv'
  <2>1. pc' = "stamp" /\ UNCHANGED <<storeVars, own, faults>>
    BY <1>6 DEF ReadLatest
  <2>2. Linked(PreviousHash(latest))
    BY <1>6 DEF ReadLatest, PreviousHash, Linked, HasFile, LatestPresent, LatestFound
  <2>3. prev' = PreviousHash(latest)
    BY <1>6 DEF ReadLatest
  <2>4. Linked(prev)'
    BY <2>1, <2>2, <2>3 DEF Linked, HasFile, Hash, storeVars
  <2> QED
    BY <1>3, <2>1, <2>4 DEF ProducerLinked
<1>7. ASSUME Stamp
      PROVE  LinkInv'
  <2>1. /\ pc' = "store" /\ UNCHANGED <<storeVars, own, faults>>
        /\ block'.prev = prev /\ block'.key = own'
    BY <1>7 DEF Stamp
  <2>2. Linked(prev)
    BY <1>7 DEF Stamp, ProducerLinked
  <2>3. Linked(block.prev)'
    BY <2>1, <2>2 DEF Linked, HasFile, Hash, storeVars
  <2> QED
    BY <1>3, <2>1, <2>3 DEF ProducerLinked
<1>8. ASSUME StoreOwn
      PROVE  LinkInv'
  <2>1. StoreEffect(block)
    BY <1>8, StoreHasEffect DEF StoreOwn
  <2>2. LatestPresent' /\ OwnBlocksLinked'
    BY <1>8, <2>1, StoreKeepsLinks DEF StoreOwn, ProducerLinked
  <2>3. LatestFound'
    BY <1>8, <2>1 DEF StoreOwn, StoreEffect, LatestFound
  <2> QED
    BY <1>8, <2>2, <2>3 DEF StoreOwn, ProducerLinked
<1>9. ASSUME StoreReceived
      PROVE  LinkInv'
  <2>1. StoreEffect(checked) /\ checked \in TimeBlocks
    BY <1>9, StoreHasEffect, PeerAssumption DEF StoreReceived
  <2>2. LatestPresent' /\ OwnBlocksLinked'
    BY <1>9, <2>1, StoreKeepsLinks, ForeignOrGenesisNotOwn DEF StoreReceived
  <2>3. LatestFound'
    BY <1>9, <2>1, SentinelAssumption DEF StoreReceived, StoreEffect, LatestFound
  <2>4. ProducerLinked'
    BY <1>9, <2>1, ProducerLinksStay DEF StoreReceived, producerVars, StoreEffect
  <2> QED
    BY <2>2, <2>3, <2>4
<1> QED
  BY <1>1, <1>2, <1>4, <1>5, <1>6, <1>7, <1>8, <1>9 DEF Next

LEMMA LinkInvariance == Spec => []LinkInv
<1>1. Init => LinkInv
  BY KeyAssumption
  DEF Init, LinkInv, LatestPresent, LatestFound, ProducerLinked, OwnBlocksLinked,
      OwnBlocks, Running, Store!StoreInit
<1> QED
  BY <1>1, NextLinkInv, Typing, PTL DEF Spec

(* Every block the node produced hangs on a block it has a file of, unless *)
(* a store went wrong.                                                     *)
THEOREM Linking == Spec => []OwnBlocksLinked
<1>1. LinkInv => OwnBlocksLinked
  BY DEF LinkInv
<1> QED
  BY <1>1, LinkInvariance, PTL

-----------------------------------------------------------------------------
(* Time.  What the producer waits for and when it reads the clock make the *)
(* blocks of a key increase: the blocks of the running process that are    *)
(* stored are earlier than the next one, which is what the pause is for,   *)
(* and a key that is drawn again would spoil it.                           *)
AfterPrevious(b) == \A t \in Nat : b.prev = <<b.key, t>> => t < b.time

OwnBefore(t) == \A b \in OwnBlocks : b.key = own => b.time < t

ProducerInTime ==
    /\ pc \in {"draw", "read", "stamp"} => OwnBefore(clock)
    /\ pc = "stamp" => \A t \in Nat : prev = <<own, t>> => t < clock
    /\ pc = "store" => /\ OwnBefore(block.time)
                       /\ block.time <= clock
                       /\ AfterPrevious(block)
    /\ pc = "sleep" => slept <= clock /\ OwnBefore(slept + 1)

TimeInv ==
    /\ Running => own \in used
    /\ \A b \in OwnBlocks : b.key \in used /\ AfterPrevious(b)
    /\ ProducerInTime

LEMMA OwnBlocksAfterStore ==
    ASSUME NEW c \in TimeBlocks, StoreEffect(c)
    PROVE  /\ OwnBlocks' \subseteq OwnBlocks \cup {c}
           /\ c.key \notin Keys => OwnBlocks' = OwnBlocks
  BY DEF StoreEffect, OwnBlocks

LEMMA OwnBlocksUnchanged ==
    ASSUME UNCHANGED storeVars
    PROVE  OwnBlocks' = OwnBlocks
  BY DEF OwnBlocks, storeVars

LEMMA OwnBlockTimes == TypeOK => \A b \in OwnBlocks : b.time \in Nat
  BY DEF TypeOK, Store!StoreTypeOK, OwnBlocks, TimeBlocks

LEMMA NextTimeInv ==
    ASSUME TypeOK, LinkInv, TimeInv, [Next]_vars
    PROVE  TimeInv'
<1> USE DEF TypeOK, ProducerTypeOK, TimeInv, Running, AfterPrevious
<1>1. ASSUME NEW k \in Keys, Start(k)
      PROVE  TimeInv'
  <2>1. OwnBlocks' = OwnBlocks
    BY <1>1, FailureIsStore, GenesisIsBlock, StoreHasEffect, OwnBlocksAfterStore,
       OwnBlocksUnchanged, ForeignOrGenesisNotOwn
    DEF Start, Initialize, storeVars
  <2>2. used' = used \cup {k} /\ own' \in {k, NoKey} /\ k \notin used
    BY <1>1 DEF Start
  <2>3. pc' \in {"draw", "down"} /\ (pc' = "draw" => own' = k)
    BY <1>1 DEF Start
  <2>4. pc' = "draw" => OwnBefore(clock)'
    BY <2>1, <2>2, <2>3 DEF OwnBefore
  <2> QED
    BY <2>1, <2>2, <2>3, <2>4 DEF ProducerInTime
<1>2. ASSUME Crash
      PROVE  TimeInv'
  <2>1. /\ own' = NoKey /\ pc' = "down" /\ used' = used
    BY <1>2 DEF Crash
  <2>2. \A b \in OwnBlocks' : b.key \in used /\ AfterPrevious(b)
    <3>1. CASE UNCHANGED <<storeVars, faults>>
      BY <3>1, OwnBlocksUnchanged
    <3>2. CASE pc = "store" /\ StoreAnswersFalse(block)
      BY <3>2, FailureIsStore, StoreHasEffect, OwnBlocksAfterStore
      DEF ProducerInTime, LinkInv, ProducerLinked
    <3>3. CASE checked # NoBlock /\ StoreAnswersFalse(checked)
      BY <3>3, FailureIsStore, StoreHasEffect, OwnBlocksAfterStore, PeerAssumption,
         ForeignOrGenesisNotOwn
    <3> QED
      BY <1>2, <3>1, <3>2, <3>3 DEF Crash
  <2> QED
    BY <2>1, <2>2 DEF ProducerInTime
<1>3. ASSUME Reboot
      PROVE  TimeInv'
  BY <1>3, OwnBlocksUnchanged DEF Reboot, ProducerInTime, producerVars
<1>4. ASSUME Tick
      PROVE  TimeInv'
  <2>1. /\ OwnBlocks' = OwnBlocks /\ clock' = clock + 1
        /\ UNCHANGED <<own, used, pc, prev, block, slept>>
    BY <1>4, OwnBlocksUnchanged DEF Tick, producerVars
  <2>2. OwnBefore(clock) => OwnBefore(clock)'
    BY <2>1, OwnBlockTimes DEF OwnBefore
  <2>3. OwnBefore(slept + 1) => OwnBefore(slept + 1)'
    BY <2>1 DEF OwnBefore
  <2>4. pc = "store" => OwnBefore(block.time)' /\ block'.time <= clock'
    BY <2>1 DEF OwnBefore, ProducerInTime, TimeBlocks
  <2> QED
    BY <2>1, <2>2, <2>3, <2>4 DEF ProducerInTime
<1>5. ASSUME NEW eligible \in BOOLEAN, Draw(eligible)
      PROVE  TimeInv'
  <2>1. /\ OwnBlocks' = OwnBlocks
        /\ UNCHANGED <<clock, own, used>>
        /\ pc = "draw"
        /\ pc' = "read" \/ (pc' = "sleep" /\ slept' = clock)
    BY <1>5, OwnBlocksUnchanged DEF Draw
  <2>2. OwnBefore(clock)'
    BY <2>1 DEF OwnBefore, ProducerInTime
  <2>3. pc' = "sleep" => OwnBefore(slept + 1)'
    BY <2>1, OwnBlockTimes DEF OwnBefore, ProducerInTime
  <2> QED
    BY <2>1, <2>2, <2>3 DEF ProducerInTime
<1>6. ASSUME ReadLatest
      PROVE  TimeInv'
  <2>1. /\ OwnBlocks' = OwnBlocks
        /\ UNCHANGED <<clock, own, used>>
        /\ pc = "read" /\ pc' = "stamp" /\ prev' = PreviousHash(latest)
    BY <1>6, OwnBlocksUnchanged DEF ReadLatest
  <2>2. OwnBefore(clock) /\ OwnBefore(clock)'
    BY <2>1 DEF OwnBefore, ProducerInTime
  <2>3. ASSUME NEW t \in Nat, PreviousHash(latest) = <<own, t>>
        PROVE  t < clock
    <3>1. own \in Keys
      BY <2>1
    <3>2. latest # NoBlock
      BY <2>3, <3>1, SentinelAssumption DEF PreviousHash, AllKeys
    <3>3. latest.key = own /\ latest.time = t
      BY <2>3, <3>2 DEF PreviousHash, Hash
    <3>4. latest \in OwnBlocks
      BY <3>1, <3>2, <3>3 DEF OwnBlocks, LinkInv, LatestPresent
    <3> QED
      BY <2>2, <3>3, <3>4 DEF OwnBefore
  <2> QED
    BY <2>1, <2>2, <2>3 DEF ProducerInTime
<1>7. ASSUME Stamp
      PROVE  TimeInv'
  <2>1. /\ OwnBlocks' = OwnBlocks
        /\ UNCHANGED <<clock, own, used>>
        /\ pc = "stamp" /\ pc' = "store"
        /\ block' = [prev |-> prev, time |-> clock, key |-> own]
    BY <1>7, OwnBlocksUnchanged DEF Stamp
  <2>2. OwnBefore(block.time)'
    BY <2>1 DEF OwnBefore, ProducerInTime
  <2>3. AfterPrevious(block')
    BY <2>1 DEF ProducerInTime
  <2> QED
    BY <2>1, <2>2, <2>3 DEF ProducerInTime
<1>8. ASSUME StoreOwn
      PROVE  TimeInv'
  <2>1. /\ UNCHANGED <<clock, own, used>>
        /\ pc = "store" /\ pc' = "sleep" /\ slept' = clock
        /\ OwnBlocks' \subseteq OwnBlocks \cup {block}
        /\ block \in TimeBlocks /\ block.key = own
    BY <1>8, StoreHasEffect, OwnBlocksAfterStore DEF StoreOwn, LinkInv, ProducerLinked
  <2>2. OwnBefore(slept + 1)'
    BY <2>1, OwnBlockTimes DEF OwnBefore, ProducerInTime, TimeBlocks
  <2>3. \A b \in OwnBlocks' : b.key \in used' /\ AfterPrevious(b)
    BY <2>1 DEF ProducerInTime
  <2> QED
    BY <2>1, <2>2, <2>3 DEF ProducerInTime
<1>9. ASSUME Wake
      PROVE  TimeInv'
  <2>1. /\ OwnBlocks' = OwnBlocks
        /\ UNCHANGED <<clock, own, used>>
        /\ pc = "sleep" /\ clock > slept /\ pc' = "draw"
    BY <1>9, OwnBlocksUnchanged DEF Wake, Slept
  <2>2. OwnBefore(clock)'
    BY <2>1, OwnBlockTimes DEF OwnBefore, ProducerInTime
  <2> QED
    BY <2>1, <2>2 DEF ProducerInTime
<1>10. ASSUME (\E b \in PeerBlocks : ValidateBlock(b)) \/ StoreReceived \/ UNCHANGED vars
       PROVE  TimeInv'
  <2>1. UNCHANGED <<clock, own, used, pc, prev, block, slept>>
    BY <1>10 DEF ValidateBlock, StoreReceived, vars, producerVars
  <2>2. OwnBlocks' = OwnBlocks
    BY <1>10, OwnBlocksUnchanged, StoreHasEffect, OwnBlocksAfterStore, PeerAssumption,
       ForeignOrGenesisNotOwn
    DEF ValidateBlock, StoreReceived, vars
  <2> QED
    BY <2>1, <2>2 DEF ProducerInTime, OwnBefore
<1> QED
  BY <1>1, <1>2, <1>3, <1>4, <1>5, <1>6, <1>7, <1>8, <1>9, <1>10 DEF Next

LEMMA TimeInvariance == Spec => []TimeInv
<1>1. Init => TimeInv
  BY DEF Init, TimeInv, Running, OwnBlocks, ProducerInTime, Store!StoreInit
<1> QED
  BY <1>1, NextTimeInv, Typing, LinkInvariance, PTL DEF Spec

(* A block that follows a block of its own key is later than it, over all  *)
(* starts of the program and reboots of the machine.                       *)
THEOREM Timeline == Spec => []OwnTimeline
<1>1. TypeOK /\ TimeInv => OwnTimeline
  BY OwnBlockTimes DEF TimeInv, AfterPrevious, OwnTimeline, Hash
<1> QED
  BY <1>1, Typing, TimeInvariance, PTL

-----------------------------------------------------------------------------
(* Replacement.  Between validate_block and the store only the producer    *)
(* can change the latest block, and between the read and the store of the  *)
(* producer only handle_block can.                                         *)
ForeignLatest == latest # NoBlock /\ latest.key \in ForeignKeys

CheckedLater ==
    checked # NoBlock =>
        \/ latest = NoBlock
        \/ latest.key = own
        \/ checked.time > latest.time

ExtendsLatest(hash) == hash = PreviousHash(latest) \/ ForeignLatest \/ faults > 0

ReplaceInv ==
    /\ CheckedLater
    /\ pc = "stamp" => ExtendsLatest(prev)
    /\ pc = "store" => ExtendsLatest(block.prev)
LEMMA NextReplaceInv ==
    ASSUME TypeOK, LinkInv, ReplaceInv, [Next]_vars
    PROVE  ReplaceInv'
<1> USE DEF TypeOK, ProducerTypeOK, ReplaceInv, Running
<1>1. CASE (\E k \in Keys : Start(k)) \/ Crash
  <2>1. checked' = NoBlock /\ pc' \in {"draw", "down"}
    BY <1>1 DEF Start, Crash
  <2> QED
    BY <2>1 DEF CheckedLater
<1>2. CASE \/ Reboot \/ Tick \/ Wake \/ UNCHANGED vars
           \/ \E eligible \in BOOLEAN : Draw(eligible)
  <2>1. /\ UNCHANGED <<storeVars, own, checked, faults>>
        /\ pc' \in {"stamp", "store"} => UNCHANGED <<pc, prev, block>>
    BY <1>2 DEF Reboot, Tick, Wake, Draw, vars, producerVars
  <2> QED
    BY <2>1 DEF storeVars, CheckedLater, ExtendsLatest, ForeignLatest, PreviousHash
<1>3. CASE ReadLatest
  <2>1. /\ UNCHANGED <<storeVars, own, checked, faults>>
        /\ pc' = "stamp" /\ prev' = PreviousHash(latest)
    BY <1>3 DEF ReadLatest
  <2> QED
    BY <2>1 DEF storeVars, CheckedLater, ExtendsLatest, ForeignLatest, PreviousHash
<1>4. CASE Stamp
  <2>1. /\ UNCHANGED <<storeVars, own, checked, faults>>
        /\ pc = "stamp" /\ pc' = "store" /\ block'.prev = prev
    BY <1>4 DEF Stamp
  <2> QED
    BY <2>1 DEF storeVars, CheckedLater, ExtendsLatest, ForeignLatest, PreviousHash
<1>5. CASE StoreOwn
  <2>1. /\ UNCHANGED <<own, checked>>
        /\ pc' = "sleep"
        /\ block.key = own
        /\ latest' \in {latest, NoBlock, block}
    BY <1>5, StoreHasEffect DEF StoreOwn, LinkInv, ProducerLinked, StoreEffect
  <2> QED
    BY <2>1 DEF CheckedLater
<1>6. CASE \E b \in PeerBlocks : ValidateBlock(b)
  <2>1. /\ UNCHANGED <<storeVars, own, faults, pc, prev, block>>
        /\ latest # NoBlock => checked'.time > latest.time
    BY <1>6 DEF ValidateBlock, VerifyTime, producerVars
  <2> QED
    BY <2>1 DEF storeVars, CheckedLater, ExtendsLatest, ForeignLatest, PreviousHash
<1>7. CASE StoreReceived
  <2>1. /\ checked \in PeerBlocks /\ checked' = NoBlock
        /\ UNCHANGED <<pc, prev, block>>
        /\ StoreEffect(checked)
    BY <1>7, StoreHasEffect, PeerAssumption DEF StoreReceived, producerVars
  <2>2. ForeignLatest' \/ faults' > 0
    BY <2>1, PeerAssumption, SentinelAssumption DEF StoreEffect, ForeignLatest
  <2> QED
    BY <2>1, <2>2 DEF CheckedLater, ExtendsLatest
<1> QED
  BY <1>1, <1>2, <1>3, <1>4, <1>5, <1>6, <1>7 DEF Next

LEMMA ReplaceInvariance == Spec => []ReplaceInv
<1>1. Init => ReplaceInv
  BY DEF Init, ReplaceInv, CheckedLater
<1> QED
  BY <1>1, NextReplaceInv, Typing, LinkInvariance, PTL DEF Spec

(* Which blocks a step can make the latest one. *)
LEMMA Replacements ==
    ASSUME TypeOK, LinkInv, [Next]_vars, latest' \notin {latest, NoBlock}
    PROVE  \/ latest = NoBlock /\ latest' = Genesis /\ own = NoKey
           \/ pc = "store" /\ latest' = block /\ block.key = own
           \/ checked # NoBlock /\ latest' = checked
<1> USE DEF TypeOK, ProducerTypeOK, Running
<1>1. CASE \E k \in Keys : Start(k)
  <2>1. latest = NoBlock /\ own = NoKey /\ StoreBlock(Genesis)
    BY <1>1, FailureIsStore DEF Start, Initialize, storeVars
  <2> QED
    BY <2>1, GenesisIsBlock, StoreHasEffect DEF StoreEffect
<1>2. CASE Crash
  BY <1>2 DEF Crash, StoreAnswersFalse, Store!PutCut, Store!storeVars, storeVars
<1>3. CASE StoreOwn
  BY <1>3, StoreHasEffect DEF StoreOwn, StoreEffect, LinkInv, ProducerLinked
<1>4. CASE StoreReceived
  BY <1>4, StoreHasEffect, PeerAssumption DEF StoreReceived, StoreEffect
<1>5. CASE UNCHANGED storeVars
  BY <1>5 DEF storeVars
<1>6. CASE \/ Reboot \/ Tick \/ Wake \/ ReadLatest \/ Stamp \/ UNCHANGED vars
           \/ \E eligible \in BOOLEAN : Draw(eligible)
           \/ \E b \in PeerBlocks : ValidateBlock(b)
  BY <1>5, <1>6 DEF Reboot, Tick, Wake, ReadLatest, Stamp, Draw, ValidateBlock, vars
<1> QED
  BY <1>1, <1>2, <1>3, <1>4, <1>6 DEF Next

(* A received block that replaces a block of somebody else is later. *)
THEOREM Receipts == Spec => ReceiptNeverRewinds
<1>1. ASSUME TypeOK, LinkInv, ReplaceInv, [Next]_vars
      PROVE  ReceiptMovesOn
  <2> SUFFICES ASSUME NoBlock \notin {latest, latest'}, latest' # latest,
                      own \notin {latest.key, latest'.key}
               PROVE  latest'.time > latest.time
    BY DEF ReceiptMovesOn
  <2>1. checked # NoBlock /\ latest' = checked
    BY <1>1, Replacements
  <2> QED
    BY <1>1, <2>1 DEF ReplaceInv, CheckedLater
<1> QED
  BY <1>1, Typing, LinkInvariance, ReplaceInvariance, PTL DEF Spec, ReceiptNeverRewinds

(* A produced block extends the latest one, unless that was received or a  *)
(* store went wrong.                                                       *)
THEOREM Extensions == Spec => OwnBlockExtendsLatest
<1>1. ASSUME TypeOK, LinkInv, ReplaceInv, [Next]_vars
      PROVE  OwnBlockExtends
  <2> SUFFICES ASSUME latest' # NoBlock, latest' # latest, latest'.key = own
               PROVE  ExtendsLatest(latest'.prev)
    BY DEF OwnBlockExtends, ExtendsLatest, ForeignLatest
  <2>1. Genesis.key # NoKey
    BY KeyAssumption DEF Genesis, AllKeys
  <2>2. checked # NoBlock => checked.key # own
    BY <1>1, PeerAssumption, KeyAssumption DEF TypeOK, AllKeys
  <2>3. pc = "store" /\ latest' = block
    BY <1>1, <2>1, <2>2, Replacements
  <2> QED
    BY <1>1, <2>3 DEF ReplaceInv
<1> QED
  BY <1>1, Typing, LinkInvariance, ReplaceInvariance, PTL DEF Spec, OwnBlockExtendsLatest
=============================================================================

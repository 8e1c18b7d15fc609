------------------------ MODULE ValueChainConsensus ------------------------
(***************************************************************************)
(* ValueChainConsensus (src/src/consensus/value_chain_consensus.cpp) of a  *)
(* dual node: the producer thread (Node::run_value_chain_loop) makes a     *)
(* transaction, and now and then turns the pool into a block, while the    *)
(* network thread adds transactions to the pool and handles blocks.        *)
(*                                                                         *)
(* What the two share: the transaction pool, under its mutex; the storage  *)
(* of value blocks; and the storage of time blocks, which the node's other *)
(* producer and the network thread keep moving.  Every use of one of them  *)
(* is a step of its own.                                                   *)
(*                                                                         *)
(* A pool and the transactions of a block are bags: a transaction that is  *)
(* delivered twice is there twice.  The coinbase transaction, which heads  *)
(* every produced block, is left out of them.                              *)
(***************************************************************************)
EXTENDS Naturals, Sequences, FiniteSetsExt

CONSTANTS
    OwnTxs,         \* transactions this node can make, each of them once
    PeerTxs,        \* transactions that peers may send
    GenesisBlock,   \* the genesis value block
    PeerBlocks,     \* value blocks that peers may send
    PeerHashes,     \* hashes of blocks this node did not produce
    BadBlocks,      \* peer blocks with a bad signature, theirs or of a transaction
    TimeBlocks,     \* time blocks, identified by their hash
    GenesisTimeBlock,
    TimeOf,         \* the time of each time block
    ZeroHash,       \* the all-zero hash
    NoBlock,        \* std::nullopt
    MaxDeliveries,  \* bound: how often a peer's transaction arrives
    MaxTimeBlocks,  \* bound: how often the latest time block changes
    MaxFaults       \* bound: failed, lost or interrupted stores, and crashes

Txs == OwnTxs \cup PeerTxs

(* The n-th block of this node is called n: two blocks of a node differ in *)
(* their predecessor or their transactions, hence in their hash.           *)
Hashes == Nat \cup PeerHashes \cup {ZeroHash}

TimeHashes == TimeBlocks \cup {ZeroHash}

ValueBlocks == [hash : Hashes, prev : Hashes, time : Nat, ref : TimeHashes,
                txs : [Txs -> Nat]]

ASSUME TxAssumption == OwnTxs \cap PeerTxs = {}
ASSUME HashAssumption ==
    /\ PeerHashes \cap Nat = {}
    /\ ZeroHash \notin Nat \cup PeerHashes \cup TimeBlocks
    /\ NoBlock \notin ValueBlocks \cup TimeBlocks
ASSUME BlockAssumption ==
    /\ PeerBlocks \subseteq ValueBlocks
    /\ BadBlocks \subseteq PeerBlocks
    /\ GenesisBlock \in ValueBlocks
    /\ \A b \in PeerBlocks \cup {GenesisBlock} : b.hash \in PeerHashes
ASSUME TimeAssumption ==
    /\ GenesisTimeBlock \in TimeBlocks
    /\ TimeOf \in [TimeBlocks -> Nat]
ASSUME BoundAssumption == {MaxDeliveries, MaxTimeBlocks, MaxFaults} \subseteq Nat

VARIABLES
    present, whole, latest,  \* the storage of value blocks, see BlockStore
    timeLog,    \* every answer get_latest_block of the time storage ever
                \* had, in order; NoBlock: latest.block could not be read
    pool,       \* transaction_pool_
    delivered,  \* history: how often each transaction entered the pool
    produced,   \* history: number of blocks produced
    faults,     \* history: faults so far
    pc,         \* producer thread: its place in the loop
    hands,      \* ... transactions it gathered and has not stored yet
    prev,       \* ... previous_hash
    time,       \* ... current_time
    block,      \* ... the signed block
    stage,      \* network thread: its place in handle_block
    incoming    \* ... the block it handles

storeVars == <<present, whole, latest>>
producerVars == <<pc, hands, prev, time, block>>
networkVars == <<stage, incoming>>
vars == <<storeVars, timeLog, pool, delivered, produced, faults,
          producerVars, networkVars>>

Store == INSTANCE BlockStore WITH Blocks <- ValueBlocks

Empty == [t \in Txs |-> 0]
In(b) == {t \in Txs : b.txs[t] > 0}

-----------------------------------------------------------------------------
(* store_block(b): its three outcomes, of which all but the first count.   *)

Fault ==
    /\ faults < MaxFaults
    /\ faults' = faults + 1

StoreAnswersTrue(b) ==
    \/ Store!Put(b) /\ UNCHANGED faults
    \/ Store!PutLost(b) /\ Fault

StoreAnswersFalse(b) == Store!PutCut(b) /\ Fault

StoreBlock(b) == StoreAnswersTrue(b) \/ StoreAnswersFalse(b)

-----------------------------------------------------------------------------
(* What the time chain answers: TimeChain::get_latest_block_hash and       *)
(* get_current_time, with their fallbacks, and TimeChain::block_exists.    *)

LatestTimeBlock == timeLog[Len(timeLog)]

(* A slip the checks must notice: a missing block is not replaced. *)
TimeHashUnguarded(found) == found

TimeHashOf(found) == IF found = NoBlock THEN ZeroHash ELSE found
TimeIn(found) == IF found = NoBlock THEN 0 ELSE TimeOf[found]

(* A slip the checks must notice: the hash is the one found at the start. *)
CachedBlockHash == TimeHashOf(timeLog[1])

GetLatestBlockHash == TimeHashOf(LatestTimeBlock)
GetCurrentTime == TimeIn(LatestTimeBlock)

TimeBlockExists(hash) ==
    hash \in TimeBlocks /\ \E i \in DOMAIN timeLog : timeLog[i] = hash

(* The node's time chain moves on, or its latest.block becomes unreadable. *)
(* It may move to an earlier time: see TimeChainConsensus.                 *)
TimeChainMoves(found) ==
    /\ Len(timeLog) < MaxTimeBlocks
    /\ found # LatestTimeBlock
    /\ timeLog' = Append(timeLog, found)
    /\ IF found = NoBlock THEN Fault ELSE UNCHANGED faults
    /\ UNCHANGED <<storeVars, pool, delivered, produced, producerVars, networkVars>>

-----------------------------------------------------------------------------
IdleProducer ==
    /\ pc = "sleep"
    /\ hands = Empty
    /\ prev = ZeroHash
    /\ time = 0
    /\ block = NoBlock

(* The program has just been started for the first time: initialize() has  *)
(* stored the genesis block.                                               *)
Init ==
    /\ present = {GenesisBlock}
    /\ whole = {GenesisBlock}
    /\ latest = GenesisBlock
    /\ timeLog = <<GenesisTimeBlock>>
    /\ pool = Empty
    /\ delivered = Empty
    /\ produced = 0
    /\ faults = 0
    /\ IdleProducer
    /\ stage = "idle"
    /\ incoming = NoBlock

(* The process dies and loses its pool; a store it was in is cut short.    *)
Crash ==
    /\ pc # "down"
    /\ Fault
    /\ \/ UNCHANGED storeVars
       \/ pc = "store" /\ Store!PutCut(block)
       \/ stage = "store" /\ Store!PutCut(incoming)
    /\ pc' = "down"
    /\ pool' = Empty
    /\ hands' = Empty
    /\ prev' = ZeroHash
    /\ time' = 0
    /\ block' = NoBlock
    /\ stage' = "down"
    /\ incoming' = NoBlock
    /\ UNCHANGED <<timeLog, delivered, produced>>

(* The program is started again: initialize() stores the genesis block     *)
(* when no latest block is found; when that fails the program ends.        *)
Restart ==
    /\ pc = "down"
    /\ \/ /\ IF latest = NoBlock
             THEN StoreAnswersTrue(GenesisBlock)
             ELSE UNCHANGED <<storeVars, faults>>
          /\ pc' = "sleep"
          /\ stage' = "idle"
       \/ /\ latest = NoBlock
          /\ StoreAnswersFalse(GenesisBlock)
          /\ UNCHANGED <<pc, stage>>
    /\ UNCHANGED <<timeLog, pool, delivered, produced, hands, prev, time, block, incoming>>

-----------------------------------------------------------------------------
(* The pool. *)

(* add_transaction: nothing is verified and nothing is looked up. *)
AddTransaction(t) ==
    /\ pool' = [pool EXCEPT ![t] = @ + 1]
    /\ delivered' = [delivered EXCEPT ![t] = @ + 1]

(* handle_incoming_transaction, on the network thread. *)
Deliver(t) ==
    /\ stage = "idle"
    /\ delivered[t] < MaxDeliveries
    /\ AddTransaction(t)
    /\ UNCHANGED <<storeVars, timeLog, produced, faults, producerVars, networkVars>>

(* The loop wakes up: generate_and_broadcast_transaction.  When the bound  *)
(* leaves no transaction to make, it goes on without one.                  *)
Generate(t) ==
    /\ pc = "sleep"
    /\ delivered[t] = 0
    /\ AddTransaction(t)
    /\ pc' = "draw"
    /\ UNCHANGED <<storeVars, timeLog, produced, faults, hands, prev, time, block,
                   networkVars>>

NothingToGenerate ==
    /\ pc = "sleep"
    /\ \A t \in OwnTxs : delivered[t] > 0
    /\ pc' = "draw"
    /\ UNCHANGED <<storeVars, timeLog, pool, delivered, produced, faults, hands, prev,
                   time, block, networkVars>>

-----------------------------------------------------------------------------
(* produce_block. *)

(* is_eligible_to_produce_block: a draw whose odds depend on the time.     *)
Draw(eligible) ==
    /\ pc = "draw"
    /\ pc' = IF eligible THEN "gather" ELSE "sleep"
    /\ UNCHANGED <<storeVars, timeLog, pool, delivered, produced, faults, hands, prev,
                   time, block, networkVars>>

(* Slips the checks must notice: the pool is not cleared; a block is only  *)
(* made of a pool that has every transaction.                              *)
GatherCopies ==
    /\ pc = "gather"
    /\ hands' = pool
    /\ pc' = IF pool = Empty THEN "sleep" ELSE "link"
    /\ UNCHANGED <<storeVars, timeLog, pool, delivered, produced, faults, prev, time,
                   block, networkVars>>

GatherFullPool ==
    /\ pc = "gather"
    /\ IF \E t \in Txs : pool[t] = 0
       THEN pc' = "sleep" /\ UNCHANGED <<hands, pool>>
       ELSE pc' = "link" /\ hands' = pool /\ pool' = Empty
    /\ UNCHANGED <<storeVars, timeLog, delivered, produced, faults, prev, time, block,
                   networkVars>>

(* gather_transactions copies the pool and clears it under one lock. *)
Gather ==
    /\ pc = "gather"
    /\ hands' = pool
    /\ pool' = Empty
    /\ pc' = IF pool = Empty THEN "sleep" ELSE "link"
    /\ UNCHANGED <<storeVars, timeLog, delivered, produced, faults, prev, time, block,
                   networkVars>>

Link ==
    /\ pc = "link"
    /\ prev' = IF latest = NoBlock THEN ZeroHash ELSE latest.hash
    /\ pc' = "time"
    /\ UNCHANGED <<storeVars, timeLog, pool, delivered, produced, faults, hands, time,
                   block, networkVars>>

(* A slip the checks must notice: the next instant is taken for this one. *)
ReadNextTime ==
    /\ pc = "time"
    /\ time' = GetCurrentTime + 1
    /\ pc' = "reference"
    /\ UNCHANGED <<storeVars, timeLog, pool, delivered, produced, faults, hands, prev,
                   block, networkVars>>

ReadTime ==
    /\ pc = "time"
    /\ time' = GetCurrentTime
    /\ pc' = "reference"
    /\ UNCHANGED <<storeVars, timeLog, pool, delivered, produced, faults, hands, prev,
                   block, networkVars>>

(* The hash of the latest time block is asked for, and the block is made   *)
(* and signed.                                                             *)
Reference ==
    /\ pc = "reference"
    /\ block' = [hash |-> produced + 1, prev |-> prev, time |-> time,
                 ref |-> GetLatestBlockHash, txs |-> hands]
    /\ produced' = produced + 1
    /\ pc' = "store"
    /\ UNCHANGED <<storeVars, timeLog, pool, delivered, faults, hands, prev, time,
                   networkVars>>

(* When store_block answers false the gathered transactions are dropped.   *)
StoreOwn ==
    /\ pc = "store"
    /\ StoreBlock(block)
    /\ pc' = "sleep"
    /\ hands' = Empty
    /\ prev' = ZeroHash
    /\ time' = 0
    /\ block' = NoBlock
    /\ UNCHANGED <<timeLog, pool, delivered, produced, networkVars>>

-----------------------------------------------------------------------------
(* handle_block, on the network thread. *)

(* verify_time_reference, first part.  A peer's block can only hold those  *)
(* transactions of this node that it has made.                             *)
CheckReference(b) ==
    /\ stage = "idle"
    /\ \A t \in In(b) \cap OwnTxs : delivered[t] > 0
    /\ TimeBlockExists(b.ref)
    /\ stage' = "time"
    /\ incoming' = b
    /\ UNCHANGED <<storeVars, timeLog, pool, delivered, produced, faults, producerVars>>

NotInTheFuture(b) == b.time <= GetCurrentTime

(* verify_transactions and verify_signature depend on the block alone. *)
Verified(b) == b \notin BadBlocks

(* The rest of validate_block. *)
CheckBlock ==
    /\ stage = "time"
    /\ IF NotInTheFuture(incoming) /\ Verified(incoming)
       THEN stage' = "store" /\ UNCHANGED incoming
       ELSE stage' = "idle" /\ incoming' = NoBlock
    /\ UNCHANGED <<storeVars, timeLog, pool, delivered, produced, faults, producerVars>>

StoreReceived ==
    /\ stage = "store"
    /\ \/ StoreAnswersTrue(incoming) /\ stage' = "purge" /\ UNCHANGED incoming
       \/ StoreAnswersFalse(incoming) /\ stage' = "idle" /\ incoming' = NoBlock
    /\ UNCHANGED <<timeLog, pool, delivered, produced, producerVars>>

(* A slip the checks must notice: the whole pool is cleared. *)
ClearPool(b) == Empty

(* Every copy of a transaction of the block leaves the pool. *)
PurgePool(b) == [t \in Txs |-> IF t \in In(b) THEN 0 ELSE pool[t]]

Purge ==
    /\ stage = "purge"
    /\ pool' = PurgePool(incoming)
    /\ stage' = "idle"
    /\ incoming' = NoBlock
    /\ UNCHANGED <<storeVars, timeLog, delivered, produced, faults, producerVars>>

Producer ==
    \/ \E t \in OwnTxs : Generate(t)
    \/ NothingToGenerate
    \/ \E eligible \in BOOLEAN : Draw(eligible)
    \/ Gather
    \/ Link
    \/ ReadTime
    \/ Reference
    \/ StoreOwn

Network ==
    \/ \E t \in PeerTxs : Deliver(t)
    \/ \E b \in PeerBlocks : CheckReference(b)
    \/ CheckBlock
    \/ StoreReceived
    \/ Purge

Next ==
    \/ Producer
    \/ Network
    \/ \E found \in TimeBlocks \cup {NoBlock} : TimeChainMoves(found)
    \/ Crash
    \/ Restart

Spec == Init /\ [][Next]_vars

(* The loop never blocks for good: its sleeps end and the mutexes it takes *)
(* are held for one operation.  Each draw succeeds with a probability of   *)
(* at least one in a hundred, independently of the others, so a thread     *)
(* that keeps drawing is drawn.  Of the network nothing is assumed except  *)
(* that a handler that began goes on.                                      *)
Fairness ==
    /\ WF_vars(Producer)
    /\ SF_vars(Draw(TRUE))
    /\ WF_vars(CheckBlock \/ StoreReceived \/ Purge)

FairSpec == Spec /\ Fairness

-----------------------------------------------------------------------------
TypeOK ==
    /\ Store!StoreTypeOK
    /\ timeLog \in Seq(TimeBlocks \cup {NoBlock}) /\ timeLog # <<>>
    /\ pool \in [Txs -> Nat]
    /\ delivered \in [Txs -> Nat]
    /\ produced \in Nat
    /\ faults \in Nat
    /\ pc \in {"down", "sleep", "draw", "gather", "link", "time", "reference", "store"}
    /\ hands \in [Txs -> Nat]
    /\ prev \in Hashes
    /\ time \in Nat
    /\ block \in ValueBlocks \cup {NoBlock}
    /\ stage \in {"down", "idle", "time", "store", "purge"}
    /\ incoming \in PeerBlocks \cup {NoBlock}

OwnBlocks == {b \in present : b.hash \in Nat}

Recorded(t) == \E b \in present : t \in In(b)

(* Without faults no transaction that entered the pool is lost: it is in   *)
(* the pool, in the producer's hands, or in a block that can be read back, *)
(* though the pool is cleared before the block is stored, and purged of a  *)
(* received block's transactions while the producer may hold some.         *)
NoTransactionLost ==
    faults = 0 =>
        \A t \in Txs : delivered[t] > 0 =>
            \/ pool[t] > 0
            \/ hands[t] > 0
            \/ \E b \in whole : t \in In(b)

(* This node never spends one arrival of a transaction twice: the copies   *)
(* of it in the node's own blocks, in the pool and in the producer's hands *)
(* are together no more than the times it was added to the pool.           *)
CopiesWereDelivered ==
    \A t \in Txs :
        LET Copies(b) == b.txs[t]
        IN  MapThenSumSet(Copies, OwnBlocks) + pool[t] + hands[t] <= delivered[t]

(* The time of a produced block was the time of the chain no later than    *)
(* the block it refers to was the latest one: time first, reference next.  *)
TimeNotAfterReference ==
    \A b \in OwnBlocks :
        \E j \in DOMAIN timeLog : \E i \in 1..j :
            /\ b.time = TimeIn(timeLog[i])
            /\ b.ref = TimeHashOf(timeLog[j])

TimeMovesForward ==
    /\ NoBlock \notin {timeLog[i] : i \in DOMAIN timeLog}
    /\ \A i, j \in DOMAIN timeLog : i < j => TimeOf[timeLog[i]] < TimeOf[timeLog[j]]

(* As long as the time chain only moves forward, a node would accept every *)
(* block of its own from a peer: verify_time_reference, asked at any time  *)
(* after the block was made, finds the reference and no time in the future.*)
OwnBlocksPassOwnCheck ==
    TimeMovesForward =>
        \A b \in OwnBlocks : TimeBlockExists(b.ref) /\ NotInTheFuture(b)

(* A transaction in the pool is in a block some day, of this node or of a  *)
(* peer, whatever peers send and however often the producer is not drawn.  *)
EventuallyIncluded ==
    \A t \in Txs : pool[t] > 0 ~> (Recorded(t) \/ faults > 0)

(* value_block.hpp: the reference of a block is the "Reference to the      *)
(* corresponding TimeBlock", so the two tell the same time.                *)
TimeMatchesReference ==
    \A b \in OwnBlocks : b.ref \in TimeBlocks => b.time = TimeOf[b.ref]

(* handle_block: "Remove transactions included in the block from the       *)
(* transaction pool", so that a transaction which entered the pool once    *)
(* is not included a second time.                                          *)
IncludedOnce ==
    \A b, c \in present : b # c =>
        \A t \in In(b) \cap In(c) : delivered[t] > 1
=============================================================================

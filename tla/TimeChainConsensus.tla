------------------------- MODULE TimeChainConsensus -------------------------
(***************************************************************************)
(* TimeChainConsensus (src/src/consensus/time_chain_consensus.cpp) on the  *)
(* storage of one node: the producer thread (Node::run_time_chain_loop)    *)
(* calls produce_block while the network thread calls handle_block.  The   *)
(* two share nothing but the storage, and each reads it in one storage     *)
(* operation and writes it in a later one, so the other can get in between.*)
(*                                                                         *)
(* The module also has the life of the process around it: initialize()     *)
(* with the genesis block at every start, a crash at any point, and a      *)
(* reboot, which sets steady_clock (utilities::get_current_time) back.     *)
(***************************************************************************)
EXTENDS Naturals

CONSTANTS
    Keys,         \* public keys of this node: each start draws a new one
    ForeignKeys,  \* public keys of other nodes
    GenesisKey,   \* public key of the genesis block
    GenesisTime,  \* time of the genesis block (types.hpp, GENESIS_TIME)
    PeerBlocks,   \* blocks that peers may send
    BadlySigned,  \* those of them whose signature does not verify
    ZeroHash,     \* the all-zero hash
    NoBlock,      \* std::nullopt
    NoKey,        \* no process is running
    MaxTime,      \* bound of the clock
    MaxFaults     \* bound: failed, lost or interrupted stores

AllKeys == Keys \cup ForeignKeys \cup {GenesisKey}

(* The hash of a block is the SHA-256 of its fields.  Key and time stand   *)
(* for it: a process waits a second between two blocks of its key, so no   *)
(* two blocks here agree in both.                                          *)
Hashes == (AllKeys \X Nat) \cup {ZeroHash}

TimeBlocks == [prev : Hashes, time : Nat, key : AllKeys]

Hash(b) == <<b.key, b.time>>

Genesis == [prev |-> ZeroHash, time |-> GenesisTime, key |-> GenesisKey]

ASSUME KeyAssumption ==
    /\ Keys \cap ForeignKeys = {}
    /\ GenesisKey \notin Keys \cup ForeignKeys
    /\ NoKey \notin AllKeys
ASSUME SentinelAssumption ==
    /\ NoBlock \notin TimeBlocks
    /\ ZeroHash \notin AllKeys \X Nat
ASSUME BoundAssumption ==
    /\ GenesisTime \in Nat
    /\ MaxTime \in Nat
    /\ MaxFaults \in Nat
ASSUME PeerAssumption ==
    /\ PeerBlocks \subseteq TimeBlocks
    /\ \A b \in PeerBlocks : b.key \in ForeignKeys
    /\ BadlySigned \subseteq PeerBlocks

VARIABLES
    present, whole, latest,  \* the storage, see BlockStore
    clock,    \* steady_clock of the machine
    own,      \* key of the running process, NoKey when it is down
    used,     \* history: keys of all processes so far
    pc,       \* the producer thread
    prev,     \* produce_block: previous_hash
    block,    \* produce_block: the signed block
    slept,    \* clock when the producer last went to sleep
    checked,  \* handle_block: the block that passed validate_block
    faults    \* history: stores that failed, lost data or were interrupted

storeVars == <<present, whole, latest>>
producerVars == <<pc, prev, block, slept>>
vars == <<storeVars, clock, own, used, producerVars, checked, faults>>

Store == INSTANCE BlockStore WITH Blocks <- TimeBlocks

Stages == {"down", "draw", "read", "stamp", "store", "sleep"}

-----------------------------------------------------------------------------
(* store_block(b): its three outcomes, of which all but the first count.   *)

Fault ==
    /\ faults < MaxFaults
    /\ faults' = faults + 1

StoreSucceeds(b) == Store!Put(b) /\ UNCHANGED faults

StoreAnswersTrue(b) == StoreSucceeds(b) \/ (Store!PutLost(b) /\ Fault)

StoreAnswersFalse(b) == Store!PutCut(b) /\ Fault

StoreBlock(b) == StoreAnswersTrue(b) \/ StoreAnswersFalse(b)

-----------------------------------------------------------------------------
(* The process. *)

Init ==
    /\ Store!StoreInit
    /\ clock = 0
    /\ own = NoKey
    /\ used = {}
    /\ pc = "down"
    /\ prev = ZeroHash
    /\ block = NoBlock
    /\ slept = 0
    /\ checked = NoBlock
    /\ faults = 0

Running == own # NoKey

(* initialize: the genesis block is stored when no latest block is found;  *)
(* false when that store fails, and then the program ends.                 *)
Initialize(up) ==
    IF latest # NoBlock
    THEN up /\ UNCHANGED <<storeVars, faults>>
    ELSE IF up THEN StoreAnswersTrue(Genesis) ELSE StoreAnswersFalse(Genesis)

(* Node's constructor draws a key pair; start() initialises the consensus  *)
(* and starts the producer thread only when that succeeded.                *)
Start(k) ==
    /\ ~Running
    /\ k \notin used
    /\ used' = used \cup {k}
    /\ \/ /\ Initialize(TRUE)
          /\ own' = k
          /\ pc' = "draw"
       \/ /\ Initialize(FALSE)
          /\ UNCHANGED <<own, pc>>
    /\ UNCHANGED <<clock, prev, block, slept, checked>>

(* The process ends; whatever store_block it was in is cut short.          *)
Crash ==
    /\ Running
    /\ \/ UNCHANGED <<storeVars, faults>>
       \/ pc = "store" /\ StoreAnswersFalse(block)
       \/ checked # NoBlock /\ StoreAnswersFalse(checked)
    /\ own' = NoKey
    /\ pc' = "down"
    /\ prev' = ZeroHash
    /\ block' = NoBlock
    /\ slept' = 0
    /\ checked' = NoBlock
    /\ UNCHANGED <<clock, used>>

(* steady_clock counts from the boot of the machine. *)
Reboot ==
    /\ ~Running
    /\ clock' = 0
    /\ UNCHANGED <<storeVars, own, used, producerVars, checked, faults>>

Tick ==
    /\ clock < MaxTime
    /\ clock' = clock + 1
    /\ UNCHANGED <<storeVars, own, used, producerVars, checked, faults>>

-----------------------------------------------------------------------------
(* The producer thread. *)

(* A slip the checks must notice: the latest block is not read again. *)
DrawWithoutReading(eligible) ==
    /\ pc = "draw"
    /\ IF eligible
       THEN pc' = "stamp" /\ UNCHANGED slept
       ELSE pc' = "sleep" /\ slept' = clock
    /\ UNCHANGED <<storeVars, clock, own, used, prev, block, checked, faults>>

(* is_eligible_to_produce_block: one draw in ten succeeds. *)
Draw(eligible) ==
    /\ pc = "draw"
    /\ IF eligible
       THEN pc' = "read" /\ UNCHANGED slept
       ELSE pc' = "sleep" /\ slept' = clock
    /\ UNCHANGED <<storeVars, clock, own, used, prev, block, checked, faults>>

(* A slip the checks must notice: the new block gets the predecessor of    *)
(* the latest block for its own.                                           *)
GrandparentHash(found) == IF found = NoBlock THEN ZeroHash ELSE found.prev

(* The hash that follows the block get_latest_block answered with. *)
PreviousHash(found) == IF found = NoBlock THEN ZeroHash ELSE Hash(found)

ReadLatest ==
    /\ pc = "read"
    /\ prev' = PreviousHash(latest)
    /\ pc' = "stamp"
    /\ UNCHANGED <<storeVars, clock, own, used, block, slept, checked, faults>>

(* get_current_time, the constructor and the signature. *)
Stamp ==
    /\ pc = "stamp"
    /\ block' = [prev |-> prev, time |-> clock, key |-> own]
    /\ pc' = "store"
    /\ UNCHANGED <<storeVars, clock, own, used, prev, slept, checked, faults>>

(* store_block, the end of produce_block; a block that was stored is       *)
(* broadcast, and either way the loop sleeps.                              *)
StoreOwn ==
    /\ pc = "store"
    /\ StoreBlock(block)
    /\ pc' = "sleep"
    /\ slept' = clock
    /\ prev' = ZeroHash
    /\ block' = NoBlock
    /\ UNCHANGED <<clock, own, used, checked>>

(* A slip the checks must notice: the loop does not pause. *)
NoPause == TRUE

(* A second has passed. *)
Slept == clock > slept

Wake ==
    /\ pc = "sleep"
    /\ Slept
    /\ pc' = "draw"
    /\ UNCHANGED <<storeVars, clock, own, used, prev, block, slept, checked, faults>>

-----------------------------------------------------------------------------
(* The network thread. *)

(* A slip the checks must notice: the block is compared with the clock,    *)
(* not with the latest block.                                              *)
VerifyTimeByClock(b) == b.time <= clock

VerifyTime(b) == latest # NoBlock => b.time > latest.time

VerifySignature(b) == b \notin BadlySigned

(* A slip the checks must notice: blocks are handled when there is no node. *)
ValidateAnyTime(b) ==
    /\ checked = NoBlock
    /\ VerifyTime(b)
    /\ VerifySignature(b)
    /\ checked' = b
    /\ UNCHANGED <<storeVars, clock, own, used, producerVars, faults>>

(* handle_block up to validate_block's answer: a block that is refused     *)
(* leaves no trace.                                                        *)
ValidateBlock(b) ==
    /\ Running
    /\ checked = NoBlock
    /\ VerifyTime(b)
    /\ VerifySignature(b)
    /\ checked' = b
    /\ UNCHANGED <<storeVars, clock, own, used, producerVars, faults>>

(* The rest of handle_block. *)
StoreReceived ==
    /\ checked # NoBlock
    /\ StoreBlock(checked)
    /\ checked' = NoBlock
    /\ UNCHANGED <<clock, own, used, producerVars>>

Next ==
    \/ \E k \in Keys : Start(k)
    \/ Crash
    \/ Reboot
    \/ Tick
    \/ \E eligible \in BOOLEAN : Draw(eligible)
    \/ ReadLatest
    \/ Stamp
    \/ StoreOwn
    \/ Wake
    \/ \E b \in PeerBlocks : ValidateBlock(b)
    \/ StoreReceived

Spec == Init /\ [][Next]_vars

-----------------------------------------------------------------------------
ProducerTypeOK ==
    /\ pc \in Stages
    /\ prev \in Hashes
    /\ block \in TimeBlocks \cup {NoBlock}
    /\ slept \in Nat

TypeOK ==
    /\ Store!StoreTypeOK
    /\ clock \in Nat
    /\ own \in Keys \cup {NoKey}
    /\ used \subseteq Keys
    /\ ProducerTypeOK
    /\ checked \in PeerBlocks \cup {NoBlock}
    /\ faults \in Nat
    /\ pc = "down" <=> ~Running
    /\ pc = "store" <=> block # NoBlock
    /\ checked # NoBlock => Running

OwnBlocks == {b \in present : b.key \in Keys}

HasFile(hash) == \E b \in present : Hash(b) = hash

(* Every block this node produced, in this run or an earlier one, hangs on *)
(* a block whose file this node has; only after a store went wrong may it  *)
(* hang in the air, on the zero hash.  Crashes between stores, restarts    *)
(* and blocks received in the middle of produce_block do not change that.  *)
OwnBlocksLinked ==
    \A b \in OwnBlocks :
        \/ HasFile(b.prev)
        \/ b.prev = ZeroHash /\ faults > 0

(* Along the blocks of one process time moves forward: a block that        *)
(* follows a block of its own key is later than it, though the predecessor *)
(* was read and the clock was asked at different moments.                  *)
OwnTimeline ==
    \A b, p \in OwnBlocks :
        (b.prev = Hash(p) /\ b.key = p.key) => p.time < b.time

(* Receiving never takes the chain back: when a block of somebody else     *)
(* replaces a block of somebody else as the latest one, it is later, even  *)
(* if the storage changed between verify_time and store_block.             *)
ReceiptMovesOn ==
    (/\ NoBlock \notin {latest, latest'}
     /\ latest' # latest
     /\ own \notin {latest.key, latest'.key})
    => latest'.time > latest.time

ReceiptNeverRewinds == [][ReceiptMovesOn]_vars

(* A node forks its own chain only around a received block or after a      *)
(* fault: a block it produced either extends the block it replaces as the  *)
(* latest one, or replaces a block that came from somebody else.           *)
OwnBlockExtends ==
    (/\ latest' # NoBlock
     /\ latest' # latest
     /\ latest'.key = own)
    => \/ latest'.prev = PreviousHash(latest)
       \/ latest # NoBlock /\ latest.key \in ForeignKeys
       \/ faults > 0

OwnBlockExtendsLatest == [][OwnBlockExtends]_vars

(* types.hpp and get_current_time: a time is "nanoseconds since epoch", so *)
(* nothing this node stamps is older than the genesis block.               *)
OwnTimesAreEpochTimes == \A b \in OwnBlocks : b.time >= GenesisTime

(* produce_block: a missing latest block "should not happen as we've       *)
(* ensured a genesis block exists in initialize()".                        *)
PredecessorFound == \A b \in OwnBlocks : b.prev # ZeroHash

(* verify_time refuses a block with "Block time is not increasing.", and   *)
(* the chain is the network's global time reference (README): the time of  *)
(* the latest block never falls.                                           *)
LatestTimeNeverFalls ==
    [][NoBlock \notin {latest, latest'} => latest'.time >= latest.time]_vars
=============================================================================

---------------------------- MODULE NodeMessages ----------------------------
(***************************************************************************)
(* The messages of Node (src/src/node/node.cpp): what the two producer     *)
(* loops broadcast, and what process_complete_message and the three        *)
(* handlers make of it, depending on the role of the node that sends and   *)
(* of the node that receives.                                              *)
(*                                                                         *)
(* A message is here what MessageFraming delivers: a type and a payload,   *)
(* complete and in order for each pair of nodes.  Where a message ends, in *)
(* the consensus of its chain, is the last step: "handed" is what          *)
(* add_transaction and the two handle_block were called with.              *)
(***************************************************************************)
EXTENDS BlockFormats

CONSTANTS
    Nodes,
    Role,          \* node_role_ of each node: "time", "value" or "dual"
    PublicKey,     \* public_key_ of each node
    Transactions,  \* transactions the nodes can make
    MaxSent        \* bound: broadcasts of one node

ASSUME RoleAssumption == Role \in [Nodes -> {"time", "value", "dual"}]
ASSUME TransactionsAssumption == Transactions \subseteq AnyTransaction
ASSUME SentAssumption == MaxSent \in Nat

VARIABLES
    up,      \* the nodes whose process runs
    turn,    \* run_value_chain_loop: "generate" or "produce"
    wire,    \* messages on their way, per sender and receiver
    sent,    \* history: what each node broadcast
    handed   \* history: what each node's consensus was called with, per sender

vars == <<up, turn, wire, sent, handed>>

Pairs == {p \in Nodes \X Nodes : p[1] # p[2]}

(* The consensus objects that initialize_components makes. *)
HasTimeChain(n) == Role[n] \in {"time", "dual"}

(* A slip the checks must notice: "dual" is forgotten. *)
OnlyValueRole(n) == Role[n] = "value"

HasValueChain(n) == Role[n] \in {"value", "dual"}

-----------------------------------------------------------------------------
Init ==
    /\ up = Nodes
    /\ turn = [n \in Nodes |-> "generate"]
    /\ wire = [p \in Pairs |-> <<>>]
    /\ sent = [n \in Nodes |-> <<>>]
    /\ handed = [p \in Pairs |-> <<>>]

Broadcast(n, type, payload, object) ==
    /\ Len(sent[n]) < MaxSent
    /\ wire' = [p \in Pairs |->
                  IF p[1] = n THEN Append(wire[p], [type |-> type, payload |-> payload])
                  ELSE wire[p]]
    /\ sent' = [sent EXCEPT ![n] = Append(@, object)]

(* "Prepend the message type and sender's public key" *)
BlockPayload(n, block) == PublicKey[n] \o block

(* run_time_chain_loop, when produce_block returns a block. *)
BroadcastTimeBlock(n, b) ==
    /\ n \in up
    /\ HasTimeChain(n)
    /\ Broadcast(n, 1, BlockPayload(n, SerializeTimeBlock(b)), [type |-> 1, object |-> b])
    /\ UNCHANGED <<up, turn, handed>>

(* run_value_chain_loop: generate_and_broadcast_transaction ... *)
BroadcastTransaction(n, t) ==
    /\ n \in up
    /\ HasValueChain(n)
    /\ turn[n] = "generate"
    /\ Broadcast(n, 3, SerializeTransaction(t), [type |-> 3, object |-> t])
    /\ turn' = [turn EXCEPT ![n] = "produce"]
    /\ UNCHANGED <<up, handed>>

(* ... and then produce_block, which needs the time chain for its draw.    *)
NoValueBlock(n) ==
    /\ n \in up
    /\ turn[n] = "produce"
    /\ HasTimeChain(n)
    /\ turn' = [turn EXCEPT ![n] = "generate"]
    /\ UNCHANGED <<up, wire, sent, handed>>

BroadcastValueBlock(n, b) ==
    /\ n \in up
    /\ turn[n] = "produce"
    /\ HasTimeChain(n)
    /\ Broadcast(n, 2, BlockPayload(n, SerializeValueBlock(b)), [type |-> 2, object |-> b])
    /\ turn' = [turn EXCEPT ![n] = "generate"]
    /\ UNCHANGED <<up, handed>>

(* time_chain_ is a null pointer: get_current_time dereferences it. *)
DrawWithoutTimeChain(n) ==
    /\ n \in up
    /\ turn[n] = "produce"
    /\ ~HasTimeChain(n)
    /\ up' = up \ {n}
    /\ UNCHANGED <<turn, wire, sent, handed>>

-----------------------------------------------------------------------------
(* A slip the checks must notice: the bound itself is refused. *)
LongerThanMinimum(payload) == Len(payload) > MinTransactionSize

LongEnough(payload) == Len(payload) >= MinTransactionSize

(* What the handler of a message gets from deserialize. *)
Deserialized(message) ==
    CASE message.type = 1 -> DeserializeTimeBlock(message.payload)
      [] message.type = 2 -> DeserializeValueBlock(message.payload)
      [] message.type = 3 -> IF LongEnough(message.payload)
                             THEN DeserializeTransaction(message.payload)
                             ELSE Refused

HasConsensus(n, type) == IF type = 1 THEN HasTimeChain(n) ELSE HasValueChain(n)

Received(p) ==
    /\ p[2] \in up
    /\ wire[p] # <<>>
    /\ wire' = [wire EXCEPT ![p] = Tail(@)]
    /\ UNCHANGED <<turn, sent>>

(* deserialize answers false, and that is all. *)
Refuse(p) ==
    /\ Received(p)
    /\ Deserialized(Head(wire[p])) = Refused
    /\ UNCHANGED <<up, handed>>

(* The object is handed to the consensus. *)
Hand(p) ==
    LET message == Head(wire[p]) IN
    /\ Received(p)
    /\ Deserialized(message) # Refused
    /\ HasConsensus(p[2], message.type)
    /\ handed' = [handed EXCEPT ![p] =
                    Append(@, [type |-> message.type, object |-> Deserialized(message)])]
    /\ UNCHANGED up

(* The consensus is a null pointer, and the process ends. *)
HandToNobody(p) ==
    LET message == Head(wire[p]) IN
    /\ Received(p)
    /\ Deserialized(message) # Refused
    /\ ~HasConsensus(p[2], message.type)
    /\ up' = up \ {p[2]}
    /\ UNCHANGED handed

Next ==
    \/ \E n \in Nodes :
          \/ \E b \in TimeBlocks : BroadcastTimeBlock(n, b)
          \/ \E t \in Transactions : BroadcastTransaction(n, t)
          \/ NoValueBlock(n)
          \/ \E b \in ValueBlocks : BroadcastValueBlock(n, b)
          \/ DrawWithoutTimeChain(n)
    \/ \E p \in Pairs : Refuse(p) \/ Hand(p) \/ HandToNobody(p)

Spec == Init /\ [][Next]_vars

-----------------------------------------------------------------------------
IsTransaction(entry) == entry.type = 3
IsBlock(entry) == entry.type # 3

(* The transactions among what was broadcast or handed over, in order.     *)
TransactionsIn(history) ==
    LET taken[i \in 0..Len(history)] ==
            IF i = 0 THEN <<>>
            ELSE IF IsTransaction(history[i]) THEN Append(taken[i - 1], history[i])
            ELSE taken[i - 1]
    IN taken[Len(history)]

(* What add_transaction is called with are the transactions of the sender, *)
(* field by field, each once and in the order they were made, whatever     *)
(* blocks are sent in between; and a receiver that lives misses none when  *)
(* nothing is on its way any more.                                         *)
TransactionsArrive ==
    \A p \in Pairs :
        LET made == TransactionsIn(sent[p[1]])
            arrived == TransactionsIn(handed[p])
        IN /\ IsPrefix(arrived, made)
           /\ (p[2] \in up /\ wire[p] = <<>>) => arrived = made

(* Whatever roles the other nodes have, no message and no draw ends a node *)
(* that has both chains.                                                   *)
DualNodesSurvive == \A n \in Nodes : Role[n] = "dual" => n \in up

(* handle_incoming_time_block and handle_incoming_value_block: "Handle     *)
(* block": a block that was broadcast reaches the consensus of the         *)
(* receiver.                                                               *)
BlocksArrive ==
    \A p \in Pairs :
        wire[p] = <<>> =>
            SelectSeq(handed[p], IsBlock) = SelectSeq(sent[p[1]], IsBlock)

(* ... and a block that reaches it is one that was broadcast. *)
BlocksAreAuthentic ==
    \A p \in Pairs :
        \A i \in DOMAIN handed[p] :
            IsBlock(handed[p][i]) => handed[p][i] \in ToSet(sent[p[1]])

(* README: "--role <time|value|dual>: Specifies the node's role in the     *)
(* network": a node of any role lives with nodes of any other.             *)
NodesSurvive == up = Nodes
=============================================================================

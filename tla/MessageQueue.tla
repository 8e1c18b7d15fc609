---------------------------- MODULE MessageQueue ----------------------------
(***************************************************************************)
(* What a session promises a producer (NetworkManager::send_data and       *)
(* broadcast_data): a queue in front of a connection.  Messages leave it   *)
(* in the order they were given, each of them once, while the connection   *)
(* holds; once it is gone the queue keeps them, whatever is added.         *)
(* Messages are numbered in the order of the calls.                        *)
(***************************************************************************)
EXTENDS Integers, Sequences

VARIABLES
    waiting,    \* given to the session and not yet written
    delivered,  \* written to the connection
    up          \* writes can still succeed

queueVars == <<waiting, delivered, up>>

QueueInit == waiting = <<>> /\ delivered = <<>> /\ up = TRUE

Give ==
    /\ waiting' = Append(waiting, Len(delivered) + Len(waiting) + 1)
    /\ UNCHANGED <<delivered, up>>

(* The last write of a broken connection may be one that still succeeded. *)
Transmit ==
    /\ up
    /\ waiting # <<>>
    /\ waiting' = Tail(waiting)
    /\ delivered' = Append(delivered, Head(waiting))
    /\ up' \in BOOLEAN

Disconnect ==
    /\ up
    /\ up' = FALSE
    /\ UNCHANGED <<waiting, delivered>>

QueueNext == Give \/ Transmit \/ Disconnect

QueueSpec == QueueInit /\ [][QueueNext]_queueVars
=============================================================================

---------------------------- MODULE PeerSession ----------------------------
(***************************************************************************)
(* The sending half of NetworkManager::PeerSession (network_manager.cpp,   *)
(* do_write and write): a queue of messages of which the first is being    *)
(* written to the socket.                                                  *)
(*                                                                         *)
(* do_write runs on the producer threads, one at a time because            *)
(* broadcast_data and send_data hold peers_mutex_.  The completion handler *)
(* runs on the network thread and takes no lock at all.  The model lets    *)
(* the two take turns at every use of write_queue; each use is atomic,     *)
(* which is the kindest reading of the data race.                          *)
(***************************************************************************)
EXTENDS Integers, Sequences, SequencesExt

CONSTANT MaxMessages  \* bound: calls of do_write

ASSUME MaxMessagesAssumption == MaxMessages \in Nat

VARIABLES
    calls,       \* history: do_write calls so far; messages are numbered by them
    queue,       \* write_queue
    cpc,         \* the caller: "out", or before its "push" or its "start"
    inProgress,  \* the caller's write_in_progress
    inflight,    \* messages of the asynchronous writes that are under way
    iopc,        \* the completion handler: "idle", or before its "test"
    open,        \* the socket has not been closed
    finishing,   \* writes of inflight, the first ones, that succeeded before
                 \* the socket was closed and whose handlers still wait
    sent,        \* history: messages whose write succeeded, in that order
    started,     \* history: messages whose write was begun, in that order
    overlap,     \* history: caller and handler met inside the queue
    broken       \* undefined behaviour has happened: the model ends

vars == <<calls, queue, cpc, inProgress, inflight, iopc, open, finishing,
          sent, started, overlap, broken>>

Messages == 1..MaxMessages

Init ==
    /\ calls = 0
    /\ queue = <<>>
    /\ cpc = "out"
    /\ inProgress = FALSE
    /\ inflight = <<>>
    /\ iopc = "idle"
    /\ open = TRUE
    /\ finishing = 0
    /\ sent = <<>>
    /\ started = <<>>
    /\ overlap = FALSE
    /\ broken = FALSE

-----------------------------------------------------------------------------
(* write(): begin an asynchronous write of the first message of q. *)
Write(q) ==
    IF q = <<>>
    THEN broken' = TRUE /\ UNCHANGED <<inflight, started>>
    ELSE /\ inflight' = Append(inflight, Head(q))
         /\ started' = Append(started, Head(q))
         /\ UNCHANGED broken

(* do_write looks whether the queue is empty ... *)
EnterDoWrite ==
    /\ ~broken
    /\ cpc = "out"
    /\ calls < MaxMessages
    /\ calls' = calls + 1
    /\ inProgress' = (queue # <<>>)
    /\ cpc' = "push"
    /\ overlap' = (overlap \/ iopc # "idle")
    /\ UNCHANGED <<queue, inflight, iopc, open, finishing, sent, started, broken>>

(* A slip the checks must notice: the newest message goes first. *)
PushFront(q, m) == <<m>> \o q

(* A slip the checks must notice: the next message is counted before it comes. *)
PushedTooFar(q, m) == Append(q, m + 1)

(* ... appends the message ... *)
Pushed(q, m) == Append(q, m)

Push ==
    /\ ~broken
    /\ cpc = "push"
    /\ queue' = Pushed(queue, calls)
    /\ cpc' = IF inProgress THEN "out" ELSE "start"
    /\ UNCHANGED <<calls, inProgress, inflight, iopc, open, finishing, sent, started,
                   overlap, broken>>

(* ... and begins to write when there was nothing to write before. *)
StartWriting ==
    /\ ~broken
    /\ cpc = "start"
    /\ Write(queue)
    /\ cpc' = "out"
    /\ UNCHANGED <<calls, queue, inProgress, iopc, open, finishing, sent, overlap>>

(* Popping the queue while the writes of ws go on is undefined when there  *)
(* is nothing to pop, or when a write reads from the message that is freed.*)
UnsafePop(ws) == queue = <<>> \/ ~(ToSet(ws) \subseteq ToSet(Tail(queue)))

(* The completion handler of the i-th write under way, without an error:   *)
(* the first message leaves the queue.                                     *)
Written(i) ==
    /\ ~broken
    /\ iopc = "idle"
    /\ open \/ i <= finishing
    /\ finishing' = IF i <= finishing THEN finishing - 1 ELSE finishing
    /\ sent' = Append(sent, inflight[i])
    /\ inflight' = RemoveAt(inflight, i)
    /\ broken' = UnsafePop(inflight')
    /\ queue' = IF queue = <<>> THEN queue ELSE Tail(queue)
    /\ iopc' = "test"
    /\ overlap' = (overlap \/ cpc # "out")
    /\ UNCHANGED <<calls, cpc, inProgress, open, started>>

(* A slip the checks must notice: the handler does not look for more. *)
StopAfterOne ==
    /\ ~broken
    /\ iopc = "test"
    /\ iopc' = "idle"
    /\ UNCHANGED <<calls, queue, cpc, inProgress, inflight, started, broken, open,
                   finishing, sent, overlap>>

(* The rest of the handler: write on while there is more. *)
TestForMore ==
    /\ ~broken
    /\ iopc = "test"
    /\ IF queue # <<>> THEN Write(queue) ELSE UNCHANGED <<inflight, started, broken>>
    /\ iopc' = "idle"
    /\ UNCHANGED <<calls, queue, cpc, inProgress, open, finishing, sent, overlap>>

(* socket.close() ends every write under way; the handlers of some may be *)
(* waiting to run with a success already.                                  *)
CloseSocket ==
    /\ open' = FALSE
    /\ IF open THEN finishing' \in 0..Len(inflight') ELSE UNCHANGED finishing

(* A slip the checks must notice: the message that failed leaves the queue.*)
WriteErrorPops(i) ==
    /\ ~broken
    /\ iopc = "idle"
    /\ i > finishing
    /\ inflight' = RemoveAt(inflight, i)
    /\ queue' = Tail(queue)
    /\ CloseSocket
    /\ UNCHANGED <<calls, cpc, inProgress, iopc, sent, started, overlap, broken>>

(* The completion handler with an error: the connection is gone, or was    *)
(* closed by an earlier error.  The queue is left as it is, and the session*)
(* stays among the peers.                                                  *)
WriteError(i) ==
    /\ ~broken
    /\ iopc = "idle"
    /\ i > finishing
    /\ inflight' = RemoveAt(inflight, i)
    /\ CloseSocket
    /\ UNCHANGED <<calls, queue, cpc, inProgress, iopc, sent, started, overlap, broken>>

(* read() met the end of the connection. *)
ReadError ==
    /\ ~broken
    /\ iopc = "idle"
    /\ open
    /\ UNCHANGED <<calls, queue, cpc, inProgress, inflight, iopc, sent, started,
                   overlap, broken>>
    /\ CloseSocket

Caller == EnterDoWrite \/ Push \/ StartWriting

Handler == (\E i \in DOMAIN inflight : Written(i)) \/ TestForMore

Failure == (\E i \in DOMAIN inflight : WriteError(i)) \/ ReadError

Next == Caller \/ Handler \/ Failure

Spec == Init /\ [][Next]_vars

(* Calls return and handlers run; the peer reads what is written to it.    *)
Fairness ==
    /\ WF_vars(Push \/ StartWriting)
    /\ WF_vars(Handler)

FairSpec == Spec /\ Fairness
-----------------------------------------------------------------------------
TypeOK ==
    /\ calls \in 0..MaxMessages
    /\ queue \in Seq(Messages)
    /\ cpc \in {"out", "push", "start"}
    /\ inProgress \in BOOLEAN
    /\ inflight \in Seq(Messages)
    /\ iopc \in {"idle", "test"}
    /\ open \in BOOLEAN
    /\ finishing \in Nat
    /\ sent \in Seq(Messages)
    /\ started \in Seq(Messages)
    /\ overlap \in BOOLEAN
    /\ broken \in BOOLEAN

(* Even when caller and handler meet in the queue, no message is begun     *)
(* before one that was given to do_write earlier, though the same one may  *)
(* be begun twice and another one never.                                   *)
StartedInOrder ==
    \A i, j \in DOMAIN started : i < j => started[i] <= started[j]

Queued == IF cpc = "push" THEN 1..(calls - 1) ELSE 1..calls

(* As long as the two do not meet, the session is a queue: what was sent   *)
(* and what is waiting are together the messages in the order of the calls,*)
(* each of them once, and the first that waits is the one being written.   *)
FifoWithoutOverlap ==
    ~overlap =>
        /\ ~broken
        /\ sent \o queue = [m \in Queued |-> m]
        /\ open /\ queue # <<>> /\ cpc # "start" /\ iopc = "idle"
               => inflight = <<Head(queue)>>

(* As long as the two do not meet, every step of do_write and of the       *)
(* handlers is a step of MessageQueue or none at all: a message is never   *)
(* lost or doubled, and the queue of a connection that is gone only grows. *)
ABS == INSTANCE MessageQueue
       WITH waiting <- queue, delivered <- sent, up <- (open \/ finishing > 0)

ImplementsQueueWithoutOverlap ==
    ABS!QueueInit /\ [][overlap' \/ ABS!QueueNext \/ UNCHANGED ABS!queueVars]_vars

(* ... and then every message is sent, unless the connection breaks.       *)
SentWithoutOverlap ==
    [](open /\ ~overlap) =>
        \A m \in Messages : (calls >= m) ~> (m \in Range(sent))

(* README, Networking Module: the manager "Handles peer connections, data  *)
(* transmission, and message handling": what is given to a session whose   *)
(* connection holds is transmitted.                                        *)
EverythingSent ==
    []open => \A m \in Messages : (calls >= m) ~> (m \in Range(sent))
=============================================================================

------------------------- MODULE PeerSession_proofs -------------------------
(***************************************************************************)
(* Proofs about PeerSession, for any number of calls of do_write: its type *)
(* invariant, that writes are begun in the order of the calls whatever the *)
(* two threads do, and that the session is a queue as long as they do not  *)
(* meet.                                                                   *)
(***************************************************************************)
EXTENDS PeerSession, SequenceTheorems, TLAPS

LEMMA RemoveAtTyped ==
    ASSUME NEW S, NEW s \in Seq(S), NEW i \in DOMAIN s
    PROVE  RemoveAt(s, i) \in Seq(S) /\ Len(RemoveAt(s, i)) = Len(s) - 1
<1>1. SubSeq(s, 1, i - 1) \in Seq(S) /\ Len(SubSeq(s, 1, i - 1)) = i - 1
  OBVIOUS
<1>2. SubSeq(s, i + 1, Len(s)) \in Seq(S) /\ Len(SubSeq(s, i + 1, Len(s))) = Len(s) - i
  OBVIOUS
<1>3. (i - 1) + (Len(s) - i) = Len(s) - 1
  OBVIOUS
<1> DEFINE front == SubSeq(s, 1, i - 1)
           back == SubSeq(s, i + 1, Len(s))
<1>4. front \in Seq(S) /\ back \in Seq(S)
  BY <1>1, <1>2
<1> HIDE DEF front, back
<1>5. front \o back \in Seq(S) /\ Len(front \o back) = Len(front) + Len(back)
  BY <1>4
<1> QED
  BY <1>1, <1>2, <1>3, <1>5 DEF RemoveAt, front, back

TypeInv ==
    /\ TypeOK
    /\ cpc = "push" => calls >= 1
    /\ finishing <= Len(inflight)

LEMMA WriteTyped ==
    ASSUME TypeOK, Write(queue)
    PROVE  /\ inflight' \in Seq(Messages) /\ Len(inflight') >= Len(inflight)
           /\ started' \in Seq(Messages) /\ broken' \in BOOLEAN
<1>1. CASE queue = <<>>
  BY <1>1 DEF TypeOK, Write
<1>2. CASE queue # <<>>
  <2>1. Head(queue) \in Messages
    BY <1>2 DEF TypeOK
  <2>2. inflight' = Append(inflight, Head(queue)) /\ started' = Append(started, Head(queue))
    BY <1>2 DEF Write
  <2>3. inflight \in Seq(Messages) /\ started \in Seq(Messages) /\ broken' \in BOOLEAN
    BY <1>2 DEF TypeOK, Write
  <2>4. inflight' \in Seq(Messages) /\ Len(inflight') = Len(inflight) + 1
    BY <2>1, <2>2, <2>3
  <2>5. started' \in Seq(Messages)
    BY <2>1, <2>2, <2>3
  <2>6. Len(inflight) \in Nat
    BY <2>3
  <2> QED
    BY <2>3, <2>4, <2>5, <2>6
<1> QED
  BY <1>1, <1>2

LEMMA TypeInvHolds == Spec => []TypeInv
<1>1. Init => TypeInv
  <2>1. <<>> \in Seq(Messages) /\ Len(<<>>) = 0
    OBVIOUS
  <2>2. Init => calls \in 0..MaxMessages /\ finishing \in Nat
    BY MaxMessagesAssumption DEF Init
  <2>3. Init => finishing <= Len(inflight)
    BY <2>1 DEF Init
  <2> QED
    BY <2>1, <2>2, <2>3 DEF Init, TypeInv, TypeOK
<1>2. TypeInv /\ [Next]_vars => TypeInv'
  <2> SUFFICES ASSUME TypeInv, [Next]_vars
               PROVE  TypeInv'
    OBVIOUS
  <2> USE MaxMessagesAssumption DEF TypeInv, TypeOK
  <2>1. CASE EnterDoWrite
    BY <2>1 DEF EnterDoWrite
  <2>2. CASE Push
    <3>1. calls \in Messages
      BY <2>2 DEF Push, Messages
    <3>2. queue' \in Seq(Messages)
      BY <2>2, <3>1 DEF Push, Pushed
    <3> QED
      BY <2>2, <3>2 DEF Push
  <2>3. CASE StartWriting
    <3>1. /\ inflight' \in Seq(Messages) /\ Len(inflight') >= Len(inflight)
          /\ started' \in Seq(Messages) /\ broken' \in BOOLEAN
      BY <2>3, WriteTyped DEF StartWriting
    <3> QED
      BY <2>3, <3>1 DEF StartWriting
  <2>4. ASSUME NEW i \in DOMAIN inflight, Written(i)
        PROVE  TypeInv'
    <3>1. inflight' \in Seq(Messages) /\ Len(inflight') = Len(inflight) - 1
      BY <2>4, RemoveAtTyped DEF Written
    <3>2. queue' \in Seq(Messages)
      <4>1. queue # <<>> => Tail(queue) \in Seq(Messages)
        OBVIOUS
      <4> QED
        BY <2>4, <4>1 DEF Written
    <3>3. finishing' \in Nat /\ finishing' <= Len(inflight')
      BY <2>4, <3>1 DEF Written
    <3>4. broken' \in BOOLEAN
      BY <2>4 DEF Written, UnsafePop
    <3>5. sent' \in Seq(Messages)
      BY <2>4 DEF Written
    <3> QED
      BY <2>4, <3>1, <3>2, <3>3, <3>4, <3>5 DEF Written
  <2>5. CASE TestForMore
    <3>1. /\ inflight' \in Seq(Messages) /\ Len(inflight') >= Len(inflight)
          /\ started' \in Seq(Messages) /\ broken' \in BOOLEAN
      BY <2>5, WriteTyped DEF TestForMore
    <3> QED
      BY <2>5, <3>1 DEF TestForMore
  <2>6. ASSUME NEW i \in DOMAIN inflight, WriteError(i)
        PROVE  TypeInv'
    <3>1. inflight' \in Seq(Messages) /\ Len(inflight') = Len(inflight) - 1
      BY <2>6, RemoveAtTyped DEF WriteError
    <3>2. finishing' \in Nat /\ finishing' <= Len(inflight')
      <4>1. i \in Nat /\ i <= Len(inflight) /\ finishing < i
        BY <2>6 DEF WriteError
      <4>2. CASE open
        BY <2>6, <4>2, <3>1 DEF WriteError, CloseSocket
      <4>3. CASE ~open
        BY <2>6, <4>1, <4>3, <3>1 DEF WriteError, CloseSocket
      <4> QED
        BY <4>2, <4>3
    <3> QED
      BY <2>6, <3>1, <3>2 DEF WriteError, CloseSocket
  <2>7. CASE ReadError
    <3>1. Len(inflight) \in Nat /\ finishing' \in 0..Len(inflight) /\ inflight' = inflight
      BY <2>7 DEF ReadError, CloseSocket
    <3>2. finishing' \in Nat /\ finishing' <= Len(inflight')
      BY <3>1
    <3> QED
      BY <2>7, <3>2 DEF ReadError, CloseSocket
  <2>8. CASE UNCHANGED vars
    BY <2>8 DEF vars
  <2> QED
    BY <2>1, <2>2, <2>3, <2>4, <2>5, <2>6, <2>7, <2>8 DEF Next, Caller, Handler, Failure
<1> QED
  BY <1>1, <1>2, PTL DEF Spec

(* Every variable has its type. *)
THEOREM Typing == Spec => []TypeOK
  BY TypeInvHolds, PTL DEF TypeInv

-----------------------------------------------------------------------------
(* What StartedInOrder needs: the queue is in order, and nothing was begun *)
(* that is younger than a message in the queue.                            *)
OrderInv ==
    /\ StartedInOrder
    /\ \A j, k \in DOMAIN queue : j <= k => queue[j] <= queue[k]
    /\ \A i \in DOMAIN started, k \in DOMAIN queue : started[i] <= queue[k]
    /\ \A k \in DOMAIN queue : queue[k] <= calls
    /\ \A i \in DOMAIN started : started[i] <= calls

LEMMA WriteKeepsOrder ==
    ASSUME TypeInv, OrderInv, Write(queue), UNCHANGED <<queue, calls>>
    PROVE  OrderInv'
<1> USE DEF TypeInv, TypeOK, Messages, OrderInv, StartedInOrder
<1>1. CASE queue = <<>>
  BY <1>1 DEF Write
<1>2. CASE queue # <<>>
  <2>1. started' = Append(started, queue[1]) /\ 1 \in DOMAIN queue
    BY <1>2 DEF Write
  <2>2. /\ DOMAIN started' = 1..(Len(started) + 1)
        /\ \A i \in DOMAIN started : started'[i] = started[i]
        /\ started'[Len(started) + 1] = queue[1]
    BY <2>1
  <2>3. \A i \in DOMAIN started' : i \in DOMAIN started \/ i = Len(started) + 1
    BY <2>2
  <2>5. StartedInOrder'
    BY <2>1, <2>2, <2>3
  <2>6. \A i \in DOMAIN started', k \in DOMAIN queue : started'[i] <= queue[k]
    BY <2>1, <2>2, <2>3
  <2>7. \A i \in DOMAIN started' : started'[i] <= calls
    BY <2>1, <2>2, <2>3
  <2> QED
    BY <2>5, <2>6, <2>7
<1> QED
  BY <1>1, <1>2

(* Writes are begun in the order of the calls of do_write, also when a     *)
(* completion handler runs inside do_write.                                *)
THEOREM StartsInOrder == Spec => []StartedInOrder
<1>1. Init => OrderInv
  BY DEF Init, OrderInv, StartedInOrder
<1>2. TypeInv /\ OrderInv /\ [Next]_vars => OrderInv'
  <2> SUFFICES ASSUME TypeInv, OrderInv, [Next]_vars
               PROVE  OrderInv'
    OBVIOUS
  <2>1. CASE EnterDoWrite
    <3>1. calls' = calls + 1 /\ UNCHANGED <<queue, started>>
      BY <2>1 DEF EnterDoWrite
    <3>2. /\ calls \in Nat
          /\ \A k \in DOMAIN queue : queue[k] \in Int
          /\ \A i \in DOMAIN started : started[i] \in Int
      <4>1. \A m \in Messages : m \in Int
        BY DEF Messages
      <4>2. /\ \A k \in DOMAIN queue : queue[k] \in Messages
            /\ \A i \in DOMAIN started : started[i] \in Messages
        BY DEF TypeInv, TypeOK
      <4>3. calls \in Nat
        BY MaxMessagesAssumption DEF TypeInv, TypeOK
      <4> QED
        BY <4>1, <4>2, <4>3
    <3> QED
      BY <3>1, <3>2 DEF OrderInv, StartedInOrder
  <2>2. CASE Push
    <3>1. queue' = Append(queue, calls) /\ UNCHANGED <<started, calls>>
      BY <2>2 DEF Push, Pushed
    <3>2. /\ DOMAIN queue' = 1..(Len(queue) + 1)
          /\ \A k \in DOMAIN queue : queue'[k] = queue[k]
          /\ queue'[Len(queue) + 1] = calls
      BY <3>1 DEF TypeInv, TypeOK
    <3>3. \A k \in DOMAIN queue' : k \in DOMAIN queue \/ k = Len(queue) + 1
      BY <3>2 DEF TypeInv, TypeOK
    <3> QED
      BY <3>1, <3>2, <3>3 DEF OrderInv, StartedInOrder, TypeInv, TypeOK, Messages
  <2>3. CASE StartWriting
    BY <2>3, WriteKeepsOrder DEF StartWriting
  <2>4. ASSUME NEW i \in DOMAIN inflight, Written(i)
        PROVE  OrderInv'
    <3>1. CASE queue = <<>>
      BY <2>4, <3>1 DEF Written, OrderInv, StartedInOrder
    <3>2. CASE queue # <<>>
      <4>1. queue' = Tail(queue) /\ UNCHANGED <<started, calls>>
        BY <2>4, <3>2 DEF Written
      <4>2. \A k \in DOMAIN queue' : k + 1 \in DOMAIN queue /\ queue'[k] = queue[k + 1]
        BY <4>1, <3>2 DEF TypeInv, TypeOK
      <4>3. \A k \in DOMAIN queue' : k \in Int
        BY <4>1, <3>2 DEF TypeInv, TypeOK
      <4> QED
        BY <4>1, <4>2, <4>3 DEF OrderInv, StartedInOrder
    <3> QED
      BY <3>1, <3>2
  <2>5. CASE TestForMore
    <3>1. CASE queue # <<>>
      BY <2>5, <3>1, WriteKeepsOrder DEF TestForMore
    <3>2. CASE queue = <<>>
      BY <2>5, <3>2 DEF TestForMore, OrderInv, StartedInOrder
    <3> QED
      BY <3>1, <3>2
  <2>6. ASSUME NEW i \in DOMAIN inflight, WriteError(i)
        PROVE  OrderInv'
    BY <2>6 DEF WriteError, OrderInv, StartedInOrder
  <2>7. CASE ReadError
    BY <2>7 DEF ReadError, OrderInv, StartedInOrder
  <2>8. CASE UNCHANGED vars
    BY <2>8 DEF vars, OrderInv, StartedInOrder
  <2> QED
    BY <2>1, <2>2, <2>3, <2>4, <2>5, <2>6, <2>7, <2>8 DEF Next, Caller, Handler, Failure
<1> QED
  BY <1>1, <1>2, TypeInvHolds, PTL DEF Spec, OrderInv
-----------------------------------------------------------------------------
(* While caller and handler have not met, one of them at most is at work,  *)
(* and the write under way is that of the first message that waits.        *)
Apart ==
    /\ ~broken
    /\ iopc = "test" => cpc = "out" /\ inflight = <<>>
    /\ cpc = "push" => (inProgress <=> queue # <<>>)
    /\ cpc = "start" => Len(queue) = 1 /\ inflight = <<>>
    /\ inflight # <<>> => queue # <<>> /\ inflight = <<Head(queue)>>
    /\ open /\ queue # <<>> /\ cpc # "start" /\ iopc = "idle"
           => inflight = <<Head(queue)>>

(* ... and the messages are numbered through.                              *)
Given == IF cpc = "push" THEN calls - 1 ELSE calls

Numbered ==
    /\ Len(sent) + Len(queue) = Given
    /\ \A i \in 1..Len(sent) : sent[i] = i
    /\ \A i \in 1..Len(queue) : queue[i] = Len(sent) + i

FifoInv == ~overlap => Apart /\ Numbered

LEMMA HeadWritten ==
    ASSUME TypeOK, Write(queue), queue # <<>>, inflight = <<>>
    PROVE  inflight' = <<Head(queue)>> /\ broken' = broken
<1>1. inflight' = Append(<<>>, Head(queue)) /\ broken' = broken
  BY DEF Write
<1>2. \A x : Append(<<>>, x) = <<x>>
  OBVIOUS
<1> QED
  BY <1>1, <1>2

(* A completion handler that finds the threads apart takes the first       *)
(* message from the queue, and it is the one that was written.             *)
LEMMA WrittenTakesHead ==
    ASSUME TypeInv, Apart, NEW i \in DOMAIN inflight, Written(i)
    PROVE  /\ queue # <<>> /\ queue' = Tail(queue)
           /\ sent' = Append(sent, Head(queue))
           /\ inflight' = <<>> /\ ~broken'
<1>1. inflight = <<Head(queue)>> /\ queue # <<>>
  BY DEF Apart
<1>2. i = 1
  BY <1>1
<1>3. inflight[i] = Head(queue)
  BY <1>1, <1>2
<1>4. inflight' = <<>>
  <2>1. Len(inflight') = 0 /\ inflight' \in Seq(Messages)
    <3>1. inflight \in Seq(Messages) /\ Len(inflight) = 1
      BY <1>1 DEF TypeInv, TypeOK
    <3> QED
      BY <3>1, RemoveAtTyped DEF Written
  <2> QED
    BY <2>1
<1>5. ToSet(inflight') = {}
  BY <1>4 DEF ToSet
<1>6. ~UnsafePop(inflight')
  BY <1>1, <1>5 DEF UnsafePop
<1> QED
  BY <1>1, <1>3, <1>4, <1>6 DEF Written

LEMMA FifoStep ==
    ASSUME TypeInv, FifoInv, [Next]_vars
    PROVE  FifoInv'
<1> SUFFICES ASSUME ~overlap' PROVE Apart' /\ Numbered'
  BY DEF FifoInv
<1>1. ~overlap
  BY DEF Next, Caller, Handler, Failure, EnterDoWrite, Push, StartWriting, Written,
         TestForMore, WriteError, ReadError, vars
<1>2. Apart /\ Numbered
  BY <1>1 DEF FifoInv
<1>3. /\ calls \in Nat /\ queue \in Seq(Messages) /\ sent \in Seq(Messages)
      /\ Len(queue) \in Nat /\ Len(sent) \in Nat
  BY MaxMessagesAssumption DEF TypeInv, TypeOK
<1>4. CASE EnterDoWrite
  <2>1. iopc = "idle"
    BY <1>4 DEF EnterDoWrite
  <2>2. Apart'
    BY <1>2, <1>4, <2>1 DEF Apart, EnterDoWrite
  <2>3. Numbered'
    BY <1>2, <1>3, <1>4 DEF Numbered, Given, EnterDoWrite
  <2> QED
    BY <2>2, <2>3
<1>5. CASE Push
  <2>1. /\ queue' = Append(queue, calls) /\ Len(queue') = Len(queue) + 1
        /\ UNCHANGED <<calls, inflight, iopc, sent, open, broken>>
    BY <1>3, <1>5 DEF Push, Pushed
  <2>2. \A i \in 1..(Len(queue) + 1) :
            queue'[i] = IF i <= Len(queue) THEN queue[i] ELSE calls
    BY <1>3, <2>1
  <2>3. iopc = "idle"
    BY <1>2, <1>5 DEF Apart, Push, TypeInv, TypeOK
  <2>4. Numbered'
    <3>1. Len(sent) + Len(queue) = calls - 1 /\ Given' = calls
      BY <1>2, <1>5, <2>1 DEF Numbered, Given, Push
    <3>2. Len(sent') + Len(queue') = Given'
      BY <1>3, <2>1, <3>1
    <3>3. calls = Len(sent) + Len(queue) + 1
      BY <1>3, <3>1
    <3>4. \A i \in 1..Len(queue') : queue'[i] = Len(sent) + i
      <4> SUFFICES ASSUME NEW i \in 1..(Len(queue) + 1)
                   PROVE  queue'[i] = Len(sent) + i
        BY <2>1
      <4>1. CASE i <= Len(queue)
        BY <1>2, <1>3, <2>2, <4>1 DEF Numbered
      <4>2. CASE i = Len(queue) + 1
        BY <1>3, <2>2, <3>3, <4>2
      <4> QED
        BY <1>3, <4>1, <4>2
    <3> QED
      BY <1>2, <2>1, <3>2, <3>4 DEF Numbered
  <2>5. CASE queue = <<>>
    <3>1. Len(queue') = 1
      <4>1. Len(<<>>) = 0
        OBVIOUS
      <4> QED
        BY <2>1, <2>5, <4>1
    <3>2. ~inProgress /\ inflight = <<>>
      BY <1>2, <1>5, <2>5 DEF Apart, Push
    <3>3. cpc' = "start" /\ inflight' = <<>> /\ iopc' = "idle" /\ ~broken'
      BY <1>5, <2>1, <2>3, <3>2 DEF Push
    <3> QED
      BY <2>4, <3>1, <3>3 DEF Apart
  <2>6. CASE queue # <<>>
    <3>1. Head(queue') = Head(queue) /\ queue' # <<>>
      BY <1>3, <2>1, <2>6
    <3> QED
      BY <1>2, <1>5, <2>1, <2>3, <2>4, <2>6, <3>1 DEF Apart, Push
  <2> QED
    BY <2>4, <2>5, <2>6
<1>6. CASE StartWriting
  <2>1. queue # <<>> /\ inflight = <<>>
    <3>1. Len(<<>>) = 0
      OBVIOUS
    <3> QED
      BY <1>2, <3>1, <1>6 DEF Apart, StartWriting
  <2>2. inflight' = <<Head(queue)>> /\ ~broken'
    BY <1>2, <1>6, <2>1, HeadWritten DEF StartWriting, TypeInv, Apart
  <2>3. Apart'
    BY <1>2, <1>6, <2>1, <2>2 DEF Apart, StartWriting
  <2>4. Numbered'
    BY <1>2, <1>6 DEF Numbered, Given, StartWriting
  <2> QED
    BY <2>3, <2>4
<1>7. ASSUME NEW i \in DOMAIN inflight, Written(i)
      PROVE  Apart' /\ Numbered'
  <2>1. cpc = "out"
    BY <1>7 DEF Written
  <2>2. /\ queue # <<>> /\ queue' = Tail(queue)
        /\ sent' = Append(sent, Head(queue))
        /\ inflight' = <<>> /\ ~broken'
    BY <1>2, <1>7, WrittenTakesHead
  <2>3. Apart'
    BY <1>7, <2>1, <2>2 DEF Apart, Written
  <2>4. /\ Len(queue) >= 1 /\ Head(queue) = queue[1]
        /\ Len(queue') = Len(queue) - 1 /\ \A k \in 1..(Len(queue) - 1) : queue'[k] = queue[k + 1]
    BY <1>3, <2>2
  <2>5. /\ Len(sent') = Len(sent) + 1
        /\ \A k \in 1..(Len(sent) + 1) : sent'[k] = IF k <= Len(sent) THEN sent[k] ELSE queue[1]
    BY <1>3, <2>2, <2>4
  <2>6. Given' = Given
    BY <1>7 DEF Given, Written
  <2>7. Numbered'
    <3>1. Len(sent') + Len(queue') = Given'
      BY <1>2, <1>3, <2>4, <2>5, <2>6 DEF Numbered
    <3>2. queue[1] = Len(sent) + 1
      BY <1>2, <1>3, <2>4 DEF Numbered
    <3>3. \A k \in 1..Len(sent') : sent'[k] = k
      <4> SUFFICES ASSUME NEW k \in 1..(Len(sent) + 1)
                   PROVE  sent'[k] = k
        BY <2>5
      <4>1. CASE k <= Len(sent)
        BY <1>2, <1>3, <2>5, <4>1 DEF Numbered
      <4>2. CASE k = Len(sent) + 1
        BY <1>3, <2>5, <3>2, <4>2
      <4> QED
        BY <1>3, <4>1, <4>2
    <3>4. \A k \in 1..Len(queue') : queue'[k] = Len(sent') + k
      <4> SUFFICES ASSUME NEW k \in 1..(Len(queue) - 1)
                   PROVE  queue'[k] = Len(sent) + 1 + k
        BY <2>4, <2>5
      <4>1. k + 1 \in 1..Len(queue) /\ queue'[k] = queue[k + 1]
        BY <1>3, <2>4
      <4>2. queue[k + 1] = Len(sent) + (k + 1)
        BY <1>2, <4>1 DEF Numbered
      <4> QED
        BY <1>3, <4>1, <4>2
    <3> QED
      BY <3>1, <3>3, <3>4 DEF Numbered
  <2> QED
    BY <2>3, <2>7
<1>8. CASE TestForMore
  <2>1. inflight = <<>> /\ cpc = "out" /\ ~broken
    BY <1>2, <1>8 DEF Apart, TestForMore
  <2>2. Apart'
    <3>1. CASE queue = <<>>
      BY <1>8, <2>1, <3>1 DEF Apart, TestForMore
    <3>2. CASE queue # <<>>
      BY <1>8, <2>1, <3>2, HeadWritten DEF Apart, TestForMore, TypeInv
    <3> QED
      BY <3>1, <3>2
  <2>3. Numbered'
    BY <1>2, <1>8 DEF Numbered, Given, TestForMore
  <2> QED
    BY <2>2, <2>3
<1>9. ASSUME NEW i \in DOMAIN inflight, WriteError(i)
      PROVE  Apart' /\ Numbered'
  <2>1. inflight' = <<>>
    <3>1. inflight \in Seq(Messages) /\ Len(inflight) = 1
      <4>1. inflight = <<Head(queue)>>
        BY <1>2, <1>9 DEF Apart
      <4> QED
        BY <4>1 DEF TypeInv, TypeOK
    <3>2. Len(inflight') = 0 /\ inflight' \in Seq(Messages)
      BY <1>9, <3>1, RemoveAtTyped DEF WriteError
    <3> QED
      BY <3>2
  <2>2. Apart'
    BY <1>2, <1>9, <2>1 DEF Apart, WriteError, CloseSocket
  <2>3. Numbered'
    BY <1>2, <1>9 DEF Numbered, Given, WriteError
  <2> QED
    BY <2>2, <2>3
<1>10. CASE ReadError
  BY <1>2, <1>10 DEF Apart, Numbered, Given, ReadError, CloseSocket
<1>11. CASE UNCHANGED vars
  BY <1>2, <1>11 DEF Apart, Numbered, Given, vars
<1> QED
  BY <1>4, <1>5, <1>6, <1>7, <1>8, <1>9, <1>10, <1>11 DEF Next, Caller, Handler, Failure

LEMMA FifoInvHolds == Spec => []FifoInv
<1>1. Init => FifoInv
  <2>1. Len(<<>>) = 0
    OBVIOUS
  <2> QED
    BY <2>1 DEF Init, FifoInv, Apart, Numbered, Given
<1> QED
  BY <1>1, FifoStep, TypeInvHolds, PTL DEF Spec

(* As long as caller and handler do not meet, what was sent and what waits *)
(* are the messages in the order of the calls, each of them once, and the  *)
(* first that waits is the one being written.                              *)
THEOREM Fifo == Spec => []FifoWithoutOverlap
<1>1. TypeInv /\ FifoInv => FifoWithoutOverlap
  <2> SUFFICES ASSUME TypeInv, Apart, Numbered
               PROVE  sent \o queue = [m \in Queued |-> m]
    BY DEF FifoInv, FifoWithoutOverlap, Apart
  <2>1. sent \in Seq(Messages) /\ queue \in Seq(Messages) /\ calls \in Nat
    BY MaxMessagesAssumption DEF TypeInv, TypeOK
  <2>2. Queued = 1..(Len(sent) + Len(queue))
    BY DEF Queued, Numbered, Given
  <2>3. /\ sent \o queue \in Seq(Messages)
        /\ Len(sent \o queue) = Len(sent) + Len(queue)
        /\ \A i \in 1..(Len(sent) + Len(queue)) : (sent \o queue)[i] =
               IF i <= Len(sent) THEN sent[i] ELSE queue[i - Len(sent)]
    BY <2>1
  <2>4. \A i \in 1..(Len(sent) + Len(queue)) : (sent \o queue)[i] = i
    BY <2>1, <2>3 DEF Numbered
  <2>5. DOMAIN (sent \o queue) = Queued
    BY <2>2, <2>3
  <2> DEFINE all == sent \o queue
  <2>6. all \in [Queued -> Messages] /\ \A m \in Queued : all[m] = m
    <3>1. all \in Seq(Messages) /\ DOMAIN all = Queued
      BY <2>3, <2>5
    <3> HIDE DEF all
    <3>2. all \in [DOMAIN all -> Messages]
      BY <3>1
    <3> QED
      BY <2>2, <2>4, <3>1, <3>2 DEF all
  <2> HIDE DEF all
  <2>7. all = [m \in Queued |-> m]
    BY <2>6
  <2> QED
    BY <2>7 DEF all
<1> QED
  BY <1>1, TypeInvHolds, FifoInvHolds, PTL

(* ... and every step is one of MessageQueue or none.                      *)
THEOREM Refinement == Spec => ImplementsQueueWithoutOverlap
<1> USE DEF ABS!queueVars
<1>1. Init => ABS!QueueInit
  BY DEF Init, ABS!QueueInit
<1>2. TypeInv /\ FifoInv /\ [Next]_vars
        => overlap' \/ ABS!QueueNext \/ UNCHANGED ABS!queueVars
  <2> SUFFICES ASSUME TypeInv, FifoInv, [Next]_vars, ~overlap'
               PROVE  ABS!QueueNext \/ UNCHANGED ABS!queueVars
    OBVIOUS
  <2>1. Apart /\ Numbered
    BY DEF FifoInv, Next, Caller, Handler, Failure, EnterDoWrite, Push, StartWriting,
           Written, TestForMore, WriteError, ReadError, vars
  <2>2. finishing \in Nat /\ calls \in Nat
    BY MaxMessagesAssumption DEF TypeInv, TypeOK
  <2>3. CASE EnterDoWrite \/ StartWriting \/ TestForMore \/ UNCHANGED vars
    BY <2>3 DEF EnterDoWrite, StartWriting, TestForMore, vars
  <2>4. CASE Push
    <3>1. queue' = Append(queue, calls) /\ UNCHANGED <<sent, open, finishing>>
      BY <2>4 DEF Push, Pushed
    <3>2. calls = Len(sent) + Len(queue) + 1
      BY <2>1, <2>2, <2>4 DEF Numbered, Given, Push, TypeInv, TypeOK
    <3> QED
      BY <3>1, <3>2 DEF ABS!QueueNext, ABS!Give
  <2>5. ASSUME NEW i \in DOMAIN inflight, Written(i)
        PROVE  ABS!QueueNext
    <3>1. /\ queue # <<>> /\ queue' = Tail(queue)
          /\ sent' = Append(sent, Head(queue))
      BY <2>1, <2>5, WrittenTakesHead
    <3>2. open \/ finishing > 0
      BY <2>2, <2>5 DEF Written
    <3> QED
      BY <3>1, <3>2 DEF ABS!QueueNext, ABS!Transmit
  <2>6. CASE (\E i \in DOMAIN inflight : WriteError(i)) \/ ReadError
    <3>1. UNCHANGED <<queue, sent>> /\ CloseSocket
      BY <2>6 DEF WriteError, ReadError
    <3>2. CASE open
      BY <3>1, <3>2 DEF CloseSocket, ABS!QueueNext, ABS!Disconnect
    <3>3. CASE ~open
      BY <3>1, <3>3 DEF CloseSocket, TypeInv, TypeOK
    <3> QED
      BY <3>2, <3>3 DEF TypeInv, TypeOK
  <2> QED
    BY <2>3, <2>4, <2>5, <2>6 DEF Next, Caller, Handler, Failure
<1> QED
  BY <1>1, <1>2, TypeInvHolds, FifoInvHolds, PTL DEF Spec, ImplementsQueueWithoutOverlap
=============================================================================

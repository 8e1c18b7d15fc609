--------------------------- MODULE MessageFraming ---------------------------
(***************************************************************************)
(* How messages travel between two nodes: a producer puts a length header  *)
(* before every message (node.cpp, run_time_chain_loop and its siblings),  *)
(* TCP delivers the bytes in pieces, and Node::handle_incoming_data puts   *)
(* the messages together again.                                            *)
(*                                                                         *)
(* Numbers are scaled: a byte is a digit of base Base and a header has     *)
(* HeaderSize digits where the code has 256 and 4.  The arithmetic is that *)
(* of the code: lengths, and the sum of a length and the size of a header, *)
(* wrap at Word = Base^HeaderSize as uint32_t does at 2^32.                *)
(***************************************************************************)
EXTENDS Integers, Sequences, FiniteSets, Functions, SequencesExt

CONSTANTS
    Sessions,      \* connections to the receiver from one address, at the
                   \* same time or one after the other
    Messages,      \* what may be sent: sequences of bytes, the first the type
    Base,          \* values of a byte
    HeaderSize,    \* bytes of the length header
    LittleEndian,  \* the byte order of the receiving host
    ReadSize,      \* bytes a read returns at most (1024 in PeerSession::read)
    MaxSent,       \* bound: messages sent
    MaxCloses      \* bound: connections that end

Byte == 0..(Base - 1)

Power[k \in 0..HeaderSize] == IF k = 0 THEN 1 ELSE Power[k - 1] * Base

Word == Power[HeaderSize]   \* lengths are taken modulo Word

ASSUME SizeAssumption ==
    /\ Base \in Nat \ {0, 1}
    /\ HeaderSize \in Nat \ {0}
    /\ ReadSize \in Nat \ {0}
    /\ MaxSent \in Nat
    /\ MaxCloses \in Nat
    /\ LittleEndian \in BOOLEAN
ASSUME MessageAssumption ==
    \A m \in Messages : m \in Seq(Byte) /\ Len(m) \in 1..(Word - 1)

VARIABLES
    wire,      \* bytes on their way, per connection
    ended,     \* connections that are closed or broken
    buffer,    \* incoming_buffers_[ip]: one for all connections, as they have
               \* the same address; nothing ever clears it
    last,      \* the connection the last piece came from
    sent,      \* history: messages in the order they were sent, per connection
    processed, \* history: what process_complete_message was called with, and
               \* the connection whose piece completed the message
    mixed,     \* history: a piece was put behind the rest of another connection
    broken     \* the loop read past the end of the buffer: the model ends

vars == <<wire, ended, buffer, last, sent, processed, mixed, broken>>

-----------------------------------------------------------------------------
(* The number that the first HeaderSize bytes of s stand for. *)
Number(s) ==
    LET number[i \in 0..HeaderSize] ==
            IF i = 0 THEN 0 ELSE number[i - 1] * Base + s[i]
    IN number[HeaderSize]

(* A slip the checks must notice: the higher digits are not cut off. *)
DigitUnmasked(length, i) == length \div Power[HeaderSize - i]

(* htonl and the four shifts: most significant byte first. *)
Digit(length, i) == (length \div Power[HeaderSize - i]) % Base

Header(length) == [i \in 1..HeaderSize |-> Digit(length, i)]

Encode(m) == Header(Len(m)) \o m

(* ntohl: reverses the bytes of a number on a little-endian host. *)
Swap(length) == IF LittleEndian THEN Number(Reverse(Header(length)))
                ELSE length

(* message_length in handle_incoming_data: the four shifts put the bytes   *)
(* together in host order, and ntohl is applied to the result.             *)
MessageLength(b) == Swap(Number(b))

(* A slip the checks must notice: the header is not counted. *)
NeededPayload(length) == length % Word

(* 4 + message_length, in 32 bits. *)
Needed(length) == (HeaderSize + length) % Word

-----------------------------------------------------------------------------
SentInAll == SumFunction([s \in Sessions |-> Len(sent[s])])

Init ==
    /\ wire = [s \in Sessions |-> <<>>]
    /\ ended = {}
    /\ buffer = <<>>
    /\ last \in Sessions
    /\ sent = [s \in Sessions |-> <<>>]
    /\ processed = [s \in Sessions |-> <<>>]
    /\ mixed = FALSE
    /\ broken = FALSE

(* The sender broadcasts a message: to one session, see NetworkManager. *)
Send(s, m) ==
    /\ s \notin ended
    /\ SentInAll < MaxSent
    /\ wire' = [wire EXCEPT ![s] = @ \o Encode(m)]
    /\ sent' = [sent EXCEPT ![s] = Append(@, m)]
    /\ UNCHANGED <<ended, buffer, last, processed, mixed, broken>>

(* A connection ends or its sender does, and the first n bytes on the wire *)
(* still arrive.  What the address left in the buffer stays there.         *)
Close(s, n) ==
    /\ s \notin ended
    /\ Cardinality(ended) < MaxCloses
    /\ ended' = ended \union {s}
    /\ wire' = [wire EXCEPT ![s] = SubSeq(@, 1, n)]
    /\ UNCHANGED <<buffer, last, sent, processed, mixed, broken>>

(* A slip the checks must notice: a message that ends the buffer waits. *)
CanExtractLonger ==
    /\ Len(buffer) >= HeaderSize
    /\ Len(buffer) > Needed(MessageLength(buffer))

(* The condition of the while loop and its break. *)
CanExtract ==
    /\ Len(buffer) >= HeaderSize
    /\ Len(buffer) >= Needed(MessageLength(buffer))

(* A read completes and the piece is appended to the buffer of the address.*)
(* The network thread reads again only when the loop has ended.            *)
Receive(s, n) ==
    /\ ~broken
    /\ ~CanExtract
    /\ n <= Len(wire[s])
    /\ buffer' = buffer \o SubSeq(wire[s], 1, n)
    /\ wire' = [wire EXCEPT ![s] = SubSeq(@, n + 1, Len(@))]
    /\ last' = s
    /\ mixed' = (mixed \/ (buffer # <<>> /\ last # s))
    /\ UNCHANGED <<ended, sent, processed, broken>>

(* A slip the checks must notice: the header is not counted. *)
RestWithHeader(length) == SubSeq(buffer, length + 1, Len(buffer))

(* What is left of the buffer behind a message of the given length. *)
Rest(length) == SubSeq(buffer, HeaderSize + length + 1, Len(buffer))

(* One round of the loop: the message leaves the buffer and is processed.  *)
Extract ==
    /\ ~broken
    /\ CanExtract
    /\ LET length == MessageLength(buffer) IN
       IF Len(buffer) < HeaderSize + length
       THEN broken' = TRUE /\ UNCHANGED <<buffer, processed>>
       ELSE /\ processed' = [processed EXCEPT ![last] =
                    Append(@, SubSeq(buffer, HeaderSize + 1, HeaderSize + length))]
            /\ buffer' = Rest(length)
            /\ UNCHANGED broken
    /\ UNCHANGED <<wire, ended, last, sent, mixed>>

Deliver(s) == \E n \in 1..ReadSize : Receive(s, n)

Next ==
    \/ \E s \in Sessions, m \in Messages : Send(s, m)
    \/ \E s \in Sessions : Deliver(s)
    \/ \E s \in Sessions : \E n \in 0..Len(wire[s]) : Close(s, n)
    \/ Extract

Spec == Init /\ [][Next]_vars

(* TCP delivers what was written, on each connection, and the network      *)
(* thread keeps running.                                                   *)
Fairness == (\A s \in Sessions : WF_vars(Deliver(s))) /\ WF_vars(Extract)

FairSpec == Spec /\ Fairness
-----------------------------------------------------------------------------
TypeOK ==
    /\ wire \in [Sessions -> Seq(Byte)]
    /\ ended \subseteq Sessions
    /\ buffer \in Seq(Byte)
    /\ last \in Sessions
    /\ sent \in [Sessions -> Seq(Messages)]
    /\ processed \in [Sessions -> Seq(Seq(Byte))]
    /\ mixed \in BOOLEAN /\ broken \in BOOLEAN

(* However the bytes are cut into pieces, and however the connections of   *)
(* an address take turns or end, the messages of each are processed        *)
(* unchanged and in the order they were sent, as long as no piece was put  *)
(* behind a half message of another connection (handle_incoming_data,      *)
(* incoming_buffers_).                                                     *)
ProcessedInOrder ==
    mixed \/ \A s \in Sessions : IsPrefix(processed[s], sent[s])

(* ... and all of them in the end, as long as the connection lasts.        *)
EveryMessageProcessed ==
    \A s \in Sessions : \A n \in 1..MaxSent :
        (Len(sent[s]) >= n) ~>
            (Len(processed[s]) >= n \/ s \in ended \/ mixed \/ broken)

(* The sum in the loop's test wraps at 32 bits, and the loop then reads    *)
(* past the end of the buffer; no message does that whose length and       *)
(* header together have a number of 32 bits (handle_incoming_data).        *)
OverrunNeedsHugeMessage ==
    broken => mixed \/ \E s \in Sessions : \E m \in ToSet(sent[s]) :
                            HeaderSize + Len(m) >= Word

(* handle_incoming_data: "Convert from big-endian to host byte order": on  *)
(* any host, what was sent is processed in the end.                        *)
HostOrderDelivers == EveryMessageProcessed

(* handle_incoming_data: "Extract the complete message": what is processed *)
(* is a message somebody sent.                                             *)
CompleteMessages ==
    \A s \in Sessions : \A i \in DOMAIN processed[s] :
        \E t \in Sessions : processed[s][i] \in ToSet(sent[t])
=============================================================================

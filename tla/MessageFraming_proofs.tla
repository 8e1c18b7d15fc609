------------------------ MODULE MessageFraming_proofs ------------------------
(***************************************************************************)
(* Proofs about MessageFraming: on a host that keeps the order of the      *)
(* bytes, every message is processed as it was sent and in its place,      *)
(* whatever the base, the size of a header, the messages, the pieces and   *)
(* the number of connections.                                              *)
(***************************************************************************)
EXTENDS MessageFraming, SequenceTheorems, Induction

-----------------------------------------------------------------------------
(* Division. *)

LEMMA DivMod ==
    ASSUME NEW x \in Nat, NEW d \in Nat \ {0}
    PROVE  /\ x \div d \in Nat /\ x % d \in 0..(d - 1)
           /\ x = d * (x \div d) + (x % d)
OBVIOUS

LEMMA ModOfSmall ==
    ASSUME NEW d \in Nat \ {0}, NEW x \in 0..(d - 1)
    PROVE  x % d = x
OBVIOUS

LEMMA DivUnique ==
    ASSUME NEW d \in Nat \ {0}, NEW r \in Nat, NEW e \in 0..(d - 1)
    PROVE  (d * r + e) \div d = r
OBVIOUS

LEMMA DivProduct ==
    ASSUME NEW x \in Nat, NEW p \in Nat \ {0}, NEW b \in Nat \ {0}
    PROVE  x \div (p * b) = (x \div p) \div b
<1> DEFINE q == x \div p
           a == x % p
           r == q \div b
           c == q % b
<1>1. q \in Nat /\ a \in 0..(p - 1) /\ x = p * q + a
  BY DivMod
<1>2. r \in Nat /\ c \in 0..(b - 1) /\ q = b * r + c
  BY <1>1, DivMod
<1>3. p * b \in Nat \ {0}
  OBVIOUS
<1>4. p * c + a \in 0..(p * b - 1)
  BY <1>1, <1>2
<1> HIDE DEF q, a, r, c
<1>5. x = (p * b) * r + (p * c + a)
  BY <1>1, <1>2
<1>6. x \div (p * b) = r
  BY <1>2, <1>3, <1>4, <1>5, DivUnique
<1> QED BY <1>6 DEF q, r

-----------------------------------------------------------------------------
(* Digits and the numbers they make. *)

(* Power is what its definition says, and never zero.                      *)
LEMMA PowerFacts ==
    /\ Power[0] = 1
    /\ \A k \in 1..HeaderSize : Power[k] = Power[k - 1] * Base
    /\ \A k \in 0..HeaderSize : Power[k] \in Nat \ {0}
<1> USE SizeAssumption
<1> DEFINE step == [p \in Nat \X Nat |-> p[2] * Base]
           IsPower(f) == f = [k \in 0..HeaderSize |-> IF k = 0 THEN 1 ELSE f[k - 1] * Base]
<1>1. step \in [Nat \X Nat -> Nat]
  OBVIOUS
<1>2. \A k, v \in Nat : step[<<k, v>>] = v * Base
  OBVIOUS
<1>3. \E f : IsPower(f)
  <2> HIDE DEF step
  <2>1. PICK f : Unfolds(f, Nat, 1, step, HeaderSize)
    <3>1. 1 \in Nat /\ HeaderSize \in Nat
      OBVIOUS
    <3> QED BY <1>1, <3>1, Recursion
  <2>2. f \in [0..HeaderSize -> Nat] /\ f[0] = 1
    BY <2>1 DEF Unfolds
  <2>3. ASSUME NEW k \in 1..HeaderSize PROVE f[k] = f[k - 1] * Base
    <3>1. k \in Nat /\ f[k - 1] \in Nat
      BY <2>2
    <3>2. f[k] = step[<<k, f[k - 1]>>]
      BY <2>1 DEF Unfolds
    <3> QED BY <3>1, <3>2, <1>2
  <2>4. IsPower(f)
    BY <2>2, <2>3
  <2> HIDE DEF IsPower
  <2> QED BY <2>4
<1>4. IsPower(Power)
  <2>1. Power = CHOOSE f : IsPower(f)
    BY DEF Power
  <2> HIDE DEF IsPower
  <2> QED BY <1>3, <2>1
<1>5. Power[0] = 1 /\ \A k \in 1..HeaderSize : Power[k] = Power[k - 1] * Base
  BY <1>4
<1> DEFINE S == {k \in 0..HeaderSize : Power[k] \in Nat \ {0}}
<1>6. \A k \in 0..HeaderSize : k \in S
  <2>1. 0 \in S
    BY <1>5
  <2>2. ASSUME NEW k \in 0..HeaderSize, k < HeaderSize, k \in S PROVE k + 1 \in S
    <3>1. Power[k + 1] = Power[k] * Base
      BY <2>2, <1>5
    <3> QED BY <2>2, <3>1
  <2> HIDE DEF S
  <2> QED BY <2>1, <2>2, InductionUpTo
<1> QED BY <1>5, <1>6

LEMMA ByteFacts == Byte \subseteq Nat /\ Word \in Nat \ {0}
BY PowerFacts, SizeAssumption DEF Byte, Word

(* Number is the last value of the recursion it is defined by.             *)
LEMMA NumberFacts ==
    ASSUME NEW s, \A i \in 1..HeaderSize : s[i] \in Nat
    PROVE  \E f \in [0..HeaderSize -> Nat] :
               /\ f[0] = 0
               /\ \A i \in 1..HeaderSize : f[i] = f[i - 1] * Base + s[i]
               /\ Number(s) = f[HeaderSize]
<1> USE SizeAssumption
<1> DEFINE step == [p \in Nat \X Nat |->
                      p[2] * Base + (IF p[1] \in 1..HeaderSize THEN s[p[1]] ELSE 0)]
           IsNumber(f) ==
               f = [i \in 0..HeaderSize |-> IF i = 0 THEN 0 ELSE f[i - 1] * Base + s[i]]
<1>1. step \in [Nat \X Nat -> Nat]
  OBVIOUS
<1>2. \A i \in 1..HeaderSize, v \in Nat : step[<<i, v>>] = v * Base + s[i]
  OBVIOUS
<1>3. \E f : IsNumber(f)
  <2> HIDE DEF step
  <2>1. PICK f : Unfolds(f, Nat, 0, step, HeaderSize)
    <3>1. 0 \in Nat /\ HeaderSize \in Nat
      OBVIOUS
    <3> QED BY <1>1, <3>1, Recursion
  <2>2. f \in [0..HeaderSize -> Nat] /\ f[0] = 0
    BY <2>1 DEF Unfolds
  <2>3. ASSUME NEW i \in 1..HeaderSize PROVE f[i] = f[i - 1] * Base + s[i]
    <3>1. f[i - 1] \in Nat
      BY <2>2
    <3>2. f[i] = step[<<i, f[i - 1]>>]
      BY <2>1 DEF Unfolds
    <3> QED BY <3>1, <3>2, <1>2
  <2>4. IsNumber(f)
    BY <2>2, <2>3
  <2> HIDE DEF IsNumber
  <2> QED BY <2>4
<1> DEFINE number == CHOOSE f : IsNumber(f)
<1>4. Number(s) = number[HeaderSize]
  BY DEF Number
<1>5. IsNumber(number)
  <2> HIDE DEF IsNumber
  <2> QED BY <1>3
<1> HIDE DEF number
<1>6. number[0] = 0 /\ \A i \in 1..HeaderSize : number[i] = number[i - 1] * Base + s[i]
  BY <1>5
<1> DEFINE S == {i \in 0..HeaderSize : number[i] \in Nat}
<1>7. \A i \in 0..HeaderSize : i \in S
  <2>1. 0 \in S
    BY <1>6
  <2>2. ASSUME NEW i \in 0..HeaderSize, i < HeaderSize, i \in S PROVE i + 1 \in S
    <3>1. number[i + 1] = number[i] * Base + s[i + 1] /\ s[i + 1] \in Nat
      BY <2>2, <1>6
    <3> QED BY <2>2, <3>1
  <2> HIDE DEF S
  <2> QED BY <2>1, <2>2, InductionUpTo
<1>8. number \in [0..HeaderSize -> Nat]
  BY <1>5, <1>7
<1> QED BY <1>4, <1>6, <1>8

(* The digits of a length make the length again: the header says what the  *)
(* sender meant, for every length below Word.                              *)
LEMMA NumberOfDigits ==
    ASSUME NEW length \in 0..(Word - 1), NEW s,
           \A i \in 1..HeaderSize : s[i] = Digit(length, i)
    PROVE  Number(s) = length
<1> USE SizeAssumption
<1>1. \A i \in 1..HeaderSize : s[i] \in Nat
  <2> SUFFICES ASSUME NEW i \in 1..HeaderSize PROVE s[i] \in Nat
    OBVIOUS
  <2>1. length \in Nat /\ HeaderSize - i \in 0..HeaderSize
    BY ByteFacts
  <2>2. length \div Power[HeaderSize - i] \in Nat
    BY <2>1, PowerFacts, DivMod
  <2>3. (length \div Power[HeaderSize - i]) % Base \in Nat
    BY <2>2, DivMod
  <2> QED BY <2>3 DEF Digit
<1>2. PICK f \in [0..HeaderSize -> Nat] :
          /\ f[0] = 0
          /\ \A i \in 1..HeaderSize : f[i] = f[i - 1] * Base + s[i]
          /\ Number(s) = f[HeaderSize]
  BY <1>1, NumberFacts
<1> DEFINE S == {i \in 0..HeaderSize : f[i] = length \div Power[HeaderSize - i]}
<1>3. 0 \in S
  <2>1. Word = Power[HeaderSize] /\ Word \in Nat \ {0}
    BY ByteFacts DEF Word
  <2>2. (Word * 0 + length) \div Word = 0
    BY <2>1, DivUnique
  <2>3. length \div Word = 0
    BY <2>1, <2>2
  <2> QED BY <1>2, <2>1, <2>3
<1>4. ASSUME NEW i \in 0..HeaderSize, i < HeaderSize, i \in S PROVE i + 1 \in S
  <2> DEFINE p == Power[HeaderSize - (i + 1)]
             q == length \div p
  <2>1. length \in Nat /\ p \in Nat \ {0} /\ Power[HeaderSize - i] = p * Base
    <3>1. HeaderSize - (i + 1) \in 0..HeaderSize /\ HeaderSize - i \in 1..HeaderSize
      BY <1>4
    <3>2. (HeaderSize - i) - 1 = HeaderSize - (i + 1)
      BY <1>4
    <3> QED BY <3>1, <3>2, PowerFacts, ByteFacts
  <2>2. f[i] = q \div Base
    <3>1. f[i] = length \div (p * Base)
      BY <1>4, <2>1
    <3> HIDE DEF p
    <3>2. Base \in Nat \ {0}
      OBVIOUS
    <3> HIDE SizeAssumption
    <3>3. length \div (p * Base) = (length \div p) \div Base
      BY <2>1, <3>2, DivProduct
    <3> QED BY <3>1, <3>3
  <2>3. f[i + 1] = f[i] * Base + (q % Base)
    BY <1>2, <1>4 DEF Digit
  <2>4. q \in Nat
    BY <2>1, DivMod
  <2> HIDE DEF q
  <2>5. q = Base * (q \div Base) + (q % Base) /\ q \div Base \in Nat
    BY <2>4, DivMod
  <2>6. f[i + 1] = q
    BY <2>2, <2>3, <2>5
  <2> QED BY <2>6, <1>4 DEF q
<1>5. \A i \in 0..HeaderSize : i \in S
  <2> HIDE DEF S
  <2> QED BY <1>3, <1>4, InductionUpTo
<1>6. f[HeaderSize] = length \div Power[0]
  <2>1. HeaderSize \in S /\ HeaderSize - HeaderSize = 0
    BY <1>5
  <2> QED BY <2>1
<1>7. length \div 1 = length
  <2>1. length \in Nat
    BY ByteFacts
  <2> QED BY <2>1
<1> QED BY <1>2, <1>6, <1>7, PowerFacts

-----------------------------------------------------------------------------
(* Headers and messages. *)

LEMMA HeaderFacts ==
    ASSUME NEW length \in Nat
    PROVE  Header(length) \in Seq(Byte) /\ Len(Header(length)) = HeaderSize
<1> USE SizeAssumption
<1>1. ASSUME NEW i \in 1..HeaderSize PROVE Digit(length, i) \in Byte
  <2>1. HeaderSize - i \in 0..HeaderSize
    OBVIOUS
  <2>2. length \div Power[HeaderSize - i] \in Nat
    BY <2>1, PowerFacts, DivMod
  <2> QED BY <2>2, DivMod DEF Digit, Byte
<1>2. [i \in 1..HeaderSize |-> Digit(length, i)] \in Seq(Byte)
  BY <1>1, IsASeq
<1> QED BY <1>2 DEF Header

LEMMA MessageFacts ==
    ASSUME NEW m \in Messages
    PROVE  /\ m \in Seq(Byte) /\ Len(m) \in 0..(Word - 1) /\ Len(m) \in Nat
           /\ Header(Len(m)) \in Seq(Byte) /\ Len(Header(Len(m))) = HeaderSize
           /\ Encode(m) \in Seq(Byte) /\ Len(Encode(m)) = HeaderSize + Len(m)
<1>1. m \in Seq(Byte) /\ Len(m) \in 0..(Word - 1) /\ Len(m) \in Nat
  BY MessageAssumption, ByteFacts
<1>2. Header(Len(m)) \in Seq(Byte) /\ Len(Header(Len(m))) = HeaderSize
  BY <1>1, HeaderFacts
<1> QED BY <1>1, <1>2, ConcatProperties DEF Encode

LEMMA BytesAssociative ==
    \A a, b, c \in Seq(Byte) : (a \o b) \o c = a \o (b \o c)
BY ConcatAssociative

LEMMA BytesCancel ==
    \A a, b, c \in Seq(Byte) : a \o b = a \o c => b = c
<1> SUFFICES ASSUME NEW a \in Seq(Byte), NEW b \in Seq(Byte), NEW c \in Seq(Byte),
                    a \o b = a \o c
             PROVE  b = c
  OBVIOUS
<1>1. Len(a) \in Nat /\ Len(b) \in Nat /\ Len(c) \in Nat
  BY LenProperties
<1>2. Len(b) = Len(c)
  <2>1. Len(a \o b) = Len(a) + Len(b) /\ Len(a \o c) = Len(a) + Len(c)
    BY ConcatProperties
  <2> QED BY <1>1, <2>1
<1>3. ASSUME NEW i \in 1..Len(b) PROVE b[i] = c[i]
  <2>1. /\ Len(a) + i \in 1..(Len(a) + Len(b)) /\ ~(Len(a) + i <= Len(a))
        /\ (Len(a) + i) - Len(a) = i
    BY <1>1
  <2>2. (a \o b)[Len(a) + i] = b[i]
    BY <2>1, ConcatProperties
  <2>3. (a \o c)[Len(a) + i] = c[i]
    BY <1>2, <2>1, ConcatProperties
  <2> QED BY <2>2, <2>3
<1> QED BY <1>2, <1>3, SeqEqual

LEMMA BytesConcat == \A a, b \in Seq(Byte) : a \o b \in Seq(Byte)
BY ConcatProperties

(* The bytes of the first messages of ms. *)
Stream(ms) ==
    LET stream[i \in 0..Len(ms)] ==
            IF i = 0 THEN <<>> ELSE stream[i - 1] \o Encode(ms[i])
    IN stream

LEMMA StreamFacts ==
    ASSUME NEW ms \in Seq(Messages)
    PROVE  /\ Stream(ms)[0] = <<>>
           /\ \A i \in 1..Len(ms) : Stream(ms)[i] = Stream(ms)[i - 1] \o Encode(ms[i])
           /\ \A i \in 0..Len(ms) : Stream(ms)[i] \in Seq(Byte)
<1> DEFINE n == Len(ms)
           D == Seq(Byte)
           step == [p \in Nat \X D |-> IF p[1] \in 1..n THEN p[2] \o Encode(ms[p[1]]) ELSE <<>>]
           IsStream(f) ==
               f = [i \in 0..n |-> IF i = 0 THEN <<>> ELSE f[i - 1] \o Encode(ms[i])]
<1>1. n \in Nat /\ <<>> \in D
  BY LenProperties, EmptySeq
<1>2. \A i \in 1..n, v \in D : v \o Encode(ms[i]) \in D
  <2> TAKE i \in 1..n, v \in D
  <2>1. ms[i] \in Messages
    BY ElementOfSeq
  <2> QED BY <2>1, MessageFacts, ConcatProperties
<1> HIDE DEF D
<1>3. step \in [Nat \X D -> D]
  BY <1>1, <1>2
<1>4. \A i \in 1..n, v \in D : step[<<i, v>>] = v \o Encode(ms[i])
  <2> TAKE i \in 1..n, v \in D
  <2>1. <<i, v>> \in Nat \X D
    BY <1>1
  <2> QED BY <2>1
<1>5. \E f : IsStream(f)
  <2> HIDE DEF step
  <2>1. PICK f : Unfolds(f, D, <<>>, step, n)
    BY <1>1, <1>3, Recursion
  <2>2. f \in [0..n -> D] /\ f[0] = <<>>
    BY <2>1 DEF Unfolds
  <2> HIDE DEF n
  <2>3. ASSUME NEW i \in 1..n PROVE f[i] = f[i - 1] \o Encode(ms[i])
    <3>1. f[i - 1] \in D
      BY <2>2, <1>1
    <3>2. f[i] = step[<<i, f[i - 1]>>]
      BY <2>1 DEF Unfolds
    <3> QED BY <3>1, <3>2, <1>4
  <2>4. IsStream(f)
    BY <1>1, <2>2, <2>3
  <2> HIDE DEF IsStream
  <2> QED BY <2>4
<1>6. IsStream(Stream(ms))
  <2>1. Stream(ms) = CHOOSE f : IsStream(f)
    BY DEF Stream
  <2> HIDE DEF IsStream
  <2> QED BY <1>5, <2>1
<1> HIDE DEF n
<1>7. Stream(ms)[0] = <<>>
  BY <1>1, <1>6
<1>8. \A i \in 1..n : Stream(ms)[i] = Stream(ms)[i - 1] \o Encode(ms[i])
  <2> TAKE i \in 1..n
  <2>1. i \in 0..n /\ i # 0
    BY <1>1
  <2> QED BY <2>1, <1>6
<1> DEFINE S == {i \in 0..n : Stream(ms)[i] \in D}
<1>9. \A i \in 0..n : i \in S
  <2>1. 0 \in S
    BY <1>1, <1>7
  <2>2. ASSUME NEW i \in 0..n, i < n, i \in S PROVE i + 1 \in S
    <3>1. i + 1 \in 1..n /\ (i + 1) - 1 = i
      BY <2>2, <1>1
    <3>2. Stream(ms)[i + 1] = Stream(ms)[i] \o Encode(ms[i + 1])
      BY <3>1, <1>8
    <3>3. Stream(ms)[i] \in D
      BY <2>2
    <3>4. Stream(ms)[i + 1] \in D
      BY <3>1, <3>2, <3>3, <1>2
    <3> QED BY <1>1, <2>2, <3>4
  <2> HIDE DEF S
  <2> QED BY <1>1, <2>1, <2>2, InductionUpTo
<1> QED BY <1>7, <1>8, <1>9 DEF n, D

(* What follows the first messages in the stream of all of them.           *)
LEMMA StreamExtends ==
    ASSUME NEW ms \in Seq(Messages), NEW k \in 0..Len(ms)
    PROVE  \E u \in Seq(Byte) : Stream(ms)[Len(ms)] = Stream(ms)[k] \o u
<1> DEFINE n == Len(ms)
           S == {i \in 0..n : i >= k => \E u \in Seq(Byte) : Stream(ms)[i] = Stream(ms)[k] \o u}
<1>1. n \in Nat
  BY LenProperties
<1>2. Stream(ms)[k] \in Seq(Byte) /\ Stream(ms)[k] = Stream(ms)[k] \o <<>> /\ <<>> \in Seq(Byte)
  BY StreamFacts, ConcatEmptySeq, EmptySeq
<1>3. k \in S
  BY <1>2
<1>4. 0 \in S
  BY <1>1, <1>3
<1>5. ASSUME NEW i \in 0..n, i < n, i \in S PROVE i + 1 \in S
  <2>1. CASE i + 1 = k
    BY <1>3, <2>1
  <2>4. CASE i + 1 < k
    <3>1. i + 1 \in 0..n /\ ~(i + 1 >= k)
      BY <1>1, <1>5, <2>4
    <3> QED BY <3>1
  <2>2. CASE i >= k
    <3>1. PICK u \in Seq(Byte) : Stream(ms)[i] = Stream(ms)[k] \o u
      BY <1>5, <2>2
    <3>2. i + 1 \in 1..n /\ (i + 1) - 1 = i
      BY <1>1, <1>5
    <3>3. Stream(ms)[i + 1] = Stream(ms)[i] \o Encode(ms[i + 1])
      BY <3>2, StreamFacts
    <3>4. Encode(ms[i + 1]) \in Seq(Byte)
      BY <3>2, ElementOfSeq, MessageFacts
    <3>5. (Stream(ms)[k] \o u) \o Encode(ms[i + 1]) = Stream(ms)[k] \o (u \o Encode(ms[i + 1]))
      BY <1>2, <3>1, <3>4, BytesAssociative
    <3>6. u \o Encode(ms[i + 1]) \in Seq(Byte)
      BY <3>1, <3>4, ConcatProperties
    <3>7. \E w \in Seq(Byte) : Stream(ms)[i + 1] = Stream(ms)[k] \o w
      BY <3>1, <3>3, <3>5, <3>6
    <3> QED BY <1>1, <3>2, <3>7
  <2>3. i + 1 < k \/ i + 1 = k \/ i >= k
    BY <1>1
  <2> HIDE DEF S
  <2> QED BY <2>1, <2>2, <2>3, <2>4
<1>6. n \in S
  <2> HIDE DEF S
  <2>1. \A i \in 0..n : i \in S
    BY <1>1, <1>4, <1>5, InductionUpTo
  <2> QED BY <1>1, <2>1
<1> QED BY <1>6, <1>1

(* A message that is sent changes nothing in the stream before it.         *)
LEMMA StreamAppend ==
    ASSUME NEW ms \in Seq(Messages), NEW m \in Messages
    PROVE  /\ \A i \in 0..Len(ms) : Stream(Append(ms, m))[i] = Stream(ms)[i]
           /\ Stream(Append(ms, m))[Len(ms) + 1] = Stream(ms)[Len(ms)] \o Encode(m)
<1> DEFINE n == Len(ms)
           more == Append(ms, m)
           S == {i \in 0..n : Stream(more)[i] = Stream(ms)[i]}
<1>1. n \in Nat
  BY LenProperties
<1>2. more \in Seq(Messages) /\ Len(more) = n + 1 /\ \A i \in 1..n : more[i] = ms[i]
  BY AppendProperties
<1>3. more[n + 1] = m
  BY AppendProperties
<1> HIDE DEF more, n
<1>4. 0 \in S
  <2>1. Stream(ms)[0] = <<>> /\ Stream(more)[0] = <<>>
    BY <1>2, StreamFacts
  <2> QED BY <1>1, <2>1
<1>5. ASSUME NEW i \in 0..n, i < n, i \in S PROVE i + 1 \in S
  <2>1. i + 1 \in 1..n /\ i + 1 \in 1..(n + 1) /\ (i + 1) - 1 = i
    BY <1>1, <1>5
  <2>2. Stream(ms)[i + 1] = Stream(ms)[i] \o Encode(ms[i + 1])
    BY <2>1, StreamFacts DEF n
  <2>3. Stream(more)[i + 1] = Stream(more)[i] \o Encode(more[i + 1])
    BY <2>1, <1>2, StreamFacts
  <2>4. Stream(more)[i] = Stream(ms)[i] /\ more[i + 1] = ms[i + 1]
    BY <1>2, <1>5, <2>1
  <2>5. Stream(more)[i + 1] = Stream(ms)[i + 1]
    BY <2>2, <2>3, <2>4
  <2> QED BY <1>1, <1>5, <2>5
<1>6. \A i \in 0..n : i \in S
  <2> HIDE DEF S
  <2> QED BY <1>1, <1>4, <1>5, InductionUpTo
<1>7. Stream(more)[n + 1] = Stream(more)[n] \o Encode(more[n + 1])
  <2>1. n + 1 \in 1..(n + 1) /\ (n + 1) - 1 = n
    BY <1>1
  <2> QED BY <2>1, <1>2, StreamFacts
<1>8. Stream(more)[n] = Stream(ms)[n]
  BY <1>1, <1>6
<1> QED BY <1>3, <1>6, <1>7, <1>8 DEF n, more

-----------------------------------------------------------------------------
(* What the receiver makes of the bytes it has. *)

LEMMA LengthIsNumber ==
    ASSUME NEW b \in Seq(Byte), Len(b) >= HeaderSize
    PROVE  MessageLength(b) \in Nat
<1> USE SizeAssumption
<1>1. \A c \in Seq(Byte) : Len(c) >= HeaderSize => Number(c) \in Nat
  <2> SUFFICES ASSUME NEW c \in Seq(Byte), Len(c) >= HeaderSize PROVE Number(c) \in Nat
    OBVIOUS
  <2>1. Len(c) \in Nat
    BY LenProperties
  <2>2. ASSUME NEW i \in 1..HeaderSize PROVE c[i] \in Nat
    <3>1. i \in 1..Len(c)
      BY <2>1
    <3> QED BY <3>1, ElementOfSeq, ByteFacts
  <2>3. PICK f \in [0..HeaderSize -> Nat] : Number(c) = f[HeaderSize]
    BY <2>2, NumberFacts
  <2> QED BY <2>3
<1>2. Number(b) \in Nat
  BY <1>1
<1>3. CASE ~LittleEndian
  BY <1>2, <1>3 DEF MessageLength, Swap
<1>4. CASE LittleEndian
  <2> DEFINE h == Header(Number(b))
             r == Reverse(h)
  <2>1. h \in Seq(Byte) /\ Len(h) = HeaderSize
    BY <1>2, HeaderFacts
  <2> HIDE DEF h
  <2>2. r = [i \in 1..HeaderSize |-> h[(HeaderSize - i) + 1]]
    BY <2>1 DEF Reverse
  <2>3. ASSUME NEW i \in 1..HeaderSize PROVE h[(HeaderSize - i) + 1] \in Byte
    <3>1. (HeaderSize - i) + 1 \in 1..Len(h)
      BY <2>1
    <3> QED BY <2>1, <3>1, ElementOfSeq
  <2>4. [i \in 1..HeaderSize |-> h[(HeaderSize - i) + 1]] \in Seq(Byte)
    BY <2>3, IsASeq
  <2>5. r \in Seq(Byte) /\ Len(r) = HeaderSize
    BY <2>2, <2>4
  <2> HIDE DEF r
  <2>6. Number(r) \in Nat
    BY <1>1, <2>5
  <2> QED BY <1>4, <2>6 DEF MessageLength, Swap, r, h
<1> QED BY <1>3, <1>4

(* At the front of the buffer is the next message of the stream, and the   *)
(* receiver reads its length right.                                        *)
LEMMA NextMessage ==
    ASSUME ~LittleEndian,
           NEW ms \in Seq(Messages), NEW k \in 0..Len(ms),
           NEW b \in Seq(Byte), NEW w \in Seq(Byte), Len(b) >= HeaderSize,
           Stream(ms)[k] \o (b \o w) = Stream(ms)[Len(ms)]
    PROVE  /\ k + 1 \in 1..Len(ms) /\ ms[k + 1] \in Messages
           /\ MessageLength(b) = Len(ms[k + 1])
           /\ \E u \in Seq(Byte) : b \o w = Encode(ms[k + 1]) \o u
<1> USE SizeAssumption
<1> DEFINE n == Len(ms)
           bw == b \o w
           front == Stream(ms)[k]
<1>1. n \in Nat /\ Len(b) \in Nat /\ Len(w) \in Nat
  BY LenProperties
<1>2. bw \in Seq(Byte) /\ Len(bw) = Len(b) + Len(w)
  BY ConcatProperties
<1>3. \A i \in 1..Len(b) : bw[i] = b[i]
  BY <1>1, ConcatProperties
<1> HIDE DEF bw
<1>4. front \in Seq(Byte)
  BY StreamFacts
<1>5. front \o bw = Stream(ms)[n]
  BY DEF bw
<1>6. k # n
  <2> SUFFICES ASSUME k = n PROVE FALSE
    OBVIOUS
  <2>1. front \o bw = front
    BY <1>5
  <2> HIDE DEF front
  <2>2. bw = <<>>
    BY <1>2, <1>4, <2>1, ConcatSimplifications!idRight
  <2>3. Len(bw) = 0
    BY <2>2
  <2>4. Len(b) + Len(w) = 0
    BY <1>2, <2>3
  <2>5. Len(b) > 0
    BY <1>1
  <2> QED BY <1>1, <2>4, <2>5
<1>7. k + 1 \in 1..n /\ k + 1 \in 0..n /\ (k + 1) - 1 = k
  BY <1>1, <1>6
<1> DEFINE m == ms[k + 1]
<1>8. m \in Messages
  BY <1>7, ElementOfSeq
<1>9. Encode(m) \in Seq(Byte) /\ Len(Encode(m)) = HeaderSize + Len(m) /\ Len(m) \in Nat
  BY <1>8, MessageFacts
<1>10. PICK u \in Seq(Byte) : Stream(ms)[n] = Stream(ms)[k + 1] \o u
  BY <1>7, StreamExtends
<1>11. Stream(ms)[k + 1] = front \o Encode(m)
  BY <1>7, StreamFacts
<1> HIDE DEF front, n, m
<1>12. bw = Encode(m) \o u
  <2>1. front \o bw = front \o (Encode(m) \o u)
    <3>1. front \o bw = (front \o Encode(m)) \o u
      BY <1>5, <1>10, <1>11
    <3>2. (front \o Encode(m)) \o u = front \o (Encode(m) \o u)
      BY <1>4, <1>9, BytesAssociative
    <3> QED BY <3>1, <3>2
  <2>2. Encode(m) \o u \in Seq(Byte)
    BY <1>9, <1>10, BytesConcat
  <2> QED BY <1>2, <1>4, <2>1, <2>2, BytesCancel
<1>13. ASSUME NEW i \in 1..HeaderSize PROVE b[i] = Digit(Len(m), i)
  <2>1. i \in 1..Len(b) /\ i \in 1..(Len(Encode(m)) + Len(u)) /\ i <= Len(Encode(m))
    <3>1. Len(u) \in Nat
      BY LenProperties
    <3> QED BY <1>1, <1>9, <3>1
  <2>2. b[i] = (Encode(m) \o u)[i]
    BY <1>3, <1>12, <2>1
  <2>3. (Encode(m) \o u)[i] = Encode(m)[i]
    BY <1>9, <2>1, ConcatProperties
  <2>4. Encode(m)[i] = Header(Len(m))[i]
    <3>1. Header(Len(m)) \in Seq(Byte) /\ Len(Header(Len(m))) = HeaderSize /\ m \in Seq(Byte)
      BY <1>8, MessageFacts
    <3>2. i \in 1..(HeaderSize + Len(m)) /\ i <= HeaderSize
      BY <1>9
    <3> QED BY <3>1, <3>2, ConcatProperties DEF Encode
  <2>5. Header(Len(m))[i] = Digit(Len(m), i)
    BY DEF Header
  <2> QED BY <2>2, <2>3, <2>4, <2>5
<1>14. Number(b) = Len(m)
  <2>1. Len(m) \in 0..(Word - 1)
    BY <1>8, MessageFacts
  <2> QED BY <1>13, <2>1, NumberOfDigits
<1>15. MessageLength(b) = Len(m)
  BY <1>14 DEF MessageLength, Swap
<1> QED BY <1>7, <1>8, <1>12, <1>15 DEF m, n, bw

(* When all of it is there, it leaves the buffer as it was sent.           *)
LEMMA WholeMessage ==
    ASSUME NEW m \in Messages, NEW b \in Seq(Byte), NEW w \in Seq(Byte), NEW u \in Seq(Byte),
           b \o w = Encode(m) \o u, Len(b) >= HeaderSize + Len(m)
    PROVE  /\ SubSeq(b, HeaderSize + 1, HeaderSize + Len(m)) = m
           /\ b = Encode(m) \o SubSeq(b, HeaderSize + Len(m) + 1, Len(b))
           /\ SubSeq(b, HeaderSize + Len(m) + 1, Len(b)) \in Seq(Byte)
<1> USE SizeAssumption
<1> DEFINE l == Len(m)
           e == HeaderSize + l
<1>1. l \in Nat /\ e \in Nat /\ e <= Len(b) /\ Len(b) \in Nat /\ Len(u) \in Nat /\ Len(w) \in Nat
  BY MessageFacts, LenProperties
<1>2. Encode(m) \in Seq(Byte) /\ Len(Encode(m)) = e
  BY MessageFacts
<1>3. ASSUME NEW i \in 1..e PROVE b[i] = Encode(m)[i]
  <2>1. i \in 1..(Len(b) + Len(w)) /\ i <= Len(b) /\ i \in 1..(Len(Encode(m)) + Len(u))
    BY <1>1, <1>2
  <2>2. (b \o w)[i] = b[i]
    BY <2>1, ConcatProperties
  <2>3. (Encode(m) \o u)[i] = Encode(m)[i]
    BY <1>2, <2>1, ConcatProperties
  <2> QED BY <2>2, <2>3
<1> HIDE DEF e
<1>4. SubSeq(b, 1, e) = Encode(m)
  <2>1. \A i \in 1..e : b[i] \in Byte
    BY <1>1, ElementOfSeq
  <2>2. /\ SubSeq(b, 1, e) \in Seq(Byte) /\ Len(SubSeq(b, 1, e)) = e
        /\ \A i \in 1..e : SubSeq(b, 1, e)[i] = b[i]
    BY <1>1, <2>1, SubSeqProperties
  <2> QED BY <1>1, <1>2, <1>3, <2>2, SeqEqual
<1>5. b = Encode(m) \o SubSeq(b, e + 1, Len(b))
  <2>1. SubSeq(b, 1, e) \o SubSeq(b, e + 1, Len(b)) = SubSeq(b, 1, Len(b))
    <3>1. 1 \in 1..(Len(b) + 1) /\ e \in (1 - 1)..Len(b) /\ Len(b) \in e..Len(b)
      BY <1>1
    <3> QED BY <3>1, ConcatAdjacentSubSeq
  <2> QED BY <1>4, <2>1, SubSeqFull
<1>6. SubSeq(b, e + 1, Len(b)) \in Seq(Byte)
  <2>1. \A i \in (e + 1)..Len(b) : b[i] \in Byte
    BY <1>1, ElementOfSeq
  <2> QED BY <1>1, <2>1, SubSeqProperties
<1>7. SubSeq(b, HeaderSize + 1, e) = m
  <2>1. \A i \in (HeaderSize + 1)..e : b[i] \in Byte
    BY <1>1, ElementOfSeq
  <2>2. /\ SubSeq(b, HeaderSize + 1, e) \in Seq(Byte)
        /\ Len(SubSeq(b, HeaderSize + 1, e)) = l
        /\ \A i \in 1..l : SubSeq(b, HeaderSize + 1, e)[i] = b[HeaderSize + i]
    <3>1. e - (HeaderSize + 1) + 1 = l /\ (HeaderSize + 1 <= e \/ l = 0)
      BY <1>1 DEF e
    <3>2. \A i \in 1..l : (HeaderSize + 1) + i - 1 = HeaderSize + i
      BY <1>1
    <3> QED BY <1>1, <2>1, <3>1, <3>2, SubSeqProperties
  <2>3. ASSUME NEW i \in 1..l PROVE b[HeaderSize + i] = m[i]
    <3>1. HeaderSize + i \in 1..e /\ HeaderSize + i > HeaderSize /\ (HeaderSize + i) - HeaderSize = i
      BY <1>1 DEF e
    <3>2. Header(l) \in Seq(Byte) /\ Len(Header(l)) = HeaderSize /\ m \in Seq(Byte)
      BY MessageFacts
    <3>3. Encode(m)[HeaderSize + i] = m[i]
      BY <3>1, <3>2, ConcatProperties DEF Encode, e
    <3> QED BY <1>3, <3>1, <3>3
  <2>4. m \in Seq(Byte) /\ Len(m) = l
    BY MessageFacts
  <2>5. PICK t \in Seq(Byte) : t = SubSeq(b, HeaderSize + 1, e)
    BY <2>2
  <2>6. Len(t) = Len(m) /\ \A i \in 1..Len(t) : t[i] = m[i]
    BY <2>2, <2>3, <2>4, <2>5
  <2>7. t = m
    <3> HIDE SizeAssumption
    <3> QED BY <2>4, <2>6, SeqEqual
  <2> QED BY <2>5, <2>7
<1> QED BY <1>5, <1>6, <1>7 DEF e

-----------------------------------------------------------------------------
(* Types. *)

LEMMA PieceOfBytes ==
    ASSUME NEW b \in Seq(Byte), NEW i \in Nat \ {0}, NEW j \in 0..Len(b)
    PROVE  SubSeq(b, i, j) \in Seq(Byte)
<1>1. Len(b) \in Nat
  BY LenProperties
<1>2. \A k \in i..j : b[k] \in Byte
  <2> TAKE k \in i..j
  <2>1. k \in 1..Len(b)
    BY <1>1
  <2> QED BY <2>1, ElementOfSeq
<1> QED BY <1>1, <1>2, SubSeqProperties

LEMMA TypeInit == Init => TypeOK
<1>1. <<>> \in Seq(Byte) /\ <<>> \in Seq(Messages) /\ <<>> \in Seq(Seq(Byte))
  BY EmptySeq
<1> QED BY <1>1 DEF Init, TypeOK

LEMMA TypeStep == TypeOK /\ [Next]_vars => TypeOK'
<1> SUFFICES ASSUME TypeOK, [Next]_vars PROVE TypeOK'
  OBVIOUS
<1> USE SizeAssumption
<1>1. ASSUME NEW s \in Sessions, NEW m \in Messages, Send(s, m) PROVE TypeOK'
  <2>1. Encode(m) \in Seq(Byte) /\ wire[s] \in Seq(Byte) /\ sent[s] \in Seq(Messages)
    BY MessageFacts DEF TypeOK
  <2>2. wire[s] \o Encode(m) \in Seq(Byte)
    BY <2>1, BytesConcat
  <2>3. Append(sent[s], m) \in Seq(Messages)
    BY <2>1, AppendProperties
  <2> QED BY <1>1, <2>2, <2>3 DEF Send, TypeOK
<1>2. ASSUME NEW s \in Sessions, NEW n \in 1..ReadSize, Receive(s, n) PROVE TypeOK'
  <2>1. n \in Nat \ {0} /\ n + 1 \in Nat \ {0} /\ n <= Len(wire[s])
    BY <1>2 DEF Receive
  <2>2. buffer \in Seq(Byte) /\ wire[s] \in Seq(Byte) /\ Len(wire[s]) \in Nat
    BY LenProperties DEF TypeOK
  <2>3. SubSeq(wire[s], 1, n) \in Seq(Byte) /\ SubSeq(wire[s], n + 1, Len(wire[s])) \in Seq(Byte)
    BY <2>1, <2>2, PieceOfBytes
  <2>4. buffer \o SubSeq(wire[s], 1, n) \in Seq(Byte)
    BY <2>2, <2>3, BytesConcat
  <2> QED BY <1>2, <2>3, <2>4 DEF Receive, TypeOK
<1>3. ASSUME NEW s \in Sessions, NEW n \in 0..Len(wire[s]), Close(s, n) PROVE TypeOK'
  <2>1. wire[s] \in Seq(Byte)
    BY DEF TypeOK
  <2>2. SubSeq(wire[s], 1, n) \in Seq(Byte)
    BY <2>1, PieceOfBytes
  <2> QED BY <1>3, <2>2 DEF Close, TypeOK
<1>4. ASSUME Extract PROVE TypeOK'
  <2> DEFINE length == MessageLength(buffer)
  <2>1. buffer \in Seq(Byte) /\ Len(buffer) \in Nat /\ Len(buffer) >= HeaderSize
    BY <1>4, LenProperties DEF TypeOK, Extract, CanExtract
  <2>2. length \in Nat
    BY <2>1, LengthIsNumber
  <2> HIDE DEF length
  <2>3. CASE Len(buffer) < HeaderSize + length
    BY <1>4, <2>3 DEF Extract, TypeOK, length
  <2>4. CASE ~(Len(buffer) < HeaderSize + length)
    <3>1. SubSeq(buffer, HeaderSize + 1, HeaderSize + length) \in Seq(Byte)
      BY <2>1, <2>2, <2>4, PieceOfBytes
    <3>2. Rest(length) \in Seq(Byte)
      BY <2>1, <2>2, <2>4, PieceOfBytes DEF Rest
    <3>3. last \in Sessions /\ processed[last] \in Seq(Seq(Byte))
      BY DEF TypeOK
    <3>4. Append(processed[last], SubSeq(buffer, HeaderSize + 1, HeaderSize + length))
              \in Seq(Seq(Byte))
      BY <3>1, <3>3, AppendProperties
    <3> QED BY <1>4, <2>4, <3>2, <3>3, <3>4 DEF Extract, TypeOK, length
  <2> QED BY <2>3, <2>4
<1>5. CASE UNCHANGED vars
  BY <1>5 DEF vars, TypeOK
<1> QED BY <1>1, <1>2, <1>3, <1>4, <1>5 DEF Next, Deliver

(* Whatever arrives and in whatever pieces, the state has its types: the   *)
(* length that is read is always a number, and what is cut out of the      *)
(* buffer is always bytes of it (handle_incoming_data).                    *)
THEOREM TypeCorrect == Spec => []TypeOK
BY TypeInit, TypeStep, PTL DEF Spec

-----------------------------------------------------------------------------
(* Messages in order.  The bytes of the messages already processed, what   *)
(* is in the buffer and on the wire, and what a connection that ended took *)
(* with it, make the stream of all that was sent.                          *)

(* The bytes of a connection that the receiver has or will have. *)
Undelivered(s) == (IF last = s THEN buffer ELSE <<>>) \o wire[s]

Accounted(s, lost) ==
    Stream(sent[s])[Len(processed[s])] \o (Undelivered(s) \o lost)
        = Stream(sent[s])[Len(sent[s])]

InOrder(s) ==
    /\ Len(processed[s]) <= Len(sent[s])
    /\ \A i \in 1..Len(processed[s]) : processed[s][i] = sent[s][i]
    /\ \E lost \in Seq(Byte) : (s \notin ended => lost = <<>>) /\ Accounted(s, lost)

OrderInv ==
    /\ TypeOK
    /\ ~mixed => \A s \in Sessions : InOrder(s)
    /\ OverrunNeedsHugeMessage

LEMMA SessionTypes ==
    ASSUME TypeOK, NEW s \in Sessions
    PROVE  /\ buffer \in Seq(Byte) /\ wire[s] \in Seq(Byte) /\ last \in Sessions
           /\ (IF last = s THEN buffer ELSE <<>>) \in Seq(Byte)
           /\ Undelivered(s) \in Seq(Byte)
           /\ sent[s] \in Seq(Messages) /\ Len(sent[s]) \in Nat
           /\ processed[s] \in Seq(Seq(Byte)) /\ Len(processed[s]) \in Nat
<1>1. /\ buffer \in Seq(Byte) /\ wire[s] \in Seq(Byte) /\ last \in Sessions
      /\ sent[s] \in Seq(Messages) /\ processed[s] \in Seq(Seq(Byte))
  BY DEF TypeOK
<1>2. (IF last = s THEN buffer ELSE <<>>) \in Seq(Byte)
  BY <1>1, EmptySeq
<1>3. Undelivered(s) \in Seq(Byte)
  BY <1>1, <1>2, BytesConcat DEF Undelivered
<1> QED BY <1>1, <1>2, <1>3, LenProperties

LEMMA OrderInit == Init => OrderInv
<1> SUFFICES ASSUME Init PROVE OrderInv
  OBVIOUS
<1>1. TypeOK
  BY TypeInit
<1>2. ASSUME NEW s \in Sessions PROVE InOrder(s)
  <2>1. wire[s] = <<>> /\ buffer = <<>> /\ sent[s] = <<>> /\ processed[s] = <<>>
    BY DEF Init
  <2>2. <<>> \in Seq(Byte) /\ <<>> \in Seq(Messages) /\ Len(<<>>) = 0
    BY EmptySeq
  <2>3. Stream(<<>>)[0] = <<>>
    BY <2>2, StreamFacts
  <2>4. <<>> \o <<>> = <<>>
    BY <2>2, ConcatEmptySeq
  <2>5. Undelivered(s) = <<>>
    BY <2>1, <2>4 DEF Undelivered
  <2>6. Accounted(s, <<>>)
    <3>1. /\ Stream(sent[s])[Len(processed[s])] = <<>>
          /\ Stream(sent[s])[Len(sent[s])] = <<>>
      BY <2>1, <2>2, <2>3
    <3> QED BY <3>1, <2>4, <2>5 DEF Accounted
  <2>7. Len(processed[s]) = 0 /\ Len(sent[s]) = 0
    BY <2>1
  <2>8. \A i \in 1..Len(processed[s]) : processed[s][i] = sent[s][i]
    BY <2>7
  <2>9. \E lost \in Seq(Byte) : (s \notin ended => lost = <<>>) /\ Accounted(s, lost)
    BY <2>2, <2>6
  <2> QED BY <2>7, <2>8, <2>9 DEF InOrder
<1> QED BY <1>1, <1>2 DEF OrderInv, OverrunNeedsHugeMessage, Init

LEMMA SendKeepsOrder ==
    ASSUME TypeOK, NEW s \in Sessions, NEW m \in Messages, Send(s, m),
           NEW t \in Sessions, InOrder(t)
    PROVE  InOrder(t)'
<1> DEFINE n == Len(sent[t])
           k == Len(processed[t])
<1>1. CASE t # s
  <2>1. sent'[t] = sent[t] /\ wire'[t] = wire[t] /\ processed' = processed
    BY <1>1 DEF Send, TypeOK
  <2> QED BY <2>1 DEF Send, InOrder, Accounted, Undelivered
<1>2. CASE t = s
  <2> DEFINE held == IF last = t THEN buffer ELSE <<>>
             front == Stream(sent[t])[k]
             e == Encode(m)
  <2>1. /\ sent'[t] = Append(sent[t], m) /\ wire'[t] = wire[t] \o e
        /\ UNCHANGED <<buffer, last, processed, ended>> /\ t \notin ended
    BY <1>2 DEF Send, TypeOK
  <2>2. k \in 0..n /\ n \in Nat
    BY SessionTypes DEF InOrder
  <2>3. Accounted(t, <<>>)
    BY <2>1 DEF InOrder
  <2>4. /\ held \in Seq(Byte) /\ wire[t] \in Seq(Byte) /\ e \in Seq(Byte)
        /\ front \in Seq(Byte) /\ <<>> \in Seq(Byte) /\ Undelivered(t) \in Seq(Byte)
    BY <2>2, SessionTypes, MessageFacts, StreamFacts, EmptySeq
  <2>5. front \o Undelivered(t) = Stream(sent[t])[n]
    BY <2>3, <2>4, ConcatEmptySeq DEF Accounted
  <2>6. Stream(sent'[t])[k] = front /\ Stream(sent'[t])[n + 1] = Stream(sent[t])[n] \o e
    BY <2>1, <2>2, SessionTypes, StreamAppend
  <2>7. Undelivered(t)' = Undelivered(t) \o e
    <3>1. Undelivered(t)' = held \o (wire[t] \o e)
      BY <2>1 DEF Undelivered
    <3>2. Undelivered(t) = held \o wire[t]
      BY DEF Undelivered
    <3>3. held \in Seq(Byte) /\ wire[t] \in Seq(Byte) /\ e \in Seq(Byte)
      BY <2>4
    <3> HIDE DEF held, e
    <3>4. (held \o wire[t]) \o e = held \o (wire[t] \o e)
      BY <3>3, BytesAssociative
    <3> QED BY <3>1, <3>2, <3>4
  <2>8. /\ Len(sent'[t]) = n + 1
        /\ \A i \in 1..n : sent'[t][i] = sent[t][i]
    BY <2>1, SessionTypes, AppendProperties
  <2>9. front \o (Undelivered(t)' \o <<>>) = Stream(sent'[t])[n + 1]
    <3>1. Undelivered(t) \o e \in Seq(Byte)
      BY <2>4, BytesConcat
    <3>2. Undelivered(t)' \o <<>> = Undelivered(t) \o e
      BY <2>7, <3>1, ConcatEmptySeq
    <3> HIDE DEF front, e
    <3>3. (front \o Undelivered(t)) \o e = front \o (Undelivered(t) \o e)
      BY <2>4, BytesAssociative
    <3> QED BY <2>5, <2>6, <3>2, <3>3
  <2>10. Accounted(t, <<>>)'
    BY <2>1, <2>6, <2>8, <2>9 DEF Accounted
  <2>11. /\ Len(processed'[t]) <= Len(sent'[t])
         /\ \A i \in 1..Len(processed'[t]) : processed'[t][i] = sent'[t][i]
    BY <2>1, <2>2, <2>8 DEF InOrder
  <2> QED BY <2>4, <2>10, <2>11 DEF InOrder
<1> QED BY <1>1, <1>2

LEMMA ReceiveKeepsOrder ==
    ASSUME TypeOK, NEW s \in Sessions, NEW n \in Nat \ {0}, Receive(s, n), ~mixed',
           NEW t \in Sessions, InOrder(t)
    PROVE  InOrder(t)'
<1> DEFINE piece == SubSeq(wire[s], 1, n)
           others == SubSeq(wire[s], n + 1, Len(wire[s]))
<1>1. /\ UNCHANGED <<ended, sent, processed>> /\ last' = s
      /\ buffer' = buffer \o piece
      /\ buffer = <<>> \/ last = s
      /\ n <= Len(wire[s])
      /\ wire' = [wire EXCEPT ![s] = others]
    BY DEF Receive
<1>2. /\ buffer \in Seq(Byte) /\ wire[s] \in Seq(Byte) /\ wire[t] \in Seq(Byte)
      /\ Len(wire[s]) \in Nat
  BY SessionTypes, LenProperties
<1>3. piece \in Seq(Byte) /\ others \in Seq(Byte)
  BY <1>1, <1>2, PieceOfBytes
<1>4. piece \o others = wire[s]
  <2>1. piece \o others = SubSeq(wire[s], 1, Len(wire[s]))
    <3>1. /\ 1 \in 1..(Len(wire[s]) + 1) /\ n \in (1 - 1)..Len(wire[s])
          /\ Len(wire[s]) \in n..Len(wire[s])
      BY <1>1, <1>2
    <3> QED BY <1>2, <3>1, ConcatAdjacentSubSeq
  <2> QED BY <1>2, <2>1, SubSeqFull
<1> HIDE DEF piece, others
<1>5. Undelivered(t)' = Undelivered(t)
  <2>1. CASE t = s
    <3>1. Undelivered(t)' = (buffer \o piece) \o others
      BY <1>1, <2>1 DEF Undelivered, TypeOK
    <3>2. (buffer \o piece) \o others = buffer \o wire[s]
      <4>1. (buffer \o piece) \o others = buffer \o (piece \o others)
        BY <1>2, <1>3, BytesAssociative
      <4> QED BY <1>4, <4>1
    <3>3. Undelivered(t) = buffer \o wire[s]
      BY <1>1, <2>1 DEF Undelivered
    <3> QED BY <3>1, <3>2, <3>3
  <2>2. CASE t # s
    <3>1. Undelivered(t)' = <<>> \o wire[t]
      BY <1>1, <2>2 DEF Undelivered, TypeOK
    <3>2. Undelivered(t) = <<>> \o wire[t]
      BY <1>1, <2>2 DEF Undelivered
    <3> QED BY <3>1, <3>2
  <2> QED BY <2>1, <2>2
<1> QED BY <1>1, <1>5 DEF InOrder, Accounted

LEMMA CloseKeepsOrder ==
    ASSUME TypeOK, NEW s \in Sessions, NEW n \in 0..Len(wire[s]), Close(s, n),
           NEW t \in Sessions, InOrder(t)
    PROVE  InOrder(t)'
<1>1. /\ UNCHANGED <<buffer, last, sent, processed>> /\ ended' = ended \cup {s}
      /\ wire' = [wire EXCEPT ![s] = SubSeq(wire[s], 1, n)]
  BY DEF Close
<1>2. PICK lost \in Seq(Byte) : (t \notin ended => lost = <<>>) /\ Accounted(t, lost)
  BY DEF InOrder
<1>3. CASE t # s
  <2>1. wire'[t] = wire[t] /\ (t \notin ended' => t \notin ended)
    BY <1>1, <1>3 DEF TypeOK
  <2>2. Accounted(t, lost)'
    BY <1>1, <1>2, <2>1 DEF Accounted, Undelivered
  <2> QED BY <1>1, <1>2, <2>1, <2>2 DEF InOrder
<1>4. CASE t = s
  <2> DEFINE held == IF last = t THEN buffer ELSE <<>>
             kept == SubSeq(wire[t], 1, n)
             cut == SubSeq(wire[t], n + 1, Len(wire[t]))
  <2>1. held \in Seq(Byte) /\ wire[t] \in Seq(Byte) /\ Len(wire[t]) \in Nat /\ n \in 0..Len(wire[t])
    BY <1>4, SessionTypes, LenProperties
  <2>2. kept \in Seq(Byte) /\ cut \in Seq(Byte)
    BY <2>1, PieceOfBytes
  <2>3. kept \o cut = wire[t]
    <3>1. kept \o cut = SubSeq(wire[t], 1, Len(wire[t]))
      <4>1. /\ 1 \in 1..(Len(wire[t]) + 1) /\ n \in (1 - 1)..Len(wire[t])
            /\ Len(wire[t]) \in n..Len(wire[t])
        BY <2>1
      <4> QED BY <2>1, <4>1, ConcatAdjacentSubSeq
    <3> QED BY <2>1, <3>1, SubSeqFull
  <2>4. Undelivered(t)' = held \o kept
    BY <1>1, <1>4 DEF Undelivered, TypeOK
  <2>5. Undelivered(t) = held \o (kept \o cut)
    BY <2>3 DEF Undelivered
  <2> HIDE DEF held, kept, cut
  <2>6. cut \o lost \in Seq(Byte)
    BY <1>2, <2>2, BytesConcat
  <2>7. (held \o kept) \o (cut \o lost) = (held \o (kept \o cut)) \o lost
    <3>1. (held \o kept) \o (cut \o lost) = ((held \o kept) \o cut) \o lost
      <4>1. held \o kept \in Seq(Byte)
        BY <2>1, <2>2, BytesConcat
      <4> QED BY <1>2, <2>2, <4>1, BytesAssociative
    <3>2. (held \o kept) \o cut = held \o (kept \o cut)
      BY <2>1, <2>2, BytesAssociative
    <3> QED BY <3>1, <3>2
  <2>8. PICK more : more = cut \o lost
    OBVIOUS
  <2>9. Undelivered(t)' \o more = Undelivered(t) \o lost
    BY <2>4, <2>5, <2>7, <2>8
  <2>10. Accounted(t, more)'
    BY <1>1, <1>2, <2>9 DEF Accounted
  <2>11. t \in ended' /\ more \in Seq(Byte)
    BY <1>1, <1>4, <2>6, <2>8
  <2> QED BY <1>1, <2>10, <2>11 DEF InOrder
<1> QED BY <1>3, <1>4

(* On a host that keeps the order of the bytes, one round of the loop      *)
(* takes the next message from the buffer, or needs more bytes than there  *)
(* are, and that only when header and message together have no number.     *)
LEMMA ExtractKeepsOrder ==
    ASSUME ~LittleEndian, TypeOK, Extract, InOrder(last)
    PROVE  /\ \A t \in Sessions : InOrder(t) => InOrder(t)'
           /\ broken' => \E m \in ToSet(sent[last]) : HeaderSize + Len(m) >= Word
<1> USE SizeAssumption
<1> DEFINE s == last
           ms == sent[s]
           k == Len(processed[s])
           length == MessageLength(buffer)
<1>1. PICK lost \in Seq(Byte) : (s \notin ended => lost = <<>>) /\ Accounted(s, lost)
  BY DEF InOrder
<1>2. /\ s \in Sessions /\ buffer \in Seq(Byte) /\ wire[s] \in Seq(Byte)
      /\ ms \in Seq(Messages) /\ Len(ms) \in Nat /\ k \in 0..Len(ms)
      /\ processed[s] \in Seq(Seq(Byte))
  <2>1. last \in Sessions
    BY DEF TypeOK
  <2> QED BY <2>1, SessionTypes DEF InOrder
<1>3. Len(buffer) >= HeaderSize /\ Len(buffer) >= Needed(length) /\ ~broken
  BY DEF Extract, CanExtract
<1>4. PICK w \in Seq(Byte) : w = wire[s] \o lost
  BY <1>1, <1>2, BytesConcat
<1>5. Stream(ms)[k] \o (buffer \o w) = Stream(ms)[Len(ms)]
  <2>1. (buffer \o wire[s]) \o lost = buffer \o (wire[s] \o lost)
    <3>1. buffer \in Seq(Byte) /\ wire[s] \in Seq(Byte) /\ lost \in Seq(Byte)
      BY <1>2
    <3> QED BY <3>1, BytesAssociative
  <2> QED BY <1>1, <1>4, <2>1 DEF Accounted, Undelivered
<1>6. /\ k + 1 \in 1..Len(ms) /\ ms[k + 1] \in Messages
      /\ length = Len(ms[k + 1])
      /\ \E u \in Seq(Byte) : buffer \o w = Encode(ms[k + 1]) \o u
  <2>1. /\ ms \in Seq(Messages) /\ k \in 0..Len(ms) /\ buffer \in Seq(Byte) /\ w \in Seq(Byte)
        /\ Len(buffer) >= HeaderSize
    BY <1>2, <1>3, <1>4
  <2> HIDE SizeAssumption
  <2> HIDE DEF s, ms, k
  <2> QED BY <1>5, <2>1, NextMessage
<1>7. PICK m \in Messages : m = ms[k + 1]
  BY <1>6
<1>8. PICK u \in Seq(Byte) : buffer \o w = Encode(m) \o u
  BY <1>6, <1>7
<1>9. length = Len(m) /\ Len(m) \in 0..(Word - 1) /\ Len(m) \in Nat
  BY <1>6, <1>7, MessageFacts
<1>10. m \in ToSet(sent[last])
  <2>1. DOMAIN ms = 1..Len(ms)
    BY <1>2, LenProperties
  <2> QED BY <1>6, <1>7, <2>1 DEF ToSet
<1>11. CASE Len(buffer) < HeaderSize + length
  <2>1. UNCHANGED <<wire, ended, buffer, last, sent, processed>>
    BY <1>11 DEF Extract
  <2>2. \A t \in Sessions : InOrder(t) => InOrder(t)'
    BY <2>1 DEF InOrder, Accounted, Undelivered
  <2>3. HeaderSize + Len(m) >= Word
    <3> SUFFICES ASSUME HeaderSize + Len(m) < Word PROVE FALSE
      BY <1>9, ByteFacts
    <3>1. HeaderSize + Len(m) \in 0..(Word - 1) /\ Word \in Nat \ {0}
      BY <1>9, ByteFacts
    <3>2. (HeaderSize + Len(m)) % Word = HeaderSize + Len(m)
      BY <3>1, ModOfSmall
    <3> QED BY <1>3, <1>9, <1>11, <3>2 DEF Needed
  <2> QED BY <1>10, <2>2, <2>3
<1>12. CASE ~(Len(buffer) < HeaderSize + length)
  <2>1. /\ UNCHANGED <<wire, ended, last, sent>> /\ broken' = broken
        /\ processed' = [processed EXCEPT ![s] =
               Append(processed[s], SubSeq(buffer, HeaderSize + 1, HeaderSize + length))]
        /\ buffer' = Rest(length)
    BY <1>12 DEF Extract
  <2>2. Len(buffer) \in Nat /\ Len(buffer) >= HeaderSize + Len(m)
    BY <1>2, <1>9, <1>12, LenProperties
  <2>3. /\ SubSeq(buffer, HeaderSize + 1, HeaderSize + Len(m)) = m
        /\ buffer = Encode(m) \o buffer'
        /\ buffer' \in Seq(Byte)
    BY <1>2, <1>4, <1>7, <1>8, <1>9, <2>1, <2>2, WholeMessage DEF Rest
  <2>4. processed'[s] = Append(processed[s], m)
    BY <1>2, <1>9, <2>1, <2>3 DEF TypeOK
  <2>5. m \in Seq(Byte) /\ Encode(m) \in Seq(Byte)
    BY MessageFacts
  <2>6. /\ Len(processed'[s]) = k + 1
        /\ \A i \in 1..k : processed'[s][i] = processed[s][i]
        /\ processed'[s][k + 1] = m
    BY <1>2, <2>4, <2>5, AppendProperties
  <2>7. ASSUME NEW t \in Sessions, InOrder(t), t # s PROVE InOrder(t)'
    <3>1. processed'[t] = processed[t]
      BY <2>1, <2>7
    <3>2. Undelivered(t)' = Undelivered(t)
      BY <2>1, <2>7 DEF Undelivered
    <3> QED BY <2>1, <2>7, <3>1, <3>2 DEF InOrder, Accounted
  <2>8. InOrder(s)'
    <3>1. \A i \in 1..(k + 1) : processed'[s][i] = sent[s][i]
      <4> SUFFICES ASSUME NEW i \in 1..(k + 1) PROVE processed'[s][i] = sent[s][i]
        OBVIOUS
      <4>1. CASE i \in 1..k
        BY <2>6, <4>1 DEF InOrder
      <4>2. CASE i = k + 1
        BY <1>2, <1>7, <2>6, <4>2
      <4>3. i \in 1..k \/ i = k + 1
        BY <1>2
      <4> QED BY <4>1, <4>2, <4>3
    <3>2. Stream(ms)[k + 1] \o (buffer' \o w) = Stream(ms)[Len(ms)]
      <4> DEFINE front == Stream(ms)[k]
      <4>1. Stream(ms)[k + 1] = front \o Encode(m)
        <5>1. (k + 1) - 1 = k
          BY <1>2
        <5> QED BY <1>2, <1>6, <1>7, <5>1, StreamFacts
      <4>2. front \in Seq(Byte)
        BY <1>2, StreamFacts
      <4>3. front \o (buffer \o w) = Stream(ms)[Len(ms)]
        BY <1>5
      <4> HIDE DEF front
      <4>4. buffer \o w = Encode(m) \o (buffer' \o w)
        <5>1. w \in Seq(Byte) /\ buffer' \in Seq(Byte) /\ Encode(m) \in Seq(Byte)
          BY <2>3, <2>5
        <5>2. (Encode(m) \o buffer') \o w = Encode(m) \o (buffer' \o w)
          BY <5>1, BytesAssociative
        <5> QED BY <2>3, <5>2
      <4>5. buffer' \o w \in Seq(Byte)
        BY <1>4, <2>3, BytesConcat
      <4>6. (front \o Encode(m)) \o (buffer' \o w) = front \o (Encode(m) \o (buffer' \o w))
        BY <2>5, <4>2, <4>5, BytesAssociative
      <4> QED BY <4>1, <4>3, <4>4, <4>6
    <3>3. Undelivered(s)' \o lost = buffer' \o w
      <4>1. (buffer' \o wire[s]) \o lost = buffer' \o (wire[s] \o lost)
        BY <1>1, <1>2, <2>3, BytesAssociative
      <4> QED BY <1>4, <2>1, <4>1 DEF Undelivered
    <3>4. Accounted(s, lost)'
      BY <2>1, <2>6, <3>2, <3>3 DEF Accounted
    <3>5. \E more \in Seq(Byte) : (s \notin ended' => more = <<>>) /\ Accounted(s, more)'
      BY <1>1, <2>1, <3>4
    <3>6. /\ Len(processed'[s]) <= Len(sent'[s])
          /\ \A i \in 1..Len(processed'[s]) : processed'[s][i] = sent'[s][i]
      BY <1>2, <1>6, <2>1, <2>6, <3>1
    <3> QED BY <2>1, <3>5, <3>6 DEF InOrder
  <2> QED BY <1>3, <2>1, <2>7, <2>8
<1> QED BY <1>11, <1>12

LEMMA OrderStep ==
    ASSUME ~LittleEndian
    PROVE  OrderInv /\ [Next]_vars => OrderInv'
<1> SUFFICES ASSUME OrderInv, [Next]_vars PROVE OrderInv'
  OBVIOUS
<1> USE SizeAssumption
<1>1. TypeOK /\ TypeOK'
  BY TypeStep DEF OrderInv
<1>2. ASSUME NEW s \in Sessions, NEW m \in Messages, Send(s, m) PROVE OrderInv'
  <2>1. mixed' = mixed /\ broken' = broken
    BY <1>2 DEF Send
  <2>2. ~mixed' => \A t \in Sessions : InOrder(t)'
    BY <1>1, <1>2, <2>1, SendKeepsOrder DEF OrderInv
  <2>3. \A t \in Sessions : ToSet(sent[t]) \subseteq ToSet(sent'[t])
    <3> SUFFICES ASSUME NEW t \in Sessions PROVE ToSet(sent[t]) \subseteq ToSet(sent'[t])
      OBVIOUS
    <3>1. CASE t # s
      BY <1>1, <1>2, <3>1 DEF Send, TypeOK
    <3>2. CASE t = s
      <4>1. sent'[t] = Append(sent[t], m) /\ sent[t] \in Seq(Messages)
        BY <1>1, <1>2, <3>2 DEF Send, TypeOK
      <4>2. /\ sent'[t] \in Seq(Messages) /\ Len(sent'[t]) = Len(sent[t]) + 1
            /\ \A i \in 1..Len(sent[t]) : sent'[t][i] = sent[t][i]
        BY <4>1, AppendProperties
      <4>3. /\ DOMAIN sent[t] = 1..Len(sent[t]) /\ DOMAIN sent'[t] = 1..(Len(sent[t]) + 1)
            /\ Len(sent[t]) \in Nat
        BY <4>1, <4>2, LenProperties
      <4> QED BY <4>2, <4>3 DEF ToSet
    <3> QED BY <3>1, <3>2
  <2> QED BY <1>1, <2>1, <2>2, <2>3 DEF OrderInv, OverrunNeedsHugeMessage
<1>3. ASSUME NEW s \in Sessions, NEW n \in 1..ReadSize, Receive(s, n) PROVE OrderInv'
  <2>1. (mixed => mixed') /\ broken' = broken /\ sent' = sent
    BY <1>3, Zenon DEF Receive
  <2>3. n \in Nat \ {0}
    OBVIOUS
  <2>2. ~mixed' => \A t \in Sessions : InOrder(t)'
    BY <1>1, <1>3, <2>1, <2>3, ReceiveKeepsOrder DEF OrderInv
  <2> QED BY <1>1, <2>1, <2>2 DEF OrderInv, OverrunNeedsHugeMessage
<1>4. ASSUME NEW s \in Sessions, NEW n \in 0..Len(wire[s]), Close(s, n) PROVE OrderInv'
  <2>1. mixed' = mixed /\ broken' = broken /\ sent' = sent
    BY <1>4 DEF Close
  <2>2. ~mixed' => \A t \in Sessions : InOrder(t)'
    BY <1>1, <1>4, <2>1, CloseKeepsOrder DEF OrderInv
  <2> QED BY <1>1, <2>1, <2>2 DEF OrderInv, OverrunNeedsHugeMessage
<1>5. CASE Extract
  <2>1. mixed' = mixed /\ sent' = sent /\ last \in Sessions
    BY <1>1, <1>5 DEF Extract, TypeOK
  <2>2. CASE mixed
    BY <1>1, <2>1, <2>2 DEF OrderInv, OverrunNeedsHugeMessage
  <2>3. CASE ~mixed
    <3>1. \A t \in Sessions : InOrder(t)
      BY <2>3 DEF OrderInv
    <3>2. /\ \A t \in Sessions : InOrder(t)'
          /\ broken' => \E m \in ToSet(sent[last]) : HeaderSize + Len(m) >= Word
      BY <1>1, <1>5, <2>1, <3>1, ExtractKeepsOrder
    <3> QED BY <1>1, <2>1, <3>2 DEF OrderInv, OverrunNeedsHugeMessage
  <2> QED BY <2>2, <2>3
<1>6. CASE UNCHANGED vars
  BY <1>1, <1>6 DEF vars, OrderInv, InOrder, Accounted, Undelivered, OverrunNeedsHugeMessage
<1> QED BY <1>2, <1>3, <1>4, <1>5, <1>6 DEF Next, Deliver

LEMMA OrderImplies == OrderInv => ProcessedInOrder /\ OverrunNeedsHugeMessage
<1> SUFFICES ASSUME OrderInv, ~mixed, NEW s \in Sessions
             PROVE  IsPrefix(processed[s], sent[s])
  BY DEF OrderInv, ProcessedInOrder
<1>1. TypeOK /\ InOrder(s)
  BY DEF OrderInv
<1> DEFINE k == Len(processed[s])
<1>2. /\ k \in Nat /\ Len(sent[s]) \in Nat /\ k <= Len(sent[s])
      /\ \A i \in 1..k : processed[s][i] = sent[s][i]
  BY <1>1, SessionTypes DEF InOrder
<1>3. \A i \in 1..k : processed[s][i] \in Seq(Byte)
  BY <1>1, SessionTypes, ElementOfSeq
<1>4. \A i \in 1..k : sent[s][i] \in Seq(Byte)
  BY <1>2, <1>3
<1>5. /\ SubSeq(processed[s], 1, k) \in Seq(Seq(Byte)) /\ Len(SubSeq(processed[s], 1, k)) = k
      /\ \A i \in 1..k : SubSeq(processed[s], 1, k)[i] = processed[s][i]
  BY <1>2, <1>3, SubSeqProperties
<1>6. /\ SubSeq(sent[s], 1, k) \in Seq(Seq(Byte)) /\ Len(SubSeq(sent[s], 1, k)) = k
      /\ \A i \in 1..k : SubSeq(sent[s], 1, k)[i] = sent[s][i]
  BY <1>2, <1>4, SubSeqProperties
<1>7. SubSeq(processed[s], 1, k) = SubSeq(sent[s], 1, k)
  BY <1>2, <1>5, <1>6, SeqEqual
<1> QED BY <1>2, <1>7 DEF IsPrefix

(* A host that keeps the order of the bytes processes, on each connection, *)
(* what was sent on it, whole and in order, however the bytes are cut into *)
(* pieces and whenever connections end, until a piece is put behind a half *)
(* message of another one (handle_incoming_data).                          *)
THEOREM FramingInOrder ==
    ASSUME ~LittleEndian
    PROVE  Spec => []ProcessedInOrder
<1>1. Init => OrderInv
  BY OrderInit
<1>2. OrderInv /\ [Next]_vars => OrderInv'
  BY OrderStep
<1>3. OrderInv => ProcessedInOrder
  BY OrderImplies
<1> QED BY <1>1, <1>2, <1>3, PTL DEF Spec

(* The loop reads past the buffer only for a message whose length and      *)
(* header together are a number of more than 32 bits, unless connections   *)
(* were mixed: a shorter message waits until all of it is there.           *)
THEOREM OverrunOnlyByHugeMessage ==
    ASSUME ~LittleEndian
    PROVE  Spec => []OverrunNeedsHugeMessage
<1>1. Init => OrderInv
  BY OrderInit
<1>2. OrderInv /\ [Next]_vars => OrderInv'
  BY OrderStep
<1>3. OrderInv => OverrunNeedsHugeMessage
  BY OrderImplies
<1> QED BY <1>1, <1>2, <1>3, PTL DEF Spec
=============================================================================

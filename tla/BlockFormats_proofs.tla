------------------------- MODULE BlockFormats_proofs -------------------------
(***************************************************************************)
(* What serialize and deserialize do, for every transaction and block,     *)
(* whatever the sizes of the fields: they are inverse to each other and a  *)
(* content that was cut off is refused.  What follows from it for a block  *)
(* file (BlockFile) and for the messages between nodes (NodeMessages).     *)
(***************************************************************************)
EXTENDS BlockFile, NodeMessages, SequenceTheorems, Induction, TLAPS

(* Any n words are a sequence of that length. *)
LEMMA FieldsAreSeqs ==
    ASSUME NEW n \in Nat, NEW f \in Fields(n)
    PROVE  f \in Seq(Nat) /\ Len(f) = n
  BY SeqDef, LenProperties DEF Fields

LEMMA SeqsAreFields ==
    ASSUME NEW s \in Seq(Nat)
    PROVE  s \in Fields(Len(s))
  BY LenProperties DEF Fields

(* The words of f are found in d, behind its first ones. *)
At(d, offset, f) ==
    offset + Len(f) <= Len(d) /\ \A i \in 1..Len(f) : d[offset + i] = f[i]

LEMMA FieldIs ==
    ASSUME NEW d \in Seq(Nat), NEW offset \in Nat, NEW f \in Seq(Nat), At(d, offset, f)
    PROVE  Field(d, offset, Len(f)) = f
<1> DEFINE from == offset + 1
           to == offset + Len(f)
           s == SubSeq(d, from, to)
<1>1. /\ Len(f) \in Nat /\ Len(d) \in Nat /\ offset + Len(f) <= Len(d)
      /\ \A i \in 1..Len(f) : d[offset + i] = f[i]
  BY LenProperties DEF At
<1>2. \A i \in from..to : d[i] \in Nat
  BY <1>1, ElementOfSeq
<1>3. from \in Int /\ to \in Int
  BY <1>1
<1>4. s \in Seq(Nat) /\ (\A i \in 1..(to - from + 1) : s[i] = d[from + i - 1])
  BY <1>2, <1>3, SubSeqProperties
<1>5. Len(s) = IF from <= to THEN to - from + 1 ELSE 0
  <2> HIDE DEF from, to
  <2> QED
    BY <1>2, <1>3, SubSeqProperties
<1>6. Len(s) = Len(f)
  BY <1>1, <1>5
<1>7. \A i \in 1..Len(s) : s[i] = f[i]
  BY <1>1, <1>4, <1>6
<1>8. s = f
  <2> HIDE DEF s
  <2> QED
    BY <1>4, <1>6, <1>7, SeqEqual
<1> QED
  BY <1>8 DEF Field

(* A piece behind another one, and what comes before it. *)
LEMMA TwoPieces ==
    ASSUME NEW x \in Seq(Nat), NEW y \in Seq(Nat)
    PROVE  /\ x \o y \in Seq(Nat)
           /\ Len(x \o y) = Len(x) + Len(y)
           /\ \A i \in 1..Len(x) : (x \o y)[i] = x[i]
           /\ \A i \in 1..Len(y) : (x \o y)[Len(x) + i] = y[i]
<1>1. Len(x) \in Nat /\ Len(y) \in Nat
  BY LenProperties
<1>2. /\ x \o y \in Seq(Nat)
      /\ Len(x \o y) = Len(x) + Len(y)
      /\ \A i \in 1..(Len(x) + Len(y)) :
            (x \o y)[i] = IF i <= Len(x) THEN x[i] ELSE y[i - Len(x)]
  BY ConcatProperties
<1>3. ASSUME NEW i \in 1..Len(y) PROVE (x \o y)[Len(x) + i] = y[i]
  <2>1. Len(x) + i \in 1..(Len(x) + Len(y)) /\ ~(Len(x) + i <= Len(x))
    BY <1>1
  <2>2. (Len(x) + i) - Len(x) = i
    BY <1>1
  <2> QED
    BY <1>2, <2>1, <2>2
<1> QED
  BY <1>1, <1>2, <1>3

(* Five pieces one after the other, as the contents have them. *)
Laid(d, p, q, k, s, h) ==
    /\ d \in Seq(Nat)
    /\ Len(d) = Len(p) + Len(q) + Len(k) + Len(s) + Len(h)
    /\ At(d, 0, p)
    /\ At(d, Len(p), q)
    /\ At(d, Len(p) + Len(q), k)
    /\ At(d, Len(p) + Len(q) + Len(k), s)
    /\ At(d, Len(p) + Len(q) + Len(k) + Len(s), h)

LEMMA FivePieces ==
    ASSUME NEW p \in Seq(Nat), NEW q \in Seq(Nat), NEW k \in Seq(Nat),
           NEW s \in Seq(Nat), NEW h \in Seq(Nat)
    PROVE  Laid(p \o q \o k \o s \o h, p, q, k, s, h)
<1> SUFFICES ASSUME NEW d, d = p \o q \o k \o s \o h
             PROVE  Laid(d, p, q, k, s, h)
  OBVIOUS
<1>1. Len(p) \in Nat /\ Len(q) \in Nat /\ Len(k) \in Nat /\ Len(s) \in Nat /\ Len(h) \in Nat
  BY LenProperties
<1>2. PICK a \in Seq(Nat) : a = p \o q
  BY TwoPieces
<1>3. PICK b \in Seq(Nat) : b = a \o k
  BY TwoPieces
<1>4. PICK c \in Seq(Nat) : c = b \o s
  BY TwoPieces
<1>5. d = c \o h
  BY <1>2, <1>3, <1>4
<1>6. /\ Len(a) = Len(p) + Len(q)
      /\ \A i \in 1..Len(p) : a[i] = p[i]
      /\ \A i \in 1..Len(q) : a[Len(p) + i] = q[i]
  BY <1>2, TwoPieces
<1>7. /\ Len(b) = Len(a) + Len(k)
      /\ \A i \in 1..Len(a) : b[i] = a[i]
      /\ \A i \in 1..Len(k) : b[Len(a) + i] = k[i]
  BY <1>3, TwoPieces
<1>8. /\ Len(c) = Len(b) + Len(s)
      /\ \A i \in 1..Len(b) : c[i] = b[i]
      /\ \A i \in 1..Len(s) : c[Len(b) + i] = s[i]
  BY <1>4, TwoPieces
<1>9. /\ d \in Seq(Nat)
      /\ Len(d) = Len(c) + Len(h)
      /\ \A i \in 1..Len(c) : d[i] = c[i]
      /\ \A i \in 1..Len(h) : d[Len(c) + i] = h[i]
  BY <1>5, TwoPieces
<1>10. ASSUME NEW i \in 1..Len(b) PROVE d[i] = b[i]
  <2>1. i \in 1..Len(c)
    BY <1>1, <1>8, LenProperties
  <2> QED
    BY <1>8, <1>9, <2>1
<1>11. ASSUME NEW i \in 1..Len(a) PROVE d[i] = a[i]
  <2>1. i \in 1..Len(b)
    BY <1>1, <1>7, LenProperties
  <2> QED
    BY <1>7, <1>10, <2>1
<1>12. ASSUME NEW i \in 1..Len(p) PROVE d[i] = p[i]
  <2>1. i \in 1..Len(a)
    BY <1>1, <1>6, LenProperties
  <2> QED
    BY <1>6, <1>11, <2>1
<1>13. ASSUME NEW i \in 1..Len(q) PROVE d[Len(p) + i] = q[i]
  <2>1. Len(p) + i \in 1..Len(a)
    BY <1>1, <1>6
  <2> QED
    BY <1>6, <1>11, <2>1
<1>14. ASSUME NEW i \in 1..Len(k) PROVE d[Len(p) + Len(q) + i] = k[i]
  <2>1. Len(a) + i \in 1..Len(b)
    BY <1>1, <1>6, <1>7
  <2> QED
    BY <1>6, <1>7, <1>10, <2>1
<1>15. ASSUME NEW i \in 1..Len(s) PROVE d[Len(p) + Len(q) + Len(k) + i] = s[i]
  <2>1. Len(b) + i \in 1..Len(c) /\ Len(b) = Len(p) + Len(q) + Len(k)
    BY <1>1, <1>6, <1>7, <1>8
  <2>2. d[Len(b) + i] = s[i]
    BY <1>8, <1>9, <2>1
  <2> QED
    BY <2>1, <2>2
<1>16. ASSUME NEW i \in 1..Len(h) PROVE d[Len(p) + Len(q) + Len(k) + Len(s) + i] = h[i]
  BY <1>6, <1>7, <1>8, <1>9
<1>17. Len(d) = Len(p) + Len(q) + Len(k) + Len(s) + Len(h)
  BY <1>6, <1>7, <1>8, <1>9
<1>18. At(d, 0, p)
  BY <1>1, <1>12, <1>17 DEF At
<1>19. At(d, Len(p), q)
  BY <1>1, <1>13, <1>17 DEF At
<1>20. At(d, Len(p) + Len(q), k)
  BY <1>1, <1>14, <1>17 DEF At
<1>21. At(d, Len(p) + Len(q) + Len(k), s)
  <2>1. Len(p) + Len(q) + Len(k) + Len(s) <= Len(d)
    BY <1>1, <1>17
  <2> QED
    BY <1>15, <2>1 DEF At
<1>22. At(d, Len(p) + Len(q) + Len(k) + Len(s), h)
  BY <1>1, <1>16, <1>17 DEF At
<1> QED
  BY <1>9, <1>17, <1>18, <1>19, <1>20, <1>21, <1>22 DEF Laid
-----------------------------------------------------------------------------
LEMMA SizesAreNat == HashSize \in Nat /\ KeySize \in Nat /\ SignatureSize \in Nat
  BY FieldAssumption

(* The content of a time block: its size, and where its fields are. *)
LEMMA TimeBlockContent ==
    ASSUME NEW b \in AnyTimeBlock
    PROVE  /\ SerializeTimeBlock(b) \in Seq(Nat)
           /\ Len(SerializeTimeBlock(b)) = TimeBlockSize
           /\ DeserializeTimeBlock(SerializeTimeBlock(b)) = b
<1> DEFINE d == SerializeTimeBlock(b)
           rest == HashSize + 1
<1>1. /\ b.prev \in Seq(Nat) /\ Len(b.prev) = HashSize
      /\ b.key \in Seq(Nat) /\ Len(b.key) = KeySize
      /\ b.signature \in Seq(Nat) /\ Len(b.signature) = SignatureSize
      /\ b.hash \in Seq(Nat) /\ Len(b.hash) = HashSize
  BY SizesAreNat, FieldsAreSeqs DEF AnyTimeBlock
<1>2. /\ <<b.time>> \in Seq(Nat) /\ Len(<<b.time>>) = 1
      /\ \A i \in 1..1 : <<b.time>>[i] = b.time
  BY DEF AnyTimeBlock
<1>3. d = b.prev \o <<b.time>> \o b.key \o b.signature \o b.hash
  BY DEF SerializeTimeBlock
<1>4. Laid(d, b.prev, <<b.time>>, b.key, b.signature, b.hash)
  BY <1>1, <1>2, <1>3, FivePieces
<1> HIDE DEF d
<1>5. d \in Seq(Nat) /\ Len(d) = HashSize + 1 + KeySize + SignatureSize + HashSize
  BY <1>1, <1>2, <1>4 DEF Laid
<1>6. d[HashSize + 1] = b.time
  BY <1>1, <1>2, <1>4 DEF Laid, At
<1>7. Field(d, 0, HashSize) = b.prev
  BY <1>1, <1>4, <1>5, FieldIs DEF Laid
<1>8. Field(d, rest, KeySize) = b.key
  BY <1>1, <1>2, <1>4, <1>5, SizesAreNat, FieldIs DEF Laid
<1>9. Field(d, rest + KeySize, SignatureSize) = b.signature
  BY <1>1, <1>2, <1>4, <1>5, SizesAreNat, FieldIs DEF Laid
<1>10. Field(d, rest + KeySize + SignatureSize, HashSize) = b.hash
  BY <1>1, <1>2, <1>4, <1>5, SizesAreNat, FieldIs DEF Laid
<1>11. Len(d) = TimeBlockSize
  BY <1>5 DEF TimeBlockSize
<1>12. DeserializeTimeBlock(d) = b
  BY <1>6, <1>7, <1>8, <1>9, <1>10, <1>11
  DEF DeserializeTimeBlock, TimeBlockSizeMatches, AnyTimeBlock
<1> QED
  BY <1>5, <1>11, <1>12 DEF d

(* The same of a transaction, whatever data it has. *)
LEMMA TransactionLaid ==
    ASSUME NEW t \in AnyTransaction
    PROVE  LET d == SerializeTransaction(t) IN
           /\ d \in Seq(Nat)
           /\ Len(d) = MinTransactionSize + Len(t.data)
           /\ d[TransactionHead] = Len(t.data)
           /\ TransactionFields(d, Len(t.data)) = t
<1> DEFINE d == SerializeTransaction(t)
           keys == t.sender \o t.recipient
           pair == <<t.amount, Len(t.data)>>
           size == Len(t.data)
<1>1. /\ t.sender \in Seq(Nat) /\ Len(t.sender) = KeySize
      /\ t.recipient \in Seq(Nat) /\ Len(t.recipient) = KeySize
      /\ t.signature \in Seq(Nat) /\ Len(t.signature) = SignatureSize
      /\ t.hash \in Seq(Nat) /\ Len(t.hash) = HashSize
  BY SizesAreNat, FieldsAreSeqs DEF AnyTransaction
<1>2. t.amount \in Nat /\ t.data \in Seq(Nat) /\ size \in Nat
  BY LenProperties DEF AnyTransaction
<1> HIDE DEF size
<1>3. pair \in Seq(Nat) /\ Len(pair) = 2 /\ pair[1] = t.amount /\ pair[2] = size
  <2>1. pair = <<t.amount, size>>
    BY DEF size
  <2> HIDE DEF pair
  <2> QED
    BY <1>2, <2>1
<1>4. /\ keys \in Seq(Nat) /\ Len(keys) = 2 * KeySize
      /\ \A i \in 1..KeySize : keys[i] = t.sender[i]
      /\ \A i \in 1..KeySize : keys[KeySize + i] = t.recipient[i]
  <2>1. /\ keys \in Seq(Nat) /\ Len(keys) = Len(t.sender) + Len(t.recipient)
        /\ \A i \in 1..Len(t.sender) : keys[i] = t.sender[i]
        /\ \A i \in 1..Len(t.recipient) : keys[Len(t.sender) + i] = t.recipient[i]
    BY <1>1, TwoPieces
  <2> HIDE DEF keys
  <2> QED
    BY <1>1, <2>1, SizesAreNat
<1>5. d = keys \o pair \o t.data \o t.signature \o t.hash
  BY DEF SerializeTransaction
<1> HIDE DEF keys, pair
<1>6. Laid(d, keys, pair, t.data, t.signature, t.hash)
  BY <1>1, <1>2, <1>3, <1>4, <1>5, FivePieces
<1> HIDE DEF d
<1>7. d \in Seq(Nat) /\ Len(d) = 2 * KeySize + 2 + size + SignatureSize + HashSize
  BY <1>1, <1>3, <1>4, <1>6 DEF Laid, size
<1>8. d[2 * KeySize + 1] = t.amount /\ d[2 * KeySize + 2] = size
  <2>1. \A i \in 1..2 : d[2 * KeySize + i] = pair[i]
    BY <1>3, <1>4, <1>6 DEF Laid, At
  <2> QED
    BY <1>3, <2>1
<1>9. \A i \in 1..(2 * KeySize) : d[i] = keys[i]
  <2>1. \A i \in 1..(2 * KeySize) : d[0 + i] = keys[i]
    BY <1>4, <1>6 DEF Laid, At
  <2> QED
    BY <2>1, SizesAreNat
<1>10. At(d, 0, t.sender)
  BY <1>1, <1>2, <1>4, <1>7, <1>9, SizesAreNat DEF At
<1>11. At(d, KeySize, t.recipient)
  BY <1>1, <1>2, <1>4, <1>7, <1>9, SizesAreNat DEF At
<1>12. Field(d, 0, KeySize) = t.sender /\ Field(d, KeySize, KeySize) = t.recipient
  BY <1>1, <1>7, <1>10, <1>11, SizesAreNat, FieldIs
<1>13. Field(d, TransactionHead, size) = t.data
  <2>1. At(d, TransactionHead, t.data)
    BY <1>3, <1>4, <1>6 DEF Laid, TransactionHead
  <2> QED
    BY <1>2, <1>7, <2>1, SizesAreNat, FieldIs DEF TransactionHead, size
<1>14. Field(d, TransactionHead + size, SignatureSize) = t.signature
  <2>1. At(d, TransactionHead + size, t.signature)
    BY <1>3, <1>4, <1>6 DEF Laid, TransactionHead, size
  <2>2. TransactionHead + size \in Nat
    BY <1>2, SizesAreNat DEF TransactionHead
  <2> QED
    BY <1>1, <1>7, <2>1, <2>2, FieldIs
<1>15. Field(d, TransactionHead + size + SignatureSize, HashSize) = t.hash
  <2>1. At(d, TransactionHead + size + SignatureSize, t.hash)
    BY <1>1, <1>3, <1>4, <1>6 DEF Laid, TransactionHead, size
  <2>2. TransactionHead + size + SignatureSize \in Nat
    BY <1>2, SizesAreNat DEF TransactionHead
  <2> QED
    BY <1>1, <1>7, <2>1, <2>2, FieldIs
<1>16. d[TransactionHead - 1] = t.amount /\ d[TransactionHead] = size
  BY <1>8, SizesAreNat DEF TransactionHead
<1>17. Len(d) = MinTransactionSize + size
  BY <1>2, <1>7, SizesAreNat DEF MinTransactionSize, TransactionHead
<1>18. TransactionFields(d, size) = t
  BY <1>12, <1>13, <1>14, <1>15, <1>16 DEF TransactionFields, AnyTransaction
<1> QED
  BY <1>7, <1>16, <1>17, <1>18 DEF d, size

(* serialize and deserialize are inverse to each other on all transactions.*)
THEOREM TransactionRoundTrip ==
    \A t \in AnyTransaction : DeserializeTransaction(SerializeTransaction(t)) = t
<1> SUFFICES ASSUME NEW t \in AnyTransaction
             PROVE  DeserializeTransaction(SerializeTransaction(t)) = t
  OBVIOUS
<1> DEFINE d == SerializeTransaction(t)
<1>1. /\ Len(d) = MinTransactionSize + d[TransactionHead]
      /\ d[TransactionHead] \in Nat
      /\ TransactionFields(d, d[TransactionHead]) = t
  BY TransactionLaid, LenProperties DEF AnyTransaction
<1> HIDE DEF d
<1>2. TransactionHead <= Len(d)
  BY <1>1, SizesAreNat DEF MinTransactionSize, TransactionHead
<1>3. DeserializeTransaction(d) = t
  BY <1>1, <1>2 DEF DeserializeTransaction
<1> QED
  BY <1>3 DEF d

(* A transaction that was cut off is refused, wherever the cut is: the     *)
(* size of its data is either missing or names a longer content.           *)
THEOREM CutTransactionRefused ==
    \A t \in AnyTransaction : \A n \in 0..(Len(SerializeTransaction(t)) - 1) :
        DeserializeTransaction(SubSeq(SerializeTransaction(t), 1, n)) = Refused
<1> SUFFICES ASSUME NEW t \in AnyTransaction,
                    NEW n \in 0..(Len(SerializeTransaction(t)) - 1)
             PROVE  DeserializeTransaction(SubSeq(SerializeTransaction(t), 1, n)) = Refused
  OBVIOUS
<1> DEFINE d == SerializeTransaction(t)
           c == SubSeq(d, 1, n)
<1>1. /\ d \in Seq(Nat) /\ Len(d) = MinTransactionSize + Len(t.data)
      /\ d[TransactionHead] = Len(t.data)
  BY TransactionLaid
<1>2. Len(t.data) \in Nat
  BY LenProperties DEF AnyTransaction
<1>3. n \in Nat /\ n < Len(d)
  BY <1>1, LenProperties
<1> HIDE DEF d
<1>4. Len(c) = n /\ \A i \in 1..n : c[i] = d[i]
  <2>1. \A i \in 1..n : d[i] \in Nat
    BY <1>1, <1>3, ElementOfSeq
  <2>2. /\ Len(c) = IF 1 <= n THEN n - 1 + 1 ELSE 0
        /\ \A i \in 1..(n - 1 + 1) : c[i] = d[1 + i - 1]
    BY <1>3, <2>1, SubSeqProperties
  <2> QED
    BY <1>3, <2>2
<1> HIDE DEF c
<1>5. CASE n < TransactionHead
  <2>1. ~(TransactionHead <= Len(c))
    BY <1>3, <1>4, <1>5, SizesAreNat DEF TransactionHead
  <2> QED
    BY <2>1 DEF DeserializeTransaction, c, d
<1>6. CASE TransactionHead <= n
  <2>1. c[TransactionHead] = Len(t.data)
    BY <1>1, <1>3, <1>4, <1>6, SizesAreNat DEF TransactionHead
  <2>2. Len(c) # MinTransactionSize + c[TransactionHead]
    BY <1>1, <1>3, <1>4, <2>1
  <2> QED
    BY <2>2 DEF DeserializeTransaction, c, d
<1> QED
  BY <1>3, <1>5, <1>6, SizesAreNat DEF TransactionHead
(* A sequence found in a piece of d is found in d.                         *)
LEMMA AtWithin ==
    ASSUME NEW d, Len(d) \in Nat, NEW f \in Seq(Nat), NEW g \in Seq(Nat),
           NEW p \in Nat, NEW q \in Nat, At(d, p, f), At(f, q, g)
    PROVE  At(d, p + q, g)
<1>1. Len(f) \in Nat /\ Len(g) \in Nat
  BY LenProperties
<1>2. p + Len(f) <= Len(d) /\ q + Len(g) <= Len(f)
  BY DEF At
<1>3. ASSUME NEW i \in 1..Len(g) PROVE d[(p + q) + i] = g[i]
  <2>1. q + i \in 1..Len(f) /\ p + (q + i) = (p + q) + i
    BY <1>1, <1>2
  <2>2. f[q + i] = g[i]
    BY DEF At
  <2>3. d[p + (q + i)] = f[q + i]
    BY <2>1 DEF At
  <2> QED
    BY <2>1, <2>2, <2>3
<1>4. (p + q) + Len(g) <= Len(d)
  BY <1>1, <1>2
<1> QED
  BY <1>3, <1>4 DEF At

(* c has the words of d as far as it goes, and maybe more behind them.     *)
Agree(c, d) == \A i \in 1..Len(d) : i <= Len(c) => c[i] = d[i]

LEMMA AgreeAt ==
    ASSUME NEW c, Len(c) \in Nat, NEW d \in Seq(Nat), NEW f \in Seq(Nat), NEW p \in Nat,
           Agree(c, d), At(d, p, f), p + Len(f) <= Len(c)
    PROVE  At(c, p, f)
<1>1. Len(f) \in Nat /\ Len(d) \in Nat /\ p + Len(f) <= Len(d)
  BY LenProperties DEF At
<1>2. ASSUME NEW i \in 1..Len(f) PROVE c[p + i] = f[i]
  <2>1. p + i \in 1..Len(d) /\ p + i <= Len(c)
    BY <1>1
  <2>2. c[p + i] = d[p + i]
    BY <2>1 DEF Agree
  <2> QED
    BY <2>2 DEF At
<1> QED
  BY <1>2 DEF At

(* What stands for a transaction in a value block: its size and its words. *)
Entry(t) == <<Len(SerializeTransaction(t))>> \o SerializeTransaction(t)

LEMMA EntryIs ==
    ASSUME NEW t \in AnyTransaction
    PROVE  /\ SerializeTransaction(t) \in Seq(Nat)
           /\ Entry(t) \in Seq(Nat)
           /\ Len(Entry(t)) = 1 + Len(SerializeTransaction(t))
           /\ Entry(t)[1] = Len(SerializeTransaction(t))
           /\ At(Entry(t), 1, SerializeTransaction(t))
<1>1. PICK d : d = SerializeTransaction(t)
  OBVIOUS
<1>2. d \in Seq(Nat)
  BY <1>1, TransactionLaid
<1>3. Len(d) \in Nat
  BY <1>2, LenProperties
<1>4. PICK x \in Seq(Nat) : x = <<Len(d)>> /\ Len(x) = 1 /\ x[1] = Len(d)
  <2>1. \A n \in Nat : <<n>> \in Seq(Nat) /\ Len(<<n>>) = 1 /\ <<n>>[1] = n
    OBVIOUS
  <2> QED
    BY <1>3, <2>1
<1>5. /\ x \o d \in Seq(Nat) /\ Len(x \o d) = 1 + Len(d)
      /\ \A i \in 1..1 : (x \o d)[i] = x[i]
      /\ \A i \in 1..Len(d) : (x \o d)[1 + i] = d[i]
  BY <1>2, <1>4, TwoPieces
<1>6. At(x \o d, 1, d)
  BY <1>3, <1>5 DEF At
<1>7. (x \o d)[1] = Len(d)
  BY <1>4, <1>5
<1>8. Entry(t) = x \o d
  BY <1>1, <1>4 DEF Entry
<1> QED
  BY <1>1, <1>2, <1>5, <1>6, <1>7, <1>8

(* The transactions of a block, one entry behind the other; g[i] are the   *)
(* words of the first i of them.                                           *)
Entries(g, ts) ==
    /\ g \in [0..Len(ts) -> Seq(Nat)]
    /\ g[0] = << >>
    /\ \A i \in 1..Len(ts) : g[i] = g[i - 1] \o Entry(ts[i])
    /\ g[Len(ts)] = SerializeTransactions(ts)

(* FlattenSeq is what the recursive function in its definition says.       *)
LEMMA EntriesExist ==
    ASSUME NEW ts \in Seq(AnyTransaction)
    PROVE  \E g : Entries(g, ts)
<1> DEFINE n == Len(ts)
           seqs == [i \in DOMAIN ts |->
                      LET d == SerializeTransaction(ts[i]) IN <<Len(d)>> \o d]
<1>1. n \in Nat /\ DOMAIN ts = 1..n /\ \A i \in 1..n : ts[i] \in AnyTransaction
  BY LenProperties, ElementOfSeq
<1>2. \A i \in 1..n : Entry(ts[i]) \in Seq(Nat)
  BY <1>1, EntryIs
<1>3. /\ \A i \in 1..n : seqs[i] = Entry(ts[i])
      /\ seqs = [i \in 1..n |-> Entry(ts[i])]
  BY <1>1 DEF Entry
<1>4. Len(seqs) = n /\ SerializeTransactions(ts) = FlattenSeq(seqs)
  BY <1>1 DEF SerializeTransactions
<1> HIDE DEF n, seqs
<1>5. << >> \in Seq(Nat)
  BY EmptySeq
<1>6. \A x, y \in Seq(Nat) : x \o y \in Seq(Nat)
  BY TwoPieces
<1>7. PICK g : /\ g \in [0..n -> Seq(Nat)]
               /\ g[0] = << >>
               /\ \A i \in 1..n : g[i] = g[i - 1] \o Entry(ts[i])
  <2> DEFINE step == [p \in Nat \X Seq(Nat) |->
                        IF p[1] \in 1..n THEN p[2] \o Entry(ts[p[1]]) ELSE << >>]
  <2>1. step \in [Nat \X Seq(Nat) -> Seq(Nat)]
    BY <1>2, <1>5, <1>6
  <2>2. ASSUME NEW i \in 1..n, NEW x \in Seq(Nat)
        PROVE  step[<<i, x>>] = x \o Entry(ts[i])
    <3>1. <<i, x>> \in Nat \X Seq(Nat)
      BY <1>1
    <3> QED
      BY <3>1
  <2> HIDE DEF step
  <2>3. PICK g : Unfolds(g, Seq(Nat), << >>, step, n)
    BY <1>1, <1>5, <2>1, Recursion
  <2>4. ASSUME NEW i \in 1..n PROVE g[i] = g[i - 1] \o Entry(ts[i])
    <3>1. i - 1 \in 0..n
      BY <1>1
    <3>2. g[i - 1] \in Seq(Nat)
      BY <2>3, <3>1 DEF Unfolds
    <3> QED
      BY <2>2, <2>3, <3>2 DEF Unfolds
  <2> QED
    BY <2>3, <2>4 DEF Unfolds
<1>8. CASE n = 0
  <2>1. FlattenSeq(seqs) = << >>
    BY <1>3, <1>4, <1>8 DEF FlattenSeq
  <2> QED
    BY <1>4, <1>7, <1>8, <2>1 DEF Entries, n
<1>9. CASE n # 0
  <2> DEFINE IsFlat(f) == f = [i \in 1..n |-> IF i = 1 THEN seqs[i] ELSE f[i - 1] \o seqs[i]]
             flat == CHOOSE f : IsFlat(f)
             some == [i \in 1..n |-> g[i]]
  <2>1. FlattenSeq(seqs) = flat[n]
    BY <1>4, <1>9 DEF FlattenSeq
  <2>2. g[1] = seqs[1]
    <3>1. 1 \in 1..n /\ 1 - 1 = 0
      BY <1>1, <1>9
    <3>2. g[1] = g[0] \o Entry(ts[1])
      BY <1>7, <3>1
    <3> QED
      BY <1>2, <1>3, <1>7, <3>1, <3>2, ConcatEmptySeq
  <2>3. ASSUME NEW i \in 1..n, i # 1 PROVE some[i] = some[i - 1] \o seqs[i]
    <3>1. i - 1 \in 1..n
      BY <1>1, <2>3
    <3> QED
      BY <1>3, <1>7, <3>1
  <2>4. IsFlat(some)
    <3> DEFINE other == [i \in 1..n |-> IF i = 1 THEN seqs[i] ELSE some[i - 1] \o seqs[i]]
    <3>1. \A i \in 1..n : some[i] = other[i]
      <4>1. some[1] = seqs[1]
        BY <1>1, <1>9, <2>2
      <4> HIDE DEF some
      <4> QED
        BY <2>3, <4>1
    <3> QED
      BY <3>1
  <2> HIDE DEF IsFlat
  <2>5. IsFlat(flat)
    BY <2>4
  <2> HIDE DEF flat, some
  <2>6. /\ flat[1] = seqs[1]
        /\ \A i \in 1..n : i # 1 => flat[i] = flat[i - 1] \o seqs[i]
    <3>1. flat = [i \in 1..n |-> IF i = 1 THEN seqs[i] ELSE flat[i - 1] \o seqs[i]]
      BY <2>5 DEF IsFlat
    <3>2. \A i \in 1..n : flat[i] = IF i = 1 THEN seqs[i] ELSE flat[i - 1] \o seqs[i]
      BY <3>1
    <3>3. 1 \in 1..n
      BY <1>1, <1>9
    <3> QED
      BY <3>2, <3>3
  <2>7. \A i \in 0..n : i \in {j \in 0..n : j = 0 \/ flat[j] = g[j]}
    <3> DEFINE S == {j \in 0..n : j = 0 \/ flat[j] = g[j]}
    <3>1. 0 \in S
      BY <1>1
    <3>2. ASSUME NEW i \in 0..n, i < n, i \in S PROVE i + 1 \in S
      <4>1. CASE i = 0
        BY <1>1, <1>9, <2>2, <2>6, <4>1
      <4>2. CASE i # 0
        <5>1. i + 1 \in 1..n /\ i + 1 # 1 /\ (i + 1) - 1 = i /\ i + 1 \in 0..n
          BY <1>1, <3>2, <4>2
        <5>2. flat[i] = g[i]
          BY <3>2, <4>2
        <5>3. flat[i + 1] = flat[i] \o seqs[i + 1]
          BY <2>6, <5>1
        <5>4. g[i + 1] = g[i] \o seqs[i + 1]
          BY <1>3, <1>7, <5>1
        <5> QED
          BY <5>1, <5>2, <5>3, <5>4
      <4> QED
        BY <4>1, <4>2
    <3> HIDE DEF S
    <3>3. \A i \in 0..n : i \in S
      BY <1>1, <3>1, <3>2, InductionUpTo
    <3> QED
      BY <3>3 DEF S
  <2>8. flat[n] = g[n]
    BY <1>1, <1>9, <2>7
  <2> QED
    BY <1>4, <1>7, <2>1, <2>8 DEF Entries, n
<1> QED
  BY <1>8, <1>9

(* Where each entry is, and how long the words are that come before it.    *)
LEMMA EntriesLaid ==
    ASSUME NEW ts \in Seq(AnyTransaction), NEW g, Entries(g, ts)
    PROVE  /\ \A i \in 0..Len(ts) : g[i] \in Seq(Nat) /\ Len(g[i]) \in Nat
           /\ SerializeTransactions(ts) \in Seq(Nat)
           /\ Len(g[0]) = 0
           /\ \A i \in 1..Len(ts) :
                /\ Len(g[i]) = Len(g[i - 1]) + Len(Entry(ts[i]))
                /\ At(SerializeTransactions(ts), Len(g[i - 1]), Entry(ts[i]))
<1> DEFINE n == Len(ts)
           S == {k \in 0..n : \A i \in 1..k : At(g[k], Len(g[i - 1]), Entry(ts[i]))}
<1>1. n \in Nat /\ \A i \in 1..n : Entry(ts[i]) \in Seq(Nat)
  BY LenProperties, ElementOfSeq, EntryIs
<1>2. /\ g \in [0..n -> Seq(Nat)] /\ g[0] = << >> /\ g[n] = SerializeTransactions(ts)
      /\ \A i \in 1..n : g[i] = g[i - 1] \o Entry(ts[i])
  BY DEF Entries
<1> HIDE DEF n
<1>3. \A i \in 0..n : g[i] \in Seq(Nat) /\ Len(g[i]) \in Nat
  BY <1>2, LenProperties
<1>4. ASSUME NEW i \in 1..n
      PROVE  /\ Len(g[i]) = Len(g[i - 1]) + Len(Entry(ts[i]))
             /\ \A j \in 1..Len(g[i - 1]) : g[i][j] = g[i - 1][j]
             /\ At(g[i], Len(g[i - 1]), Entry(ts[i]))
  <2>1. PICK x \in Seq(Nat) : x = g[i - 1]
    BY <1>1, <1>3
  <2>2. PICK e \in Seq(Nat) : e = Entry(ts[i])
    BY <1>1
  <2>3. g[i] = x \o e
    BY <1>2, <2>1, <2>2
  <2>4. /\ Len(x \o e) = Len(x) + Len(e)
        /\ \A j \in 1..Len(x) : (x \o e)[j] = x[j]
        /\ \A j \in 1..Len(e) : (x \o e)[Len(x) + j] = e[j]
    BY TwoPieces
  <2>5. At(x \o e, Len(x), e)
    BY <2>4, LenProperties DEF At
  <2> QED
    BY <2>1, <2>2, <2>3, <2>4, <2>5
<1>5. 0 \in S
  BY <1>1
<1>6. ASSUME NEW k \in 0..n, k < n, k \in S PROVE k + 1 \in S
  <2>1. k + 1 \in 1..n /\ k + 1 \in 0..n /\ (k + 1) - 1 = k
    BY <1>1, <1>6
  <2>2. \A i \in 1..k : At(g[k], Len(g[i - 1]), Entry(ts[i]))
    BY <1>6
  <2>3. PICK x \in Seq(Nat) : x = g[k]
    BY <1>3
  <2>4. PICK y \in Seq(Nat) : y = g[k + 1]
    BY <1>3, <2>1
  <2>5. Len(y) = Len(x) + Len(Entry(ts[k + 1])) /\ \A j \in 1..Len(x) : y[j] = x[j]
    BY <1>4, <2>1, <2>3, <2>4
  <2>6. ASSUME NEW i \in 1..(k + 1) PROVE At(y, Len(g[i - 1]), Entry(ts[i]))
    <3>1. CASE i = k + 1
      BY <1>4, <2>1, <2>4, <3>1
    <3>2. CASE i # k + 1
      <4>1. i \in 1..k /\ i - 1 \in 0..n /\ i \in 1..n
        BY <1>1, <2>1, <3>2
      <4>2. PICK p \in Nat : p = Len(g[i - 1])
        BY <1>3, <4>1
      <4>3. PICK e \in Seq(Nat) : e = Entry(ts[i])
        BY <1>1, <4>1
      <4>4. At(x, p, e)
        BY <2>2, <2>3, <4>1, <4>2, <4>3
      <4>5. Len(x) \in Nat /\ Len(e) \in Nat /\ Len(Entry(ts[k + 1])) \in Nat
        BY <1>1, <2>1, LenProperties
      <4>6. p + Len(e) <= Len(x)
        BY <4>4 DEF At
      <4>7. p + Len(e) <= Len(y)
        BY <2>5, <4>5, <4>6
      <4>8. \A j \in 1..Len(e) : p + j \in 1..Len(x)
        BY <4>5, <4>6
      <4>9. \A j \in 1..Len(e) : y[p + j] = e[j]
        BY <2>5, <4>4, <4>8 DEF At
      <4> QED
        BY <4>2, <4>3, <4>7, <4>9 DEF At
    <3> QED
      BY <3>1, <3>2
  <2> QED
    BY <2>1, <2>4, <2>6
<1>7. n \in S
  <2> HIDE DEF S
  <2>1. \A i \in 0..n : i \in S
    BY <1>1, <1>5, <1>6, InductionUpTo
  <2> QED
    BY <1>1, <2>1
<1>8. Len(g[0]) = 0
  BY <1>2, EmptySeq
<1>9. SerializeTransactions(ts) \in Seq(Nat)
  BY <1>1, <1>2, <1>3
<1> QED
  BY <1>2, <1>3, <1>4, <1>7, <1>8, <1>9 DEF n

(* A round of the loop reads the entry it finds, or refuses what was cut   *)
(* off in it.                                                              *)
LEMMA ReadTransactionIs ==
    ASSUME NEW c \in Seq(Nat), NEW d \in Seq(Nat), Agree(c, d), NEW t \in AnyTransaction,
           NEW o \in Nat, At(d, o, Entry(t)), NEW x
    PROVE  ReadTransaction(c, [offset |-> o, txs |-> x]) =
               IF o + Len(Entry(t)) <= Len(c)
               THEN [offset |-> o + Len(Entry(t)), txs |-> Append(x, t)]
               ELSE Refused
<1> DEFINE s == SerializeTransaction(t)
           r == [offset |-> o, txs |-> x]
           start == o + 1
<1>1. /\ s \in Seq(Nat) /\ Entry(t) \in Seq(Nat) /\ Len(Entry(t)) = 1 + Len(s)
      /\ Entry(t)[1] = Len(s) /\ At(Entry(t), 1, s) /\ Len(s) \in Nat
  BY EntryIs, LenProperties
<1>2. Len(c) \in Nat /\ Len(d) \in Nat
  BY LenProperties
<1>3. DeserializeTransaction(s) = t /\ t # Refused
  BY TransactionRoundTrip, RefusedAssumption
<1> HIDE DEF s
<1>4. d[start] = Len(s) /\ start <= Len(d)
  <2>1. 1 \in 1..Len(Entry(t))
    BY <1>1
  <2> QED
    BY <1>1, <1>2, <2>1 DEF At
<1>5. At(d, start, s)
  BY <1>1, <1>2, AtWithin
<1>6. start <= Len(c) => c[start] = Len(s)
  BY <1>2, <1>4 DEF Agree
<1>7. CASE o + Len(Entry(t)) <= Len(c)
  <2>1. start <= Len(c) /\ start + Len(s) <= Len(c)
    BY <1>1, <1>2, <1>7
  <2>2. At(c, start, s)
    BY <1>1, <1>2, <1>5, <2>1, AgreeAt
  <2>3. Field(c, start, Len(s)) = s
    BY <1>1, <2>2, FieldIs
  <2>4. ReadTransaction(c, r) = [offset |-> start + Len(s), txs |-> Append(x, t)]
    BY <1>3, <1>6, <2>1, <2>3 DEF ReadTransaction
  <2>5. start + Len(s) = o + Len(Entry(t))
    BY <1>1
  <2> QED
    BY <1>7, <2>4, <2>5
<1>8. CASE ~(o + Len(Entry(t)) <= Len(c))
  <2>1. ~(start + Len(s) <= Len(c))
    BY <1>1, <1>2, <1>8
  <2>2. ~(start <= Len(c) /\ start + c[start] <= Len(c))
    BY <1>6, <2>1
  <2>3. ReadTransaction(c, r) = Refused
    BY <2>2 DEF ReadTransaction
  <2> QED
    BY <1>8, <2>3
<1> QED
  BY <1>7, <1>8

(* What the loop over the transactions makes of a content that has the     *)
(* words of d as far as it goes.                                           *)
LEMMA ReadTransactionsIs ==
    ASSUME NEW c \in Seq(Nat), NEW d \in Seq(Nat), Agree(c, d),
           NEW ts \in Seq(AnyTransaction),
           At(d, ValueBlockHead, SerializeTransactions(ts)), ValueBlockHead <= Len(c)
    PROVE  LET o == ValueBlockHead + Len(SerializeTransactions(ts)) IN
           ReadTransactions(c, Len(ts)) =
               IF o <= Len(c) THEN [offset |-> o, txs |-> ts] ELSE Refused
<1> DEFINE n == Len(ts)
           head == ValueBlockHead
           begin == [offset |-> head, txs |-> << >>]
           IsRead(f) == f = [i \in 0..n |->
                               IF i = 0 THEN begin
                               ELSE IF f[i - 1] = Refused THEN Refused
                               ELSE ReadTransaction(c, f[i - 1])]
           read == CHOOSE f : IsRead(f)
<1>1. n \in Nat /\ Len(c) \in Nat /\ Len(d) \in Nat /\ head \in Nat
  BY SizesAreNat, LenProperties DEF ValueBlockHead
<1>2. \A i \in 1..n : ts[i] \in AnyTransaction /\ Entry(ts[i]) \in Seq(Nat)
  BY ElementOfSeq, EntryIs
<1>3. PICK g : Entries(g, ts)
  BY EntriesExist
<1>4. PICK w \in Seq(Nat) : w = SerializeTransactions(ts)
  BY <1>3, EntriesLaid
<1>5. /\ \A i \in 0..n : Len(g[i]) \in Nat
      /\ Len(g[0]) = 0 /\ g[n] = w
      /\ \A i \in 1..n : /\ Len(g[i]) = Len(g[i - 1]) + Len(Entry(ts[i]))
                         /\ At(w, Len(g[i - 1]), Entry(ts[i]))
  BY <1>3, <1>4, EntriesLaid DEF Entries
<1>6. \A i \in 0..n : SubSeq(ts, 1, i) \in Seq(AnyTransaction)
  BY <1>1, <1>2, SubSeqProperties
<1>7. SubSeq(ts, 1, 0) = << >> /\ SubSeq(ts, 1, n) = ts
  BY SubSeqEmpty, SubSeqFull
<1>8. ASSUME NEW i \in 1..n PROVE SubSeq(ts, 1, i) = Append(SubSeq(ts, 1, i - 1), ts[i])
  <2>1. 1 \in 1..n /\ i \in 1..n /\ i - 1 \in 0..n
    BY <1>1
  <2>2. SubSeq(ts, 1, i) = SubSeq(ts, 1, i - 1) \o << ts[i] >>
    BY <2>1, SubSeqRecursiveSecond
  <2>3. SubSeq(ts, 1, i - 1) \in Seq(AnyTransaction) /\ ts[i] \in AnyTransaction
    BY <1>2, <1>6, <2>1
  <2> QED
    BY <2>2, <2>3, AppendIsConcat
<1>9. ReadTransactions(c, Len(ts)) = read[n]
  BY DEF ReadTransactions
<1> DEFINE After(i) == [offset |-> head + Len(g[i]), txs |-> SubSeq(ts, 1, i)]
           want == [i \in 0..n |-> IF head + Len(g[i]) <= Len(c) THEN After(i) ELSE Refused]
<1> HIDE DEF n, head
<1>10. \A i \in 0..n : After(i) # Refused
  <2> SUFFICES ASSUME NEW i \in 0..n PROVE After(i) # Refused
    OBVIOUS
  <2>1. head + Len(g[i]) \in Nat
    BY <1>1, <1>5
  <2>2. After(i) \in [offset : Nat, txs : Seq(AnyTransaction)]
    BY <1>6, <2>1
  <2> QED
    BY <2>2, RefusedAssumption
<1>11. want[0] = begin
  <2>1. head <= Len(c) /\ 0 \in 0..n
    BY <1>1 DEF head
  <2>2. head + Len(g[0]) = head
    BY <1>1, <1>5
  <2> QED
    BY <1>7, <2>1, <2>2
<1>12. ASSUME NEW i \in 1..n
       PROVE  want[i] = IF want[i - 1] = Refused THEN Refused
                        ELSE ReadTransaction(c, want[i - 1])
  <2>1. i \in 0..n /\ i - 1 \in 0..n /\ ts[i] \in AnyTransaction
    BY <1>1, <1>2
  <2>2. PICK k \in Nat : k = Len(g[i - 1])
    BY <1>5, <2>1
  <2>3. PICK e \in Seq(Nat) : e = Entry(ts[i])
    BY <1>2
  <2>4. Len(e) \in Nat /\ Len(g[i]) = k + Len(e)
    BY <1>5, <2>2, <2>3, LenProperties
  <2>5. CASE head + k <= Len(c)
    <3>1. want[i - 1] = After(i - 1) /\ want[i - 1] # Refused
      BY <1>10, <2>1, <2>2, <2>5
    <3>2. At(d, head, w)
      BY <1>4 DEF head
    <3>3. At(w, k, e)
      BY <1>5, <2>2, <2>3
    <3>4. At(d, head + k, Entry(ts[i]))
      BY <1>1, <2>3, <3>2, <3>3, AtWithin
    <3>5. ReadTransaction(c, [offset |-> head + k, txs |-> SubSeq(ts, 1, i - 1)]) =
              IF (head + k) + Len(e) <= Len(c)
              THEN [offset |-> (head + k) + Len(e), txs |-> Append(SubSeq(ts, 1, i - 1), ts[i])]
              ELSE Refused
      <4>1. head + k \in Nat
        BY <1>1
      <4> QED
        BY <2>1, <2>3, <3>4, <4>1, ReadTransactionIs
    <3>6. (head + k) + Len(e) = head + Len(g[i])
      BY <1>1, <2>4
    <3>7. ReadTransaction(c, want[i - 1]) = IF head + Len(g[i]) <= Len(c) THEN After(i) ELSE Refused
      BY <1>8, <2>2, <3>1, <3>5, <3>6
    <3> QED
      BY <2>1, <3>1, <3>7
  <2>6. CASE ~(head + k <= Len(c))
    <3>1. want[i - 1] = Refused
      BY <2>1, <2>2, <2>6
    <3>2. ~(head + Len(g[i]) <= Len(c))
      BY <1>1, <2>4, <2>6
    <3> QED
      BY <2>1, <3>1, <3>2
  <2> QED
    BY <2>5, <2>6
<1>13. IsRead(want)
  <2> DEFINE other == [i \in 0..n |->
                         IF i = 0 THEN begin
                         ELSE IF want[i - 1] = Refused THEN Refused
                         ELSE ReadTransaction(c, want[i - 1])]
  <2>1. ASSUME NEW i \in 0..n PROVE want[i] = other[i]
    <3>1. CASE i = 0
      BY <1>11, <3>1
    <3>2. CASE i # 0
      <4>1. i \in 1..n
        BY <1>1, <3>2
      <4> HIDE DEF want, begin
      <4> QED
        BY <1>12, <3>2, <4>1
    <3> QED
      BY <3>1, <3>2
  <2>2. want = other
    BY <2>1
  <2> QED
    BY <2>2
<1> HIDE DEF want, begin, After
<1>14. ASSUME NEW f, NEW h, IsRead(f), IsRead(h) PROVE f[n] = h[n]
  <2> DEFINE S == {i \in 0..n : f[i] = h[i]}
  <2>1. /\ f = [i \in 0..n |-> IF i = 0 THEN begin
                               ELSE IF f[i - 1] = Refused THEN Refused
                               ELSE ReadTransaction(c, f[i - 1])]
        /\ h = [i \in 0..n |-> IF i = 0 THEN begin
                               ELSE IF h[i - 1] = Refused THEN Refused
                               ELSE ReadTransaction(c, h[i - 1])]
    BY <1>14
  <2>2. /\ \A i \in 0..n : f[i] = IF i = 0 THEN begin
                                  ELSE IF f[i - 1] = Refused THEN Refused
                                  ELSE ReadTransaction(c, f[i - 1])
        /\ \A i \in 0..n : h[i] = IF i = 0 THEN begin
                                  ELSE IF h[i - 1] = Refused THEN Refused
                                  ELSE ReadTransaction(c, h[i - 1])
    BY <2>1
  <2>3. 0 \in S
    BY <1>1, <2>2
  <2>4. ASSUME NEW i \in 0..n, i < n, i \in S PROVE i + 1 \in S
    <3>1. i + 1 \in 0..n /\ i + 1 # 0 /\ (i + 1) - 1 = i
      BY <1>1, <2>4
    <3> QED
      BY <2>2, <2>4, <3>1
  <2> HIDE DEF S
  <2>5. \A i \in 0..n : i \in S
    BY <1>1, <2>3, <2>4, InductionUpTo
  <2> QED
    BY <1>1, <2>5 DEF S
<1> HIDE DEF IsRead
<1>15. read[n] = want[n]
  BY <1>13, <1>14
<1> HIDE DEF read
<1>16. want[n] = IF head + Len(w) <= Len(c) THEN [offset |-> head + Len(w), txs |-> ts]
                 ELSE Refused
  <2>1. n \in 0..n /\ Len(g[n]) = Len(w)
    BY <1>1, <1>5
  <2>2. After(n) = [offset |-> head + Len(w), txs |-> ts]
    BY <1>7, <2>1 DEF After
  <2> QED
    BY <2>1, <2>2 DEF want
<1> QED
  BY <1>4, <1>9, <1>15, <1>16 DEF head

LEMMA ValueBlockHeadIsNat == ValueBlockHead \in Nat /\ ValueBlockHead > 0
  BY SizesAreNat DEF ValueBlockHead

(* The content of a value block: how long it is, and where its fields are. *)
ValueLaid(d, b) ==
    LET rest == ValueBlockHead + Len(SerializeTransactions(b.txs)) IN
    /\ d \in Seq(Nat)
    /\ Len(d) = rest + KeySize + SignatureSize + HashSize
    /\ At(d, 0, b.prev)
    /\ At(d, HashSize, b.ref)
    /\ d[2 * HashSize + 1] = b.time
    /\ d[ValueBlockHead] = Len(b.txs)
    /\ At(d, ValueBlockHead, SerializeTransactions(b.txs))
    /\ At(d, rest, b.key)
    /\ At(d, rest + KeySize, b.signature)
    /\ At(d, rest + KeySize + SignatureSize, b.hash)

LEMMA ValueBlockLaid ==
    ASSUME NEW b \in AnyValueBlock
    PROVE  /\ ValueLaid(SerializeValueBlock(b), b)
           /\ Len(SerializeTransactions(b.txs)) \in Nat
<1> DEFINE links == b.prev \o b.ref
           pair == <<b.time, Len(b.txs)>>
           words == SerializeTransactions(b.txs)
           d == SerializeValueBlock(b)
           head == ValueBlockHead
<1>1. /\ b.prev \in Seq(Nat) /\ Len(b.prev) = HashSize
      /\ b.ref \in Seq(Nat) /\ Len(b.ref) = HashSize
      /\ b.key \in Seq(Nat) /\ Len(b.key) = KeySize
      /\ b.signature \in Seq(Nat) /\ Len(b.signature) = SignatureSize
      /\ b.hash \in Seq(Nat) /\ Len(b.hash) = HashSize
  BY SizesAreNat, FieldsAreSeqs DEF AnyValueBlock
<1>2. b.time \in Nat /\ b.txs \in Seq(AnyTransaction) /\ Len(b.txs) \in Nat
  BY LenProperties DEF AnyValueBlock
<1>3. pair \in Seq(Nat) /\ Len(pair) = 2 /\ pair[1] = b.time /\ pair[2] = Len(b.txs)
  <2>1. PICK n \in Nat : n = Len(b.txs)
    BY <1>2
  <2>2. pair = <<b.time, n>>
    BY <2>1
  <2> HIDE DEF pair
  <2> QED
    BY <1>2, <2>1, <2>2
<1>4. words \in Seq(Nat)
  BY <1>2, EntriesExist, EntriesLaid
<1>5. PICK a \in Seq(Nat) : a = links \o pair
  BY <1>1, <1>3, TwoPieces
<1>6. /\ links \in Seq(Nat) /\ Len(links) = HashSize + HashSize
      /\ \A i \in 1..HashSize : links[i] = b.prev[i]
      /\ \A i \in 1..HashSize : links[HashSize + i] = b.ref[i]
  <2>1. /\ links \in Seq(Nat) /\ Len(links) = Len(b.prev) + Len(b.ref)
        /\ \A i \in 1..Len(b.prev) : links[i] = b.prev[i]
        /\ \A i \in 1..Len(b.ref) : links[Len(b.prev) + i] = b.ref[i]
    BY <1>1, TwoPieces
  <2> HIDE DEF links
  <2> QED
    BY <1>1, <2>1
<1>7. d = a \o words \o b.key \o b.signature \o b.hash
  BY <1>5 DEF SerializeValueBlock
<1> HIDE DEF links, pair, words
<1>8. Laid(d, a, words, b.key, b.signature, b.hash)
  BY <1>1, <1>4, <1>7, FivePieces
<1> HIDE DEF d
<1>9. /\ Len(a) = Len(links) + Len(pair)
      /\ \A i \in 1..Len(links) : a[i] = links[i]
      /\ \A i \in 1..Len(pair) : a[Len(links) + i] = pair[i]
  <2>1. /\ Len(links \o pair) = Len(links) + Len(pair)
        /\ \A i \in 1..Len(links) : (links \o pair)[i] = links[i]
        /\ \A i \in 1..Len(pair) : (links \o pair)[Len(links) + i] = pair[i]
    BY <1>3, <1>6, TwoPieces
  <2> QED
    BY <1>5, <2>1
<1>10. Len(a) = head /\ head = HashSize + HashSize + 2
  BY <1>3, <1>6, <1>9, SizesAreNat DEF ValueBlockHead
<1>11. At(a, 0, b.prev) /\ At(a, HashSize, b.ref) /\ At(a, HashSize + HashSize, pair)
  <2>1. \A i \in 1..HashSize : i \in 1..Len(links) /\ HashSize + i \in 1..Len(links)
    BY <1>6, SizesAreNat
  <2>2. /\ \A i \in 1..HashSize : a[0 + i] = b.prev[i]
        /\ \A i \in 1..HashSize : a[HashSize + i] = b.ref[i]
    BY <1>6, <1>9, <2>1, SizesAreNat
  <2>3. At(a, 0, b.prev)
    BY <1>1, <1>10, <2>2, SizesAreNat DEF At
  <2>4. At(a, HashSize, b.ref)
    BY <1>1, <1>10, <2>2, SizesAreNat DEF At
  <2>5. At(a, HashSize + HashSize, pair)
    BY <1>3, <1>6, <1>9, <1>10, SizesAreNat DEF At
  <2> QED
    BY <2>3, <2>4, <2>5
<1>12. PICK n \in Nat : n = Len(words)
  BY <1>4, LenProperties
<1>13. /\ d \in Seq(Nat) /\ Len(d) = head + n + KeySize + SignatureSize + HashSize
       /\ At(d, 0, a) /\ At(d, head, words) /\ At(d, head + n, b.key)
       /\ At(d, head + n + KeySize, b.signature)
       /\ At(d, head + n + KeySize + SignatureSize, b.hash)
  BY <1>1, <1>8, <1>10, <1>12 DEF Laid
<1> HIDE DEF head
<1>14. Len(d) \in Nat /\ head \in Nat
  BY <1>13, LenProperties, ValueBlockHeadIsNat DEF head
<1>15. At(d, 0 + 0, b.prev) /\ At(d, 0 + HashSize, b.ref)
  BY <1>1, <1>11, <1>13, <1>14, SizesAreNat, AtWithin
<1>16. At(d, 0 + (HashSize + HashSize), pair)
  <2>1. HashSize + HashSize \in Nat
    BY SizesAreNat
  <2> QED
    BY <1>3, <1>11, <1>13, <1>14, <2>1, AtWithin
<1>17. /\ 0 + 0 = 0 /\ 0 + HashSize = HashSize
       /\ 0 + (HashSize + HashSize) = HashSize + HashSize
       /\ 2 * HashSize + 1 = HashSize + HashSize + 1 /\ head = HashSize + HashSize + 2
  BY <1>10, SizesAreNat
<1>18. At(d, 0, b.prev) /\ At(d, HashSize, b.ref)
  BY <1>15, <1>17
<1>19. d[2 * HashSize + 1] = b.time /\ d[head] = Len(b.txs)
  <2>1. \A i \in 1..2 : d[HashSize + HashSize + i] = pair[i]
    BY <1>3, <1>16, <1>17 DEF At
  <2> QED
    BY <1>3, <1>17, <2>1
<1> QED
  BY <1>12, <1>13, <1>18, <1>19 DEF ValueLaid, d, head, words

(* What a content is read as that has the words of a block as far as it    *)
(* goes: nothing when it is shorter, and else the block, whatever follows. *)
LEMMA ValueBlockContent ==
    ASSUME NEW b \in AnyValueBlock, NEW c \in Seq(Nat), Agree(c, SerializeValueBlock(b))
    PROVE  DeserializeValueBlock(c) =
               IF Len(c) < Len(SerializeValueBlock(b)) THEN Refused ELSE b
<1> DEFINE d == SerializeValueBlock(b)
           head == ValueBlockHead
<1>1. /\ b.prev \in Seq(Nat) /\ Len(b.prev) = HashSize
      /\ b.ref \in Seq(Nat) /\ Len(b.ref) = HashSize
      /\ b.key \in Seq(Nat) /\ Len(b.key) = KeySize
      /\ b.signature \in Seq(Nat) /\ Len(b.signature) = SignatureSize
      /\ b.hash \in Seq(Nat) /\ Len(b.hash) = HashSize
  BY SizesAreNat, FieldsAreSeqs DEF AnyValueBlock
<1>2. b.time \in Nat /\ b.txs \in Seq(AnyTransaction) /\ Len(b.txs) \in Nat
  BY LenProperties DEF AnyValueBlock
<1>3. PICK n \in Nat : n = Len(SerializeTransactions(b.txs))
  BY ValueBlockLaid
<1>4. /\ d \in Seq(Nat) /\ Len(d) = head + n + KeySize + SignatureSize + HashSize
      /\ At(d, 0, b.prev) /\ At(d, HashSize, b.ref)
      /\ d[2 * HashSize + 1] = b.time /\ d[head] = Len(b.txs)
      /\ At(d, head, SerializeTransactions(b.txs))
      /\ At(d, head + n, b.key) /\ At(d, head + n + KeySize, b.signature)
      /\ At(d, head + n + KeySize + SignatureSize, b.hash)
  BY <1>3, ValueBlockLaid DEF ValueLaid
<1>5. /\ Len(d) \in Nat /\ Len(c) \in Nat /\ Agree(c, d) /\ head \in Nat /\ head > 0
      /\ Len(d) = head + n + KeySize + SignatureSize + HashSize
  BY <1>4, LenProperties, ValueBlockHeadIsNat
<1>6. head = HashSize + HashSize + 2 /\ 2 * HashSize + 1 = HashSize + HashSize + 1
  BY SizesAreNat DEF ValueBlockHead
<1> HIDE DEF d
<1> SUFFICES DeserializeValueBlock(c) = IF Len(c) < Len(d) THEN Refused ELSE b
  BY DEF d
<1> HIDE DEF head
<1>7. CASE Len(c) < head
  <2>1. DeserializeValueBlock(c) = Refused
    BY <1>5, <1>7 DEF DeserializeValueBlock, head
  <2>2. Len(c) < Len(d)
    BY <1>4, <1>5, <1>7, SizesAreNat
  <2> QED
    BY <2>1, <2>2
<1>8. CASE head <= Len(c)
  <2>1. Field(c, 0, HashSize) = b.prev /\ Field(c, HashSize, HashSize) = b.ref
    <3>1. 0 + HashSize <= Len(c) /\ HashSize + HashSize <= Len(c)
      BY <1>5, <1>6, <1>8, SizesAreNat
    <3>2. At(c, 0, b.prev) /\ At(c, HashSize, b.ref)
      BY <1>1, <1>4, <1>5, <3>1, SizesAreNat, AgreeAt
    <3> QED
      BY <1>1, <3>2, SizesAreNat, FieldIs
  <2>2. c[2 * HashSize + 1] = b.time /\ c[head] = Len(b.txs)
    <3>1. /\ head \in 1..Len(d) /\ head <= Len(c)
          /\ 2 * HashSize + 1 \in 1..Len(d) /\ 2 * HashSize + 1 <= Len(c)
      BY <1>4, <1>5, <1>6, <1>8, SizesAreNat
    <3> QED
      BY <1>4, <1>5, <3>1 DEF Agree
  <2>3. ReadTransactions(c, c[head]) =
            IF head + n <= Len(c) THEN [offset |-> head + n, txs |-> b.txs] ELSE Refused
    <3>1. ReadTransactions(c, Len(b.txs)) =
              IF ValueBlockHead + n <= Len(c)
              THEN [offset |-> ValueBlockHead + n, txs |-> b.txs] ELSE Refused
      BY <1>2, <1>3, <1>4, <1>5, <1>8, ReadTransactionsIs DEF head
    <3> QED
      BY <2>2, <3>1 DEF head
  <2>4. CASE head + n > Len(c)
    <3>1. ReadTransactions(c, c[head]) = Refused
      BY <1>5, <2>3, <2>4
    <3>2. DeserializeValueBlock(c) = Refused
      BY <1>8, <3>1 DEF DeserializeValueBlock, head
    <3>3. Len(c) < Len(d)
      BY <1>4, <1>5, <2>4, SizesAreNat
    <3> QED
      BY <3>2, <3>3
  <2>5. CASE head + n <= Len(c)
    <3> DEFINE r == [offset |-> head + n, txs |-> b.txs]
    <3>1. ReadTransactions(c, c[head]) = r /\ r.offset = head + n /\ r.txs = b.txs
      BY <2>3, <2>5
    <3>2. r # Refused
      <4>1. r \in [offset : Nat, txs : Seq(AnyTransaction)]
        BY <1>2, <1>5
      <4> QED
        BY <4>1, RefusedAssumption
    <3> HIDE DEF r
    <3>3. CASE Len(c) < Len(d)
      <4>1. ~ValueTailFits(c, r.offset)
        BY <1>4, <1>5, <3>1, <3>3, SizesAreNat DEF ValueTailFits
      <4>2. DeserializeValueBlock(c) = Refused
        BY <1>8, <3>1, <4>1 DEF DeserializeValueBlock, head
      <4> QED
        BY <3>3, <4>2
    <3>4. CASE ~(Len(c) < Len(d))
      <4>1. ValueTailFits(c, r.offset)
        BY <1>4, <1>5, <3>1, <3>4, SizesAreNat DEF ValueTailFits
      <4>2. /\ head + n \in Nat /\ head + n + KeySize \in Nat
            /\ head + n + KeySize + SignatureSize \in Nat
            /\ head + n + KeySize <= Len(c) /\ head + n + KeySize + SignatureSize <= Len(c)
            /\ head + n + KeySize + SignatureSize + HashSize <= Len(c)
        BY <1>5, <3>4, SizesAreNat
      <4>3. /\ At(c, head + n, b.key) /\ At(c, head + n + KeySize, b.signature)
            /\ At(c, head + n + KeySize + SignatureSize, b.hash)
        BY <1>1, <1>4, <1>5, <4>2, AgreeAt
      <4>4. /\ Field(c, head + n, KeySize) = b.key
            /\ Field(c, head + n + KeySize, SignatureSize) = b.signature
            /\ Field(c, head + n + KeySize + SignatureSize, HashSize) = b.hash
        BY <1>1, <4>2, <4>3, FieldIs
      <4>5. DeserializeValueBlock(c) =
                [prev |-> b.prev, ref |-> b.ref, time |-> b.time, txs |-> b.txs,
                 key |-> b.key, signature |-> b.signature, hash |-> b.hash]
        BY <1>8, <2>1, <2>2, <3>1, <3>2, <4>1, <4>4 DEF DeserializeValueBlock, head
      <4>6. DeserializeValueBlock(c) = b
        BY <4>5 DEF AnyValueBlock
      <4> QED
        BY <3>4, <4>6
    <3> QED
      BY <3>3, <3>4
  <2> QED
    BY <1>5, <2>4, <2>5
<1> QED
  BY <1>5, <1>7, <1>8

(* A value block is read back field by field, with all its transactions.   *)
THEOREM ValueBlockRoundTrip ==
    \A b \in AnyValueBlock : DeserializeValueBlock(SerializeValueBlock(b)) = b
<1> SUFFICES ASSUME NEW b \in AnyValueBlock
             PROVE  DeserializeValueBlock(SerializeValueBlock(b)) = b
  OBVIOUS
<1>1. SerializeValueBlock(b) \in Seq(Nat)
  BY ValueBlockLaid DEF ValueLaid
<1>2. Agree(SerializeValueBlock(b), SerializeValueBlock(b))
  BY DEF Agree
<1>3. Len(SerializeValueBlock(b)) \in Nat
  BY <1>1, LenProperties
<1> QED
  BY <1>1, <1>2, <1>3, ValueBlockContent
-----------------------------------------------------------------------------
(* A file has the words of the block written last as far as it goes; when  *)
(* it was cut off it is shorter, and when it was not, only a value block   *)
(* can have words of an earlier one behind it, which are not looked at.    *)
FileInv ==
    /\ kind \in {"time", "value"}
    /\ content \in Seq(Nat)
    /\ written \in Blocks
    /\ Agree(content, Serialize(written))
    /\ cut \in BOOLEAN
    /\ cut <=> Len(content) < Len(Serialize(written))
    /\ kind = "time" => Len(content) <= TimeBlockSize
    /\ answer \in {Unread, Deserialize(content)}

LEMMA TimeBlockSizeIsNat == TimeBlockSize \in Nat /\ TimeBlockSize > 0
  BY SizesAreNat DEF TimeBlockSize

(* The words of a block of the storage. *)
LEMMA BlockWords ==
    ASSUME kind \in {"time", "value"}, NEW b \in Blocks
    PROVE  /\ Serialize(b) \in Seq(Nat)
           /\ Len(Serialize(b)) \in Nat /\ Len(Serialize(b)) > 0
           /\ kind = "time" => Len(Serialize(b)) = TimeBlockSize
<1>1. CASE kind = "time"
  <2>1. b \in AnyTimeBlock /\ Serialize(b) = SerializeTimeBlock(b)
    BY <1>1, BlockAssumption DEF Blocks, Serialize
  <2> QED
    BY <2>1, TimeBlockContent, TimeBlockSizeIsNat
<1>2. CASE kind = "value"
  <2>1. b \in AnyValueBlock /\ Serialize(b) = SerializeValueBlock(b)
    BY <1>2, BlockAssumption DEF Blocks, Serialize
  <2>2. /\ SerializeValueBlock(b) \in Seq(Nat)
        /\ Len(SerializeValueBlock(b)) = ValueBlockHead + Len(SerializeTransactions(b.txs))
                                            + KeySize + SignatureSize + HashSize
        /\ Len(SerializeTransactions(b.txs)) \in Nat
    BY <2>1, ValueBlockLaid DEF ValueLaid
  <2>3. Len(SerializeValueBlock(b)) > 0
    BY <2>2, ValueBlockHeadIsNat, SizesAreNat
  <2> QED
    BY <1>2, <2>1, <2>2, <2>3, LenProperties
<1> QED
  BY <1>1, <1>2

(* What deserialize makes of a content that has the words of a block as    *)
(* far as it goes.                                                         *)
LEMMA AnswerIs ==
    ASSUME kind \in {"time", "value"}, NEW b \in Blocks, NEW c \in Seq(Nat),
           Agree(c, Serialize(b)), kind = "time" => Len(c) <= TimeBlockSize
    PROVE  Deserialize(c) = IF Len(c) < Len(Serialize(b)) THEN Refused ELSE b
<1>1. CASE kind = "time"
  <2>1. b \in AnyTimeBlock /\ Serialize(b) = SerializeTimeBlock(b)
    BY <1>1, BlockAssumption DEF Blocks, Serialize
  <2>2. PICK d \in Seq(Nat) : d = Serialize(b) /\ Len(d) = TimeBlockSize /\ DeserializeTimeBlock(d) = b
    BY <2>1, TimeBlockContent
  <2>3. Deserialize(c) = DeserializeTimeBlock(c)
    BY <1>1 DEF Deserialize
  <2>4. Len(c) \in Nat /\ Len(c) <= TimeBlockSize
    BY <1>1, LenProperties
  <2>5. CASE Len(c) < TimeBlockSize
    <3>1. ~TimeBlockSizeMatches(c)
      BY <2>4, <2>5, TimeBlockSizeIsNat DEF TimeBlockSizeMatches
    <3> QED
      BY <2>2, <2>3, <2>5, <3>1 DEF DeserializeTimeBlock
  <2>6. CASE ~(Len(c) < TimeBlockSize)
    <3>1. Len(c) = Len(d)
      BY <2>2, <2>4, <2>6, TimeBlockSizeIsNat
    <3>2. \A i \in 1..Len(c) : c[i] = d[i]
      BY <2>2, <2>4, <3>1 DEF Agree
    <3>3. c = d
      BY <3>1, <3>2, SeqEqual
    <3> QED
      BY <2>2, <2>3, <2>6, <3>3
  <2> QED
    BY <2>5, <2>6
<1>2. CASE kind = "value"
  <2>1. b \in AnyValueBlock /\ Serialize(b) = SerializeValueBlock(b)
    BY <1>2, BlockAssumption DEF Blocks, Serialize
  <2>2. Deserialize(c) = DeserializeValueBlock(c)
    BY <1>2 DEF Deserialize
  <2> QED
    BY <2>1, <2>2, ValueBlockContent
<1> QED
  BY <1>1, <1>2

(* What is written over a content: all of it, and what was behind.         *)
LEMMA Overwritten ==
    ASSUME NEW c \in Seq(Nat), NEW w \in Seq(Nat)
    PROVE  LET r == w \o SubSeq(c, Len(w) + 1, Len(c)) IN
           /\ r \in Seq(Nat)
           /\ Agree(r, w)
           /\ Len(r) = IF Len(c) <= Len(w) THEN Len(w) ELSE Len(c)
<1> DEFINE from == Len(w) + 1
           s == SubSeq(c, from, Len(c))
<1>1. Len(c) \in Nat /\ Len(w) \in Nat /\ from \in Int
  BY LenProperties
<1>2. \A i \in from..Len(c) : c[i] \in Nat
  <2>1. \A i \in from..Len(c) : i \in 1..Len(c)
    BY <1>1
  <2> QED
    BY <2>1, ElementOfSeq
<1>3. s \in Seq(Nat) /\ Len(s) = IF from <= Len(c) THEN Len(c) - from + 1 ELSE 0
  <2> HIDE DEF from
  <2> QED
    BY <1>1, <1>2, SubSeqProperties
<1>4. Len(s) = IF Len(c) <= Len(w) THEN 0 ELSE Len(c) - Len(w)
  <2> HIDE DEF s
  <2> QED
    BY <1>1, <1>3
<1> HIDE DEF s
<1>5. /\ w \o s \in Seq(Nat) /\ Len(w \o s) = Len(w) + Len(s)
      /\ \A i \in 1..Len(w) : (w \o s)[i] = w[i]
  BY <1>3, TwoPieces
<1>6. Agree(w \o s, w)
  BY <1>5 DEF Agree
<1>7. Len(w \o s) = IF Len(c) <= Len(w) THEN Len(w) ELSE Len(c)
  BY <1>1, <1>4, <1>5
<1> QED
  BY <1>5, <1>6, <1>7 DEF s

(* What a cut leaves. *)
LEMMA Beginning ==
    ASSUME NEW d \in Seq(Nat), NEW n \in Nat, n < Len(d)
    PROVE  /\ SubSeq(d, 1, n) \in Seq(Nat)
           /\ Len(SubSeq(d, 1, n)) = n
           /\ Agree(SubSeq(d, 1, n), d)
<1> DEFINE s == SubSeq(d, 1, n)
<1>1. \A i \in 1..n : d[i] \in Nat
  BY ElementOfSeq, LenProperties
<1>2. /\ s \in Seq(Nat) /\ Len(s) = IF 1 <= n THEN n - 1 + 1 ELSE 0
      /\ \A i \in 1..(n - 1 + 1) : s[i] = d[1 + i - 1]
  BY <1>1, SubSeqProperties
<1> HIDE DEF s
<1>3. Len(s) = n /\ \A i \in 1..n : s[i] = d[i]
  BY <1>2
<1>4. Agree(s, d)
  BY <1>3 DEF Agree
<1> QED
  BY <1>2, <1>3, <1>4 DEF s

LEMMA FileInvInit == FileInit => FileInv
<1> SUFFICES ASSUME FileInit PROVE FileInv
  OBVIOUS
<1>1. /\ kind \in {"time", "value"} /\ content = << >> /\ written \in Blocks
      /\ cut = TRUE /\ answer = Unread
  BY DEF FileInit
<1>2. content \in Seq(Nat) /\ Len(content) = 0
  BY <1>1, EmptySeq
<1>3. Agree(content, Serialize(written))
  BY <1>2 DEF Agree
<1>4. Len(content) < Len(Serialize(written)) /\ Len(content) <= TimeBlockSize
  BY <1>1, <1>2, BlockWords, TimeBlockSizeIsNat
<1> QED
  BY <1>1, <1>2, <1>3, <1>4 DEF FileInv

LEMMA FileInvNext == FileInv /\ [FileNext]_fileVars => FileInv'
<1> SUFFICES ASSUME FileInv, [FileNext]_fileVars PROVE FileInv'
  OBVIOUS
<1>1. /\ kind' = kind
      /\ kind \in {"time", "value"} /\ content \in Seq(Nat) /\ written \in Blocks
      /\ Agree(content, Serialize(written)) /\ cut \in BOOLEAN
      /\ cut <=> Len(content) < Len(Serialize(written))
      /\ kind = "time" => Len(content) <= TimeBlockSize
      /\ answer \in {Unread, Deserialize(content)}
  BY DEF FileInv, FileNext, Write, WriteCut, Open, Read, fileVars
<1>2. Blocks' = Blocks /\ \A b : Serialize(b)' = Serialize(b)
  BY <1>1 DEF Blocks, Serialize
<1>3. Len(content) \in Nat
  BY <1>1, LenProperties
<1>4. ASSUME NEW b \in Blocks, Write(b) PROVE FileInv'
  <2>1. PICK w \in Seq(Nat) : w = Serialize(b) /\ Len(w) \in Nat
                              /\ (kind = "time" => Len(w) = TimeBlockSize)
    BY <1>1, BlockWords
  <2>2. content' = w \o SubSeq(content, Len(w) + 1, Len(content))
    BY <1>4, <2>1 DEF Write
  <2>3. /\ content' \in Seq(Nat) /\ Agree(content', w)
        /\ Len(content') = IF Len(content) <= Len(w) THEN Len(w) ELSE Len(content)
    BY <1>1, <2>2, Overwritten
  <2>4. /\ ~(Len(content') < Len(w))
        /\ kind = "time" => Len(content') <= TimeBlockSize
    BY <1>1, <1>3, <2>1, <2>3, TimeBlockSizeIsNat
  <2>5. written' = b /\ cut' = FALSE /\ answer' = Unread
    BY <1>4 DEF Write
  <2> QED
    BY <1>1, <1>2, <2>1, <2>3, <2>4, <2>5 DEF FileInv
<1>5. ASSUME NEW b \in Blocks, NEW n \in 0..Len(Serialize(b)), WriteCut(b, n) PROVE FileInv'
  <2>1. PICK w \in Seq(Nat) : w = Serialize(b) /\ Len(w) \in Nat
                              /\ (kind = "time" => Len(w) = TimeBlockSize)
    BY <1>1, BlockWords
  <2>2. /\ n \in Nat /\ n < Len(w) /\ content' = SubSeq(w, 1, n)
        /\ written' = b /\ cut' = TRUE /\ answer' = Unread
    BY <1>5, <2>1 DEF WriteCut
  <2>3. content' \in Seq(Nat) /\ Len(content') = n /\ Agree(content', w)
    BY <2>1, <2>2, Beginning
  <2>4. Len(content') < Len(w) /\ (kind = "time" => Len(content') <= TimeBlockSize)
    BY <2>1, <2>2, <2>3
  <2> QED
    BY <1>1, <1>2, <2>1, <2>2, <2>3, <2>4 DEF FileInv
<1>6. CASE Open
  <2>1. content' = << >> /\ cut' = TRUE /\ answer' = Unread /\ written' = written
    BY <1>6 DEF Open
  <2>2. content' \in Seq(Nat) /\ Len(content') = 0
    BY <2>1, EmptySeq
  <2>3. Agree(content', Serialize(written))
    BY <2>2 DEF Agree
  <2>4. Len(content') < Len(Serialize(written)) /\ Len(content') <= TimeBlockSize
    BY <1>1, <2>2, BlockWords, TimeBlockSizeIsNat
  <2> QED
    BY <1>1, <1>2, <2>1, <2>2, <2>3, <2>4 DEF FileInv
<1>7. CASE Read
  <2>1. /\ answer' = Deserialize(content)
        /\ content' = content /\ written' = written /\ cut' = cut
    BY <1>7 DEF Read
  <2>2. Deserialize(content)' = Deserialize(content)
    BY <1>1, <2>1 DEF Deserialize
  <2> QED
    BY <1>1, <1>2, <2>1, <2>2 DEF FileInv
<1>8. CASE UNCHANGED fileVars
  <2>1. /\ content' = content /\ written' = written /\ cut' = cut /\ answer' = answer
    BY <1>8 DEF fileVars
  <2>2. Deserialize(content)' = Deserialize(content)
    BY <1>1, <2>1 DEF Deserialize
  <2> QED
    BY <1>1, <1>2, <2>1, <2>2 DEF FileInv
<1> QED
  BY <1>4, <1>5, <1>6, <1>7, <1>8 DEF FileNext

(* What a file answers: the block that was written last, if all of it was, *)
(* and else nothing.                                                       *)
LEMMA FileAnswer ==
    ASSUME FileInv, answer # Unread
    PROVE  (cut => answer = Refused) /\ (~cut => answer = written) /\ written \in Blocks
  BY AnswerIs DEF FileInv

(* A file never yields a block that was not the last one written to it, in *)
(* full, whatever was cut off or overwritten before, for blocks of both    *)
(* kinds and of any sizes (write_block_to_file, read_block_from_file and   *)
(* the two deserialize).                                                   *)
THEOREM FilesReadLastWritten == FileSpec => []ReadsLastWritten
<1>1. FileInv => ReadsLastWritten
  BY FileAnswer DEF FileInv, ReadsLastWritten
<1> QED
  BY <1>1, FileInvInit, FileInvNext, PTL DEF FileSpec

(* And a block that was written in full is read back, field by field, with *)
(* the tail of a longer one behind it or without.                          *)
THEOREM FilesReadFullContent == FileSpec => []FullContentIsRead
<1>1. FileInv => FullContentIsRead
  BY FileAnswer DEF FullContentIsRead
<1> QED
  BY <1>1, FileInvInit, FileInvNext, PTL DEF FileSpec

(* What set_signature and compute_hash leave is what verify_signature and  *)
(* a reader who computes the hash again want, whatever key signed: neither *)
(* is a part of what is signed.                                            *)
LEMMA TimeBlockVerifies ==
    ASSUME NEW k \in PrivateKeys, NEW prev, NEW time
    PROVE  LET b == ProducedTimeBlock(k, prev, time) IN
           VerifyTimeBlock(b) /\ b.hash = HashOf(TimeBlockData(b), b.signature)
<1> DEFINE data == prev \o <<time>> \o PublicKeyOf(k)
           b == ProducedTimeBlock(k, prev, time)
<1>1. /\ b.prev = prev /\ b.time = time /\ b.key = PublicKeyOf(k)
      /\ b.signature = SignMessage(data, k)
      /\ b.hash = HashOf(data, SignMessage(data, k))
  BY DEF ProducedTimeBlock, SignTimeBlock, TimeBlock, SetSignature, TimeBlockData
<1> HIDE DEF b
<1>2. TimeBlockData(b) = data
  BY <1>1 DEF TimeBlockData
<1>3. VerifyTimeBlock(b) /\ b.hash = HashOf(TimeBlockData(b), b.signature)
  BY <1>1, <1>2 DEF VerifyTimeBlock, VerifySignature
<1> QED
  BY <1>3 DEF b

LEMMA ValueBlockVerifies ==
    ASSUME NEW k \in PrivateKeys, NEW prev, NEW ref, NEW time, NEW txs,
           \A i \in DOMAIN txs : VerifyTransaction(txs[i])
    PROVE  LET b == SignValueBlock(ValueBlock(prev, ref, time, txs, PublicKeyOf(k)), k) IN
           VerifyValueBlock(b) /\ b.hash = HashOf(ValueBlockData(b), b.signature)
<1> DEFINE data == prev \o ref \o <<time, Len(txs)>> \o SerializeTransactions(txs)
                     \o PublicKeyOf(k)
           b == SignValueBlock(ValueBlock(prev, ref, time, txs, PublicKeyOf(k)), k)
<1>1. /\ b.prev = prev /\ b.ref = ref /\ b.time = time /\ b.txs = txs
      /\ b.key = PublicKeyOf(k)
      /\ b.signature = SignMessage(data, k)
      /\ b.hash = HashOf(data, SignMessage(data, k))
  BY DEF SignValueBlock, ValueBlock, SetSignature, ValueBlockData
<1> HIDE DEF b
<1>2. ValueBlockData(b) = data
  BY <1>1 DEF ValueBlockData
<1>3. VerifySignature(ValueBlockData(b), b.signature, b.key)
  BY <1>1, <1>2 DEF VerifySignature
<1>4. VerifyTransactions(b)
  BY <1>1 DEF VerifyTransactions
<1>5. VerifyValueBlock(b) /\ b.hash = HashOf(ValueBlockData(b), b.signature)
  BY <1>1, <1>2, <1>3, <1>4 DEF VerifyValueBlock
<1> QED
  BY <1>5 DEF b

(* A coinbase transaction is taken without a look at its signature, and at *)
(* the head of verified ones it spoils nothing.                            *)
LEMMA CoinbaseVerifies ==
    ASSUME NEW k, NEW data, NEW pool \in Seq(AnyTransaction),
           \A i \in DOMAIN pool : VerifyTransaction(pool[i])
    PROVE  LET txs == <<Coinbase(k, data)>> \o pool IN
           \A i \in DOMAIN txs : VerifyTransaction(txs[i])
<1>1. PICK t : t = Coinbase(k, data)
  OBVIOUS
<1>2. t.sender = Zeros(KeySize)
  BY <1>1 DEF Coinbase, SignTransaction, Transaction, SetSignature
<1>3. VerifyTransaction(t)
  BY <1>2 DEF VerifyTransaction, IsCoinbase
<1> DEFINE S == AnyTransaction \cup {t}
<1>4. <<t>> \in Seq(S) /\ pool \in Seq(S) /\ Len(<<t>>) = 1 /\ <<t>>[1] = t
  BY SeqMonotonic
<1>5. PICK txs \in Seq(S) : txs = <<t>> \o pool
  BY <1>4, ConcatProperties
<1>6. /\ Len(txs) = 1 + Len(pool) /\ Len(pool) \in Nat
      /\ \A i \in 1..(1 + Len(pool)) :
            txs[i] = IF i <= 1 THEN <<t>>[i] ELSE pool[i - 1]
  BY <1>4, <1>5, ConcatProperties, LenProperties
<1>7. DOMAIN txs = 1..(1 + Len(pool)) /\ DOMAIN pool = 1..Len(pool)
  BY <1>5, <1>6, LenProperties
<1>8. ASSUME NEW i \in DOMAIN txs PROVE VerifyTransaction(txs[i])
  <2>1. CASE i = 1
    BY <1>3, <1>4, <1>6, <1>7, <2>1
  <2>2. CASE i # 1
    <3>1. i - 1 \in DOMAIN pool /\ ~(i <= 1)
      BY <1>6, <1>7, <2>2
    <3>2. txs[i] = pool[i - 1]
      BY <1>6, <1>7, <3>1
    <3> QED
      BY <3>1, <3>2
  <2> QED
    BY <2>1, <2>2
<1> QED
  BY <1>1, <1>5, <1>8

(* Every block was made by the genesis generator, or by produce_block, the *)
(* value blocks of a pool with nothing in it but what verifies.            *)
AllProduced ==
    /\ \A b \in TimeBlocks :
          \E k \in PrivateKeys : \E prev, time : b = ProducedTimeBlock(k, prev, time)
    /\ \A b \in ValueBlocks :
          \E k \in PrivateKeys :
             \/ b = ValueGenesis(k)
             \/ \E prev, ref, time : \E pool \in Seq(AnyTransaction) :
                   /\ \A i \in DOMAIN pool : VerifyTransaction(pool[i])
                   /\ b = ProducedValueBlock(k, prev, ref, time, pool)

(* A storage of blocks that the program made yields blocks that pass the   *)
(* checks of handle_block on signatures and have the hash that names them, *)
(* whatever the hash function and the keys are.                            *)
THEOREM FilesReadBlocksVerify ==
    ASSUME AllProduced
    PROVE  FileSpec => []ReadBlocksVerify
<1>1. ASSUME NEW b \in TimeBlocks
      PROVE  VerifyTimeBlock(b) /\ b.hash = HashOf(TimeBlockData(b), b.signature)
  BY AllProduced, TimeBlockVerifies DEF AllProduced
<1>2. ASSUME NEW b \in ValueBlocks
      PROVE  VerifyValueBlock(b) /\ b.hash = HashOf(ValueBlockData(b), b.signature)
  <2>1. PICK k \in PrivateKeys :
             \/ b = ValueGenesis(k)
             \/ \E prev, ref, time : \E pool \in Seq(AnyTransaction) :
                   /\ \A i \in DOMAIN pool : VerifyTransaction(pool[i])
                   /\ b = ProducedValueBlock(k, prev, ref, time, pool)
    BY AllProduced DEF AllProduced
  <2>2. CASE b = ValueGenesis(k)
    <3>1. PICK txs : txs = <<Coinbase(k, ReferenceText)>>
      OBVIOUS
    <3>2. DOMAIN txs = {1} /\ txs[1] = Coinbase(k, ReferenceText)
      BY <3>1
    <3>3. VerifyTransaction(Coinbase(k, ReferenceText))
      <4>1. Coinbase(k, ReferenceText).sender = Zeros(KeySize)
        BY DEF Coinbase, SignTransaction, Transaction, SetSignature
      <4> QED
        BY <4>1 DEF VerifyTransaction, IsCoinbase
    <3>4. \A i \in DOMAIN txs : VerifyTransaction(txs[i])
      BY <3>2, <3>3
    <3>5. b = SignValueBlock(ValueBlock(Zeros(HashSize), TimeGenesis(k).hash, GenesisTime, txs,
                                        PublicKeyOf(k)), k)
      BY <2>2, <3>1 DEF ValueGenesis
    <3> QED
      BY <3>4, <3>5, ValueBlockVerifies
  <2>3. ASSUME NEW prev, NEW ref, NEW time, NEW pool \in Seq(AnyTransaction),
               \A i \in DOMAIN pool : VerifyTransaction(pool[i]),
               b = ProducedValueBlock(k, prev, ref, time, pool)
        PROVE  VerifyValueBlock(b) /\ b.hash = HashOf(ValueBlockData(b), b.signature)
    <3>1. PICK txs : txs = GatherTransactions(k, pool)
      OBVIOUS
    <3>2. \A i \in DOMAIN txs : VerifyTransaction(txs[i])
      BY <2>3, <3>1, CoinbaseVerifies DEF GatherTransactions
    <3>3. b = SignValueBlock(ValueBlock(prev, ref, time, txs, PublicKeyOf(k)), k)
      BY <2>3, <3>1 DEF ProducedValueBlock
    <3> QED
      BY <3>2, <3>3, ValueBlockVerifies
  <2> QED
    BY <2>1, <2>2, <2>3
<1>3. ASSUME FileInv, answer \notin {Refused, Unread}
      PROVE  Verifies(answer) /\ answer.hash = HashOf(DataToSign(answer), answer.signature)
  <2>1. answer = written /\ written \in Blocks /\ kind \in {"time", "value"}
    BY <1>3, FileAnswer DEF FileInv
  <2> QED
    BY <1>1, <1>2, <2>1 DEF Blocks, Verifies, DataToSign
<1>4. FileInv => ReadBlocksVerify
  BY <1>3 DEF ReadBlocksVerify
<1> QED
  BY <1>4, FileInvInit, FileInvNext, PTL DEF FileSpec

(* The words of an object begin with what its signature is of, and go on   *)
(* with the signature and the hash.                                        *)
LEMMA DataFirst ==
    ASSUME NEW x \in Seq(Nat), NEW s \in Seq(Nat), NEW h \in Seq(Nat)
    PROVE  /\ Len(x \o s \o h) = Len(x) + Len(s) + Len(h)
           /\ \A i \in 1..Len(x) : (x \o s \o h)[i] = x[i]
<1>1. PICK y \in Seq(Nat) : y = x \o s
  BY TwoPieces
<1>2. Len(y) = Len(x) + Len(s) /\ \A i \in 1..Len(x) : y[i] = x[i]
  BY <1>1, TwoPieces
<1>3. Len(y \o h) = Len(y) + Len(h) /\ \A i \in 1..Len(y) : (y \o h)[i] = y[i]
  BY TwoPieces
<1>4. Len(x) \in Nat /\ Len(s) \in Nat /\ Len(h) \in Nat
  BY LenProperties
<1>5. \A i \in 1..Len(x) : i \in 1..Len(y)
  BY <1>2, <1>4
<1> QED
  BY <1>1, <1>2, <1>3, <1>4, <1>5

(* How long the data to sign are, and the words in them that count.        *)
LEMMA TimeBlockDataIs ==
    ASSUME NEW b \in AnyTimeBlock
    PROVE  /\ Len(TimeBlockData(b)) = HashSize + 1 + KeySize
           /\ SerializeTimeBlock(b) = TimeBlockData(b) \o b.signature \o b.hash
<1>1. /\ b.prev \in Seq(Nat) /\ Len(b.prev) = HashSize
      /\ b.key \in Seq(Nat) /\ Len(b.key) = KeySize
  BY SizesAreNat, FieldsAreSeqs DEF AnyTimeBlock
<1>2. PICK t \in Seq(Nat) : t = <<b.time>> /\ Len(t) = 1
  <2>1. <<b.time>> \in Seq(Nat) /\ Len(<<b.time>>) = 1
    BY DEF AnyTimeBlock
  <2> QED
    BY <2>1
<1>3. PICK x \in Seq(Nat) : x = b.prev \o t /\ Len(x) = HashSize + 1
  BY <1>1, <1>2, TwoPieces
<1>4. Len(x \o b.key) = HashSize + 1 + KeySize
  <2>1. Len(x \o b.key) = Len(x) + Len(b.key)
    BY <1>1, TwoPieces
  <2> QED
    BY <1>1, <1>3, <2>1, SizesAreNat
<1> QED
  BY <1>2, <1>3, <1>4 DEF TimeBlockData, SerializeTimeBlock

LEMMA TransactionDataIs ==
    ASSUME NEW t \in AnyTransaction
    PROVE  /\ Len(TransactionData(t)) = TransactionHead + Len(t.data)
           /\ TransactionData(t)[TransactionHead] = Len(t.data)
           /\ SerializeTransaction(t) = TransactionData(t) \o t.signature \o t.hash
<1>1. /\ t.sender \in Seq(Nat) /\ Len(t.sender) = KeySize
      /\ t.recipient \in Seq(Nat) /\ Len(t.recipient) = KeySize
      /\ t.signature \in Seq(Nat) /\ Len(t.signature) = SignatureSize
      /\ t.hash \in Seq(Nat) /\ Len(t.hash) = HashSize
  BY SizesAreNat, FieldsAreSeqs DEF AnyTransaction
<1>2. t.amount \in Nat /\ t.data \in Seq(Nat) /\ Len(t.data) \in Nat
  BY LenProperties DEF AnyTransaction
<1>3. PICK p \in Seq(Nat) : p = <<t.amount, Len(t.data)>> /\ Len(p) = 2
  <2>1. \A m, n \in Nat : <<m, n>> \in Seq(Nat) /\ Len(<<m, n>>) = 2
    OBVIOUS
  <2> QED
    BY <1>2, <2>1
<1>4. PICK x \in Seq(Nat) : x = t.sender \o t.recipient
  BY <1>1, TwoPieces
<1>5. PICK y \in Seq(Nat) : y = x \o p
  BY TwoPieces
<1>6. PICK z \in Seq(Nat) : z = y \o t.data
  BY <1>2, TwoPieces
<1>7. z = TransactionData(t)
  BY <1>3, <1>4, <1>5, <1>6 DEF TransactionData
<1>8. SerializeTransaction(t) = z \o t.signature \o t.hash
  BY <1>3, <1>4, <1>5, <1>6 DEF SerializeTransaction
<1>9. Len(z) = TransactionHead + Len(t.data)
  <2>1. Len(x) = Len(t.sender) + Len(t.recipient)
    BY <1>1, <1>4, TwoPieces
  <2>2. Len(y) = Len(x) + Len(p)
    BY <1>5, TwoPieces
  <2>3. Len(z) = Len(y) + Len(t.data)
    BY <1>2, <1>6, TwoPieces
  <2>4. TransactionHead = KeySize + KeySize + 2
    BY SizesAreNat DEF TransactionHead
  <2>5. Len(y) = TransactionHead
    BY <1>1, <1>3, <2>1, <2>2, <2>4, SizesAreNat
  <2> QED
    BY <2>3, <2>5
<1>10. z[TransactionHead] = Len(t.data)
  <2>1. TransactionHead \in Nat /\ TransactionHead >= 1
    BY SizesAreNat DEF TransactionHead
  <2>2. TransactionHead \in 1..Len(z)
    BY <1>2, <1>9, <2>1
  <2>3. \A i \in 1..Len(z) : (z \o t.signature \o t.hash)[i] = z[i]
    BY <1>1, DataFirst
  <2> QED
    BY <1>8, <2>2, <2>3, TransactionLaid
<1> QED
  BY <1>7, <1>8, <1>9, <1>10

LEMMA ValueBlockDataIs ==
    ASSUME NEW b \in AnyValueBlock
    PROVE  LET n == Len(SerializeTransactions(b.txs)) IN
           /\ n \in Nat
           /\ Len(ValueBlockData(b)) = ValueBlockHead + n + KeySize
           /\ ValueBlockData(b)[ValueBlockHead] = Len(b.txs)
           /\ SerializeValueBlock(b) = ValueBlockData(b) \o b.signature \o b.hash
<1>1. /\ b.prev \in Seq(Nat) /\ b.ref \in Seq(Nat) /\ b.key \in Seq(Nat)
      /\ b.signature \in Seq(Nat) /\ Len(b.signature) = SignatureSize
      /\ b.hash \in Seq(Nat) /\ Len(b.hash) = HashSize
  BY SizesAreNat, FieldsAreSeqs DEF AnyValueBlock
<1>2. b.time \in Nat /\ b.txs \in Seq(AnyTransaction) /\ Len(b.txs) \in Nat
  BY LenProperties DEF AnyValueBlock
<1>3. PICK w \in Seq(Nat) : w = SerializeTransactions(b.txs)
  BY <1>2, EntriesExist, EntriesLaid
<1>4. PICK p \in Seq(Nat) : p = <<b.time, Len(b.txs)>>
  <2>1. \A m, n \in Nat : <<m, n>> \in Seq(Nat)
    OBVIOUS
  <2> QED
    BY <1>2, <2>1
<1>5. PICK x \in Seq(Nat) : x = b.prev \o b.ref
  BY <1>1, TwoPieces
<1>6. PICK y \in Seq(Nat) : y = x \o p
  BY TwoPieces
<1>7. PICK v \in Seq(Nat) : v = y \o w
  BY TwoPieces
<1>8. PICK z \in Seq(Nat) : z = v \o b.key
  BY <1>1, TwoPieces
<1>9. z = ValueBlockData(b)
  BY <1>3, <1>4, <1>5, <1>6, <1>7, <1>8 DEF ValueBlockData
<1>10. PICK d \in Seq(Nat) : d = SerializeValueBlock(b) /\ ValueLaid(d, b)
  BY ValueBlockLaid DEF ValueLaid
<1>11. d = z \o b.signature \o b.hash
  BY <1>3, <1>4, <1>5, <1>6, <1>7, <1>8, <1>10 DEF SerializeValueBlock
<1>12. PICK n \in Nat : n = Len(w)
  BY LenProperties
<1>13. /\ Len(d) = ValueBlockHead + n + KeySize + SignatureSize + HashSize
       /\ d[ValueBlockHead] = Len(b.txs)
  BY <1>3, <1>10, <1>12 DEF ValueLaid
<1>14. /\ Len(d) = Len(z) + SignatureSize + HashSize /\ Len(z) \in Nat
       /\ \A i \in 1..Len(z) : d[i] = z[i]
  <2>1. PICK s \in Seq(Nat) : s = b.signature
    BY <1>1
  <2>2. PICK h \in Seq(Nat) : h = b.hash
    BY <1>1
  <2>3. /\ Len(z \o s \o h) = Len(z) + Len(s) + Len(h)
        /\ \A i \in 1..Len(z) : (z \o s \o h)[i] = z[i]
    BY DataFirst
  <2> QED
    BY <1>1, <1>11, <2>1, <2>2, <2>3, LenProperties
<1>15. Len(z) = ValueBlockHead + n + KeySize
  <2>1. Len(z) + SignatureSize + HashSize
          = ValueBlockHead + n + KeySize + SignatureSize + HashSize
    BY <1>13, <1>14
  <2>2. Len(z) \in Nat /\ ValueBlockHead \in Nat
    BY <1>14, ValueBlockHeadIsNat
  <2> QED
    BY <2>1, <2>2, SizesAreNat
<1>16. ValueBlockHead \in 1..Len(z)
  BY <1>12, <1>15, SizesAreNat, ValueBlockHeadIsNat
<1>17. z[ValueBlockHead] = Len(b.txs)
  BY <1>13, <1>14, <1>16
<1> QED
  BY <1>3, <1>9, <1>10, <1>11, <1>12, <1>15, <1>17

(* A block has no more transactions than their words are.                  *)
LEMMA EntriesAreLong ==
    ASSUME NEW ts \in Seq(AnyTransaction)
    PROVE  Len(SerializeTransactions(ts)) \in Nat /\ Len(SerializeTransactions(ts)) >= Len(ts)
<1> DEFINE n == Len(ts)
<1>1. PICK g : Entries(g, ts)
  BY EntriesExist
<1> DEFINE S == {i \in 0..n : Len(g[i]) >= i}
<1>2. n \in Nat /\ g[n] = SerializeTransactions(ts)
  BY <1>1, LenProperties DEF Entries
<1>3. /\ \A i \in 0..n : Len(g[i]) \in Nat
      /\ Len(g[0]) = 0
      /\ \A i \in 1..n : Len(g[i]) = Len(g[i - 1]) + Len(Entry(ts[i]))
  BY <1>1, EntriesLaid
<1>4. \A i \in 1..n : Len(Entry(ts[i])) \in Nat /\ Len(Entry(ts[i])) >= 1
  <2> SUFFICES ASSUME NEW i \in 1..n
               PROVE  Len(Entry(ts[i])) \in Nat /\ Len(Entry(ts[i])) >= 1
    OBVIOUS
  <2>1. ts[i] \in AnyTransaction
    BY ElementOfSeq
  <2>2. /\ Len(Entry(ts[i])) = 1 + Len(SerializeTransaction(ts[i]))
        /\ Len(SerializeTransaction(ts[i])) \in Nat
    BY <2>1, EntryIs, LenProperties
  <2> QED
    BY <2>2
<1> HIDE DEF n
<1>5. 0 \in S
  BY <1>2, <1>3
<1>6. ASSUME NEW i \in 0..n, i < n, i \in S PROVE i + 1 \in S
  <2>1. i + 1 \in 1..n /\ i + 1 \in 0..n /\ (i + 1) - 1 = i
    BY <1>2, <1>6
  <2>2. Len(g[i + 1]) = Len(g[i]) + Len(Entry(ts[i + 1]))
    BY <1>3, <2>1
  <2>3. Len(g[i + 1]) >= i + 1
    <3>1. Len(g[i]) \in Nat /\ Len(g[i]) >= i
      BY <1>3, <1>6
    <3>2. Len(Entry(ts[i + 1])) \in Nat /\ Len(Entry(ts[i + 1])) >= 1
      BY <1>4, <2>1
    <3>3. \A l, k \in Nat : l >= i /\ k >= 1 => l + k >= i + 1
      BY <1>2
    <3> QED
      BY <2>2, <3>1, <3>2, <3>3
  <2> QED
    BY <2>1, <2>3
<1> HIDE DEF S
<1>7. \A i \in 0..n : i \in S
  BY <1>2, <1>5, <1>6, InductionUpTo
<1>8. n \in S /\ n \in 0..n
  BY <1>2, <1>7
<1> QED
  BY <1>2, <1>3, <1>8 DEF S, n

(* Objects of one kind with the same data to sign differ in signature and  *)
(* hash only: with those of the other they would be the same words.        *)
LEMMA SameTimeBlock ==
    ASSUME NEW b \in AnyTimeBlock, NEW c \in AnyTimeBlock, TimeBlockData(b) = TimeBlockData(c)
    PROVE  b = [c EXCEPT !.signature = b.signature, !.hash = b.hash]
<1> DEFINE e == [c EXCEPT !.signature = b.signature, !.hash = b.hash]
<1>1. e \in AnyTimeBlock /\ e.signature = b.signature /\ e.hash = b.hash
  BY DEF AnyTimeBlock
<1>2. TimeBlockData(e) = TimeBlockData(c)
  BY DEF TimeBlockData, AnyTimeBlock
<1> HIDE DEF e
<1>3. SerializeTimeBlock(e) = SerializeTimeBlock(b)
  BY <1>1, <1>2, TimeBlockDataIs
<1>4. e = b
  <2>1. DeserializeTimeBlock(SerializeTimeBlock(e)) = e
    BY <1>1, TimeBlockContent
  <2>2. DeserializeTimeBlock(SerializeTimeBlock(b)) = b
    BY TimeBlockContent
  <2> QED
    BY <1>3, <2>1, <2>2
<1> QED
  BY <1>4 DEF e

LEMMA SameValueBlock ==
    ASSUME NEW b \in AnyValueBlock, NEW c \in AnyValueBlock,
           ValueBlockData(b) = ValueBlockData(c)
    PROVE  b = [c EXCEPT !.signature = b.signature, !.hash = b.hash]
<1> DEFINE e == [c EXCEPT !.signature = b.signature, !.hash = b.hash]
<1>1. e \in AnyValueBlock /\ e.signature = b.signature /\ e.hash = b.hash
  BY DEF AnyValueBlock
<1>2. ValueBlockData(e) = ValueBlockData(c)
  BY DEF ValueBlockData, AnyValueBlock
<1> HIDE DEF e
<1>3. SerializeValueBlock(e) = SerializeValueBlock(b)
  BY <1>1, <1>2, ValueBlockDataIs
<1>4. e = b
  <2>1. DeserializeValueBlock(SerializeValueBlock(e)) = e
    BY <1>1, ValueBlockRoundTrip
  <2>2. DeserializeValueBlock(SerializeValueBlock(b)) = b
    BY ValueBlockRoundTrip
  <2> QED
    BY <1>3, <2>1, <2>2
<1> QED
  BY <1>4 DEF e

LEMMA SameTransaction ==
    ASSUME NEW t \in AnyTransaction, NEW u \in AnyTransaction,
           TransactionData(t) = TransactionData(u)
    PROVE  t = [u EXCEPT !.signature = t.signature, !.hash = t.hash]
<1> DEFINE e == [u EXCEPT !.signature = t.signature, !.hash = t.hash]
<1>1. e \in AnyTransaction /\ e.signature = t.signature /\ e.hash = t.hash
  BY DEF AnyTransaction
<1>2. TransactionData(e) = TransactionData(u)
  BY DEF TransactionData, AnyTransaction
<1> HIDE DEF e
<1>3. SerializeTransaction(e) = SerializeTransaction(t)
  BY <1>1, <1>2, TransactionDataIs
<1>4. e = t
  <2>1. DeserializeTransaction(SerializeTransaction(e)) = e
    BY <1>1, TransactionRoundTrip
  <2>2. DeserializeTransaction(SerializeTransaction(t)) = t
    BY TransactionRoundTrip
  <2> QED
    BY <1>3, <2>1, <2>2
<1> QED
  BY <1>4 DEF e

(* No data to sign are of two kinds, when hashes and keys have one size:   *)
(* the word that is the length of a transaction's data would be the number *)
(* of a block's transactions, which are longer than that.                  *)
LEMMA SignedHeads ==
    ASSUME HashSize = KeySize
    PROVE  /\ KeySize \in Nat \ {0} /\ HashSize \in Nat
           /\ ValueBlockHead = TransactionHead /\ TransactionHead = KeySize + KeySize + 2
<1>1. KeySize \in Nat \ {0} /\ HashSize \in Nat
  BY FieldAssumption
<1> QED
  BY <1>1 DEF ValueBlockHead, TransactionHead

LEMMA TimeIsNotValue ==
    ASSUME HashSize = KeySize, NEW b \in AnyTimeBlock, NEW c \in AnyValueBlock
    PROVE  TimeBlockData(b) # ValueBlockData(c)
<1>1. PICK n \in Nat : n = Len(SerializeTransactions(c.txs))
  BY ValueBlockDataIs
<1>2. Len(ValueBlockData(c)) = ValueBlockHead + n + KeySize
  BY <1>1, ValueBlockDataIs
<1>3. Len(TimeBlockData(b)) = HashSize + 1 + KeySize
  BY TimeBlockDataIs
<1> QED
  BY <1>2, <1>3, SignedHeads

LEMMA TimeIsNotTransaction ==
    ASSUME HashSize = KeySize, NEW b \in AnyTimeBlock, NEW t \in AnyTransaction
    PROVE  TimeBlockData(b) # TransactionData(t)
<1>1. Len(TransactionData(t)) = TransactionHead + Len(t.data)
  BY TransactionDataIs
<1>2. Len(t.data) \in Nat
  BY LenProperties DEF AnyTransaction
<1>3. Len(TimeBlockData(b)) = KeySize + 1 + KeySize
  BY TimeBlockDataIs
<1>4. Len(TransactionData(t)) = (KeySize + KeySize + 2) + Len(t.data)
  BY <1>1, SignedHeads
<1>5. \A k, m \in Nat : k + 1 + k # (k + k + 2) + m
  OBVIOUS
<1> QED
  BY <1>2, <1>3, <1>4, <1>5, SignedHeads

LEMMA ValueIsNotTransaction ==
    ASSUME HashSize = KeySize, NEW c \in AnyValueBlock, NEW t \in AnyTransaction
    PROVE  ValueBlockData(c) # TransactionData(t)
<1>1. PICK n \in Nat : n = Len(SerializeTransactions(c.txs))
  BY ValueBlockDataIs
<1>2. /\ Len(ValueBlockData(c)) = ValueBlockHead + n + KeySize
      /\ ValueBlockData(c)[ValueBlockHead] = Len(c.txs)
  BY <1>1, ValueBlockDataIs
<1>3. n >= Len(c.txs) /\ Len(c.txs) \in Nat
  <2>1. c.txs \in Seq(AnyTransaction)
    BY DEF AnyValueBlock
  <2> QED
    BY <1>1, <2>1, EntriesAreLong, LenProperties
<1>4. /\ Len(TransactionData(t)) = TransactionHead + Len(t.data)
      /\ TransactionData(t)[TransactionHead] = Len(t.data)
  BY TransactionDataIs
<1>5. Len(t.data) \in Nat
  BY LenProperties DEF AnyTransaction
<1>6. ASSUME ValueBlockData(c) = TransactionData(t) PROVE FALSE
  <2>1. Len(t.data) = Len(c.txs)
    BY <1>2, <1>4, <1>6, SignedHeads
  <2>2. TransactionHead + Len(t.data) = TransactionHead + n + KeySize
    BY <1>2, <1>4, <1>6, SignedHeads
  <2>3. TransactionHead \in Nat
    BY SignedHeads
  <2>4. PICK k \in Nat \ {0} : k = KeySize
    BY SignedHeads
  <2>5. Len(t.data) = n + k
    BY <1>5, <2>2, <2>3, <2>4
  <2> QED
    BY <1>3, <1>5, <2>1, <2>5
<1> QED
  BY <1>6


(* x was signed, and its hash computed, by the holder of a key. *)
SignedBy(x, data, key) ==
    \E k \in PrivateKeys :
        /\ PublicKeyOf(k) = key
        /\ x.signature = SignMessage(data, k)
        /\ x.hash = HashOf(data, SignMessage(data, k))

(* Who signs a transaction: the sender, or, where there is none, whom the  *)
(* coins go to.                                                            *)
Signer(t) == IF IsCoinbase(t) THEN t.recipient ELSE t.sender

MadeByNode(t) ==
    \E k \in PrivateKeys :
        \/ \E recipient : t = Generated(k, recipient)
        \/ \E data : t = Coinbase(k, data)

(* Every block was made by the genesis generator or by produce_block, and  *)
(* every transaction by a node.                                            *)
AllMadeByNodes ==
    /\ \A b \in TimeBlocks :
          \E k \in PrivateKeys : \E prev, time : b = ProducedTimeBlock(k, prev, time)
    /\ \A b \in ValueBlocks :
          /\ \A i \in DOMAIN b.txs : MadeByNode(b.txs[i])
          /\ \E k \in PrivateKeys :
                \/ b = ValueGenesis(k)
                \/ \E prev, ref, time, pool : b = ProducedValueBlock(k, prev, ref, time, pool)

(* Keys are not zero, so it can be told who signed. *)
LEMMA NodesSign ==
    ASSUME NEW t, MadeByNode(t)
    PROVE  SignedBy(t, TransactionData(t), Signer(t))
<1>1. PICK k \in PrivateKeys :
         \/ \E recipient : t = Generated(k, recipient)
         \/ \E data : t = Coinbase(k, data)
  BY DEF MadeByNode
<1>2. PublicKeyOf(k) # Zeros(KeySize)
  BY PublicKeyAssumption DEF Zeros
<1>3. ASSUME NEW x, NEW y, NEW a, NEW d, t = SignTransaction(Transaction(x, y, a, d), k)
      PROVE  /\ t.sender = x /\ t.recipient = y
             /\ t.signature = SignMessage(TransactionData(t), k)
             /\ t.hash = HashOf(TransactionData(t), SignMessage(TransactionData(t), k))
  <2>1. /\ t.sender = x /\ t.recipient = y /\ t.amount = a /\ t.data = d
        /\ t.signature = SignMessage(x \o y \o <<a, Len(d)>> \o d, k)
        /\ t.hash = HashOf(x \o y \o <<a, Len(d)>> \o d,
                           SignMessage(x \o y \o <<a, Len(d)>> \o d, k))
    BY <1>3 DEF SignTransaction, Transaction, SetSignature, TransactionData
  <2>2. TransactionData(t) = x \o y \o <<a, Len(d)>> \o d
    BY <2>1 DEF TransactionData
  <2> QED
    BY <2>1, <2>2
<1>4. ASSUME NEW recipient, t = Generated(k, recipient)
      PROVE  SignedBy(t, TransactionData(t), Signer(t))
  <2>1. t = SignTransaction(Transaction(PublicKeyOf(k), recipient, 10, << >>), k)
    BY <1>4 DEF Generated
  <2>2. /\ t.sender = PublicKeyOf(k)
        /\ t.signature = SignMessage(TransactionData(t), k)
        /\ t.hash = HashOf(TransactionData(t), SignMessage(TransactionData(t), k))
    BY <1>3, <2>1
  <2> QED
    BY <1>2, <2>2 DEF SignedBy, Signer, IsCoinbase
<1>5. ASSUME NEW data, t = Coinbase(k, data)
      PROVE  SignedBy(t, TransactionData(t), Signer(t))
  <2>1. t = SignTransaction(Transaction(Zeros(KeySize), PublicKeyOf(k), 50, data), k)
    BY <1>5 DEF Coinbase
  <2>2. /\ t.sender = Zeros(KeySize) /\ t.recipient = PublicKeyOf(k)
        /\ t.signature = SignMessage(TransactionData(t), k)
        /\ t.hash = HashOf(TransactionData(t), SignMessage(TransactionData(t), k))
    BY <1>3, <2>1
  <2> QED
    BY <2>2 DEF SignedBy, Signer, IsCoinbase
<1> QED
  BY <1>1, <1>4, <1>5

LEMMA MakersSign ==
    ASSUME AllMadeByNodes
    PROVE  /\ \A b \in TimeBlocks : SignedBy(b, TimeBlockData(b), b.key)
           /\ \A b \in ValueBlocks : SignedBy(b, ValueBlockData(b), b.key)
<1>1. ASSUME NEW b \in TimeBlocks PROVE SignedBy(b, TimeBlockData(b), b.key)
  <2>1. PICK k \in PrivateKeys : \E prev, time : b = ProducedTimeBlock(k, prev, time)
    BY AllMadeByNodes DEF AllMadeByNodes
  <2>2. PICK prev, time : b = ProducedTimeBlock(k, prev, time)
    BY <2>1
  <2> DEFINE data == prev \o <<time>> \o PublicKeyOf(k)
  <2>3. /\ b.prev = prev /\ b.time = time /\ b.key = PublicKeyOf(k)
        /\ b.signature = SignMessage(data, k)
        /\ b.hash = HashOf(data, SignMessage(data, k))
    BY <2>2 DEF ProducedTimeBlock, SignTimeBlock, TimeBlock, SetSignature, TimeBlockData
  <2>4. TimeBlockData(b) = data
    BY <2>3 DEF TimeBlockData
  <2> QED
    BY <2>3, <2>4 DEF SignedBy
<1>2. ASSUME NEW k \in PrivateKeys, NEW b, NEW prev, NEW ref, NEW time, NEW txs,
             b = SignValueBlock(ValueBlock(prev, ref, time, txs, PublicKeyOf(k)), k)
      PROVE  SignedBy(b, ValueBlockData(b), b.key)
  <2> DEFINE data == prev \o ref \o <<time, Len(txs)>> \o SerializeTransactions(txs)
                       \o PublicKeyOf(k)
  <2>1. /\ b.prev = prev /\ b.ref = ref /\ b.time = time /\ b.txs = txs
        /\ b.key = PublicKeyOf(k)
        /\ b.signature = SignMessage(data, k)
        /\ b.hash = HashOf(data, SignMessage(data, k))
    BY <1>2 DEF SignValueBlock, ValueBlock, SetSignature, ValueBlockData
  <2>2. ValueBlockData(b) = data
    BY <2>1 DEF ValueBlockData
  <2> QED
    BY <2>1, <2>2 DEF SignedBy
<1>3. ASSUME NEW b \in ValueBlocks PROVE SignedBy(b, ValueBlockData(b), b.key)
  <2>1. PICK k \in PrivateKeys :
             \/ b = ValueGenesis(k)
             \/ \E prev, ref, time, pool : b = ProducedValueBlock(k, prev, ref, time, pool)
    BY AllMadeByNodes DEF AllMadeByNodes
  <2>2. \E prev, ref, time, txs :
             b = SignValueBlock(ValueBlock(prev, ref, time, txs, PublicKeyOf(k)), k)
    BY <2>1 DEF ValueGenesis, ProducedValueBlock
  <2> QED
    BY <1>2, <2>2
<1> QED
  BY <1>1, <1>3

(* What a block or transaction says decides the private key, and with it   *)
(* signature and hash: signing takes no random number.                     *)
LEMMA SameSignature ==
    ASSUME NEW x, NEW y, NEW data, NEW key, SignedBy(x, data, key), SignedBy(y, data, key)
    PROVE  x.signature = y.signature /\ x.hash = y.hash
  BY PublicKeyAssumption DEF SignedBy

LEMMA OneTimeBlock ==
    ASSUME AllMadeByNodes, NEW b \in TimeBlocks, NEW c \in TimeBlocks,
           TimeBlockData(b) = TimeBlockData(c)
    PROVE  b = c
<1>1. b \in AnyTimeBlock /\ c \in AnyTimeBlock
  BY BlockAssumption
<1>2. b = [c EXCEPT !.signature = b.signature, !.hash = b.hash]
  BY <1>1, SameTimeBlock
<1>3. b.key = c.key
  BY <1>1, <1>2 DEF AnyTimeBlock
<1>4. b.signature = c.signature /\ b.hash = c.hash
  BY <1>3, MakersSign, SameSignature
<1> QED
  BY <1>1, <1>2, <1>4 DEF AnyTimeBlock

LEMMA OneValueBlock ==
    ASSUME AllMadeByNodes, NEW b \in ValueBlocks, NEW c \in ValueBlocks,
           ValueBlockData(b) = ValueBlockData(c)
    PROVE  b = c
<1>1. b \in AnyValueBlock /\ c \in AnyValueBlock
  BY BlockAssumption
<1>2. b = [c EXCEPT !.signature = b.signature, !.hash = b.hash]
  BY <1>1, SameValueBlock
<1>3. b.key = c.key
  BY <1>1, <1>2 DEF AnyValueBlock
<1>4. b.signature = c.signature /\ b.hash = c.hash
  BY <1>3, MakersSign, SameSignature
<1> QED
  BY <1>1, <1>2, <1>4 DEF AnyValueBlock

LEMMA OneTransaction ==
    ASSUME NEW t \in AnyTransaction, NEW u \in AnyTransaction, MadeByNode(t), MadeByNode(u),
           TransactionData(t) = TransactionData(u)
    PROVE  t = u
<1>1. t = [u EXCEPT !.signature = t.signature, !.hash = t.hash]
  BY SameTransaction
<1>2. Signer(t) = Signer(u)
  BY <1>1 DEF AnyTransaction, Signer, IsCoinbase
<1>3. t.signature = u.signature /\ t.hash = u.hash
  BY <1>2, NodesSign, SameSignature
<1> QED
  BY <1>1, <1>3 DEF AnyTransaction

(* One of the objects that are signed, and the data its signature is of.   *)
LEMMA SignedObjects ==
    ASSUME NEW x \in AllSigned
    PROVE  \/ \E b \in TimeBlocks : x = [object |-> b, data |-> TimeBlockData(b)]
           \/ \E b \in ValueBlocks : x = [object |-> b, data |-> ValueBlockData(b)]
           \/ \E b \in ValueBlocks : \E i \in DOMAIN b.txs :
                 x = [object |-> b.txs[i], data |-> TransactionData(b.txs[i])]
  BY DEF AllSigned, SignedInTimeBlock, SignedInValueBlock, ToSet

LEMMA OneObject ==
    ASSUME HashSize = KeySize, AllMadeByNodes,
           NEW x \in AllSigned, NEW y \in AllSigned, x.data = y.data
    PROVE  x.object = y.object
<1>1. /\ \A b \in TimeBlocks : b \in AnyTimeBlock
      /\ \A b \in ValueBlocks :
            b \in AnyValueBlock /\ \A i \in DOMAIN b.txs : b.txs[i] \in AnyTransaction
  <2>1. ASSUME NEW b \in AnyValueBlock, NEW i \in DOMAIN b.txs PROVE b.txs[i] \in AnyTransaction
    <3>1. PICK ts \in Seq(AnyTransaction) : ts = b.txs
      BY DEF AnyValueBlock
    <3> QED
      BY <2>1, <3>1, LenProperties, ElementOfSeq
  <2> QED
    BY <2>1, BlockAssumption
<1>2. \A b \in ValueBlocks : \A i \in DOMAIN b.txs : MadeByNode(b.txs[i])
  BY AllMadeByNodes DEF AllMadeByNodes
<1> DEFINE IsTime(z) == \E b \in TimeBlocks : z = [object |-> b, data |-> TimeBlockData(b)]
           IsValue(z) == \E b \in ValueBlocks : z = [object |-> b, data |-> ValueBlockData(b)]
           IsTx(z) == \E t \in AnyTransaction :
                        MadeByNode(t) /\ z = [object |-> t, data |-> TransactionData(t)]
<1>3. ASSUME NEW z \in AllSigned PROVE IsTime(z) \/ IsValue(z) \/ IsTx(z)
  BY <1>1, <1>2, SignedObjects
<1>4. CASE IsTime(x) /\ IsTime(y)
  BY <1>4, OneTimeBlock
<1>5. CASE IsValue(x) /\ IsValue(y)
  BY <1>5, OneValueBlock
<1>6. CASE IsTx(x) /\ IsTx(y)
  BY <1>6, OneTransaction
<1>7. ASSUME NEW v \in AllSigned, NEW w \in AllSigned, v.data = w.data
      PROVE  /\ ~(IsTime(v) /\ IsValue(w))
             /\ ~(IsTime(v) /\ IsTx(w))
             /\ ~(IsValue(v) /\ IsTx(w))
  <2>1. CASE IsTime(v) /\ IsValue(w)
    <3>1. PICK b \in TimeBlocks : v = [object |-> b, data |-> TimeBlockData(b)]
      BY <2>1
    <3>2. PICK c \in ValueBlocks : w = [object |-> c, data |-> ValueBlockData(c)]
      BY <2>1
    <3>3. TimeBlockData(b) = ValueBlockData(c)
      BY <1>7, <3>1, <3>2
    <3> QED
      BY <1>1, <3>3, TimeIsNotValue
  <2>2. CASE IsTime(v) /\ IsTx(w)
    <3>1. PICK b \in TimeBlocks : v = [object |-> b, data |-> TimeBlockData(b)]
      BY <2>2
    <3>2. PICK t \in AnyTransaction : w = [object |-> t, data |-> TransactionData(t)]
      BY <2>2
    <3>3. TimeBlockData(b) = TransactionData(t)
      BY <1>7, <3>1, <3>2
    <3> QED
      BY <1>1, <3>3, TimeIsNotTransaction
  <2>3. CASE IsValue(v) /\ IsTx(w)
    <3>1. PICK b \in ValueBlocks : v = [object |-> b, data |-> ValueBlockData(b)]
      BY <2>3
    <3>2. PICK t \in AnyTransaction : w = [object |-> t, data |-> TransactionData(t)]
      BY <2>3
    <3>3. ValueBlockData(b) = TransactionData(t)
      BY <1>7, <3>1, <3>2
    <3> QED
      BY <1>1, <3>3, ValueIsNotTransaction
  <2> QED
    BY <2>1, <2>2, <2>3
<1> HIDE DEF IsTime, IsValue, IsTx
<1> QED
  BY <1>3, <1>4, <1>5, <1>6, <1>7

(* A signature stands for one object, of one kind, whatever the hash       *)
(* function and the keys are: hashes and keys have 32 bytes each, what is  *)
(* read was made by nodes, and what was made of the same words is the same *)
(* (the three get_data_to_sign, deserialize and set_signature).            *)
THEOREM SignaturesNameObjects ==
    ASSUME HashSize = KeySize, AllMadeByNodes
    PROVE  FileSpec => []SignatureNamesObject
<1>1. ASSUME FileInv, answer \notin {Refused, Unread}
      PROVE  (IF kind = "time" THEN SignedInTimeBlock(answer) ELSE SignedInValueBlock(answer))
                \subseteq AllSigned
  <2>1. answer = written /\ written \in Blocks /\ kind \in {"time", "value"}
    BY <1>1, FileAnswer DEF FileInv
  <2> QED
    BY <2>1 DEF Blocks, AllSigned
<1>2. FileInv => SignatureNamesObject
  BY <1>1, OneObject DEF SignatureNamesObject
<1> QED
  BY <1>2, FileInvInit, FileInvNext, PTL DEF FileSpec
-----------------------------------------------------------------------------
(* Nodes that send transactions to each other.                             *)

(* The transactions among the first n entries of a history. *)
TransactionsUpTo(history, n) ==
    LET taken[i \in 0..Len(history)] ==
            IF i = 0 THEN <<>>
            ELSE IF IsTransaction(history[i]) THEN Append(taken[i - 1], history[i])
            ELSE taken[i - 1]
    IN taken[n]

(* It is what the recursive function in its definition says. *)
LEMMA TransactionsUnfold ==
    ASSUME NEW S, NEW h \in Seq(S)
    PROVE  /\ TransactionsUpTo(h, 0) = << >>
           /\ \A i \in 0..Len(h) : TransactionsUpTo(h, i) \in Seq(S)
           /\ \A i \in 1..Len(h) :
                 TransactionsUpTo(h, i) = IF IsTransaction(h[i])
                                          THEN Append(TransactionsUpTo(h, i - 1), h[i])
                                          ELSE TransactionsUpTo(h, i - 1)
<1> DEFINE n == Len(h)
           IsTaken(f) == f = [i \in 0..n |->
                                IF i = 0 THEN << >>
                                ELSE IF IsTransaction(h[i]) THEN Append(f[i - 1], h[i])
                                ELSE f[i - 1]]
           taken == CHOOSE f : IsTaken(f)
           step == [p \in Nat \X Seq(S) |->
                      IF p[1] \in 1..n /\ IsTransaction(h[p[1]]) THEN Append(p[2], h[p[1]])
                      ELSE p[2]]
<1>1. n \in Nat /\ \A i \in 1..n : h[i] \in S
  BY LenProperties, ElementOfSeq
<1>2. \A i : TransactionsUpTo(h, i) = taken[i]
  BY DEF TransactionsUpTo
<1> HIDE DEF n
<1>3. << >> \in Seq(S)
  BY EmptySeq
<1>4. \A x \in Seq(S) : \A e \in S : Append(x, e) \in Seq(S)
  BY AppendProperties
<1>5. step \in [Nat \X Seq(S) -> Seq(S)]
  BY <1>1, <1>4
<1>6. ASSUME NEW i \in 1..n, NEW x \in Seq(S)
      PROVE  step[<<i, x>>] = IF IsTransaction(h[i]) THEN Append(x, h[i]) ELSE x
  <2>1. <<i, x>> \in Nat \X Seq(S)
    BY <1>1
  <2> QED
    BY <2>1
<1> HIDE DEF step
<1>7. PICK g : Unfolds(g, Seq(S), << >>, step, n)
  BY <1>1, <1>3, <1>5, Recursion
<1>8. /\ g \in [0..n -> Seq(S)] /\ g[0] = << >>
      /\ \A i \in 1..n : g[i] = IF IsTransaction(h[i]) THEN Append(g[i - 1], h[i]) ELSE g[i - 1]
  <2>1. ASSUME NEW i \in 1..n
        PROVE  g[i] = IF IsTransaction(h[i]) THEN Append(g[i - 1], h[i]) ELSE g[i - 1]
    <3>1. i - 1 \in 0..n
      BY <1>1
    <3>2. g[i - 1] \in Seq(S)
      BY <1>7, <3>1 DEF Unfolds
    <3> QED
      BY <1>6, <1>7, <3>2 DEF Unfolds
  <2> QED
    BY <1>7, <2>1 DEF Unfolds
<1>9. IsTaken(g)
  <2> DEFINE other == [i \in 0..n |-> IF i = 0 THEN << >>
                                      ELSE IF IsTransaction(h[i]) THEN Append(g[i - 1], h[i])
                                      ELSE g[i - 1]]
  <2>1. ASSUME NEW i \in 0..n PROVE g[i] = other[i]
    <3>1. i = 0 \/ i \in 1..n
      BY <1>1
    <3>2. CASE i = 0
      BY <1>8, <3>2
    <3>3. CASE i \in 1..n
      <4>1. i # 0
        BY <1>1, <3>3
      <4> QED
        BY <1>8, <3>3, <4>1
    <3> QED
      BY <3>1, <3>2, <3>3
  <2>2. g = other
    BY <1>8, <2>1
  <2> QED
    BY <2>2
<1> HIDE DEF IsTaken
<1>10. IsTaken(taken)
  BY <1>9
<1> HIDE DEF taken
<1>11. \A i \in 0..n : taken[i] = IF i = 0 THEN << >>
                                  ELSE IF IsTransaction(h[i]) THEN Append(taken[i - 1], h[i])
                                  ELSE taken[i - 1]
  <2>1. taken = [i \in 0..n |-> IF i = 0 THEN << >>
                                ELSE IF IsTransaction(h[i]) THEN Append(taken[i - 1], h[i])
                                ELSE taken[i - 1]]
    BY <1>10 DEF IsTaken
  <2> QED
    BY <2>1
<1>12. 0 \in 0..n /\ taken[0] = << >>
  <2>1. 0 \in 0..n
    BY <1>1
  <2> QED
    BY <1>11, <2>1
<1>13. \A i \in 1..n : taken[i] = IF IsTransaction(h[i]) THEN Append(taken[i - 1], h[i])
                                  ELSE taken[i - 1]
  <2> SUFFICES ASSUME NEW i \in 1..n
               PROVE  taken[i] = IF IsTransaction(h[i]) THEN Append(taken[i - 1], h[i])
                                 ELSE taken[i - 1]
    OBVIOUS
  <2>1. i \in 0..n /\ i # 0
    BY <1>1
  <2> QED
    BY <1>11, <2>1
<1>14. \A i \in 0..n : taken[i] \in Seq(S)
  <2> DEFINE T == {i \in 0..n : taken[i] \in Seq(S)}
  <2>1. 0 \in T
    BY <1>3, <1>12
  <2>2. ASSUME NEW i \in 0..n, i < n, i \in T PROVE i + 1 \in T
    <3>1. i + 1 \in 1..n /\ i + 1 \in 0..n /\ (i + 1) - 1 = i
      BY <1>1, <2>2
    <3>2. h[i + 1] \in S /\ taken[i] \in Seq(S)
      BY <1>1, <2>2, <3>1
    <3>3. taken[i + 1] \in Seq(S)
      BY <1>4, <1>13, <3>1, <3>2
    <3> QED
      BY <3>1, <3>3
  <2> HIDE DEF T
  <2>3. \A i \in 0..n : i \in T
    BY <1>1, <2>1, <2>2, InductionUpTo
  <2> QED
    BY <2>3 DEF T
<1> QED
  BY <1>2, <1>12, <1>13, <1>14 DEF n

LEMMA TransactionsInIs ==
    ASSUME NEW h
    PROVE  TransactionsIn(h) = TransactionsUpTo(h, Len(h))
  BY DEF TransactionsIn, TransactionsUpTo

(* A history that grows keeps the transactions it has.                     *)
LEMMA TransactionsOfLonger ==
    ASSUME NEW S, NEW h \in Seq(S), NEW e \in S
    PROVE  \A i \in 0..Len(h) : TransactionsUpTo(Append(h, e), i) = TransactionsUpTo(h, i)
<1> DEFINE n == Len(h)
<1>1. PICK k \in Seq(S) : k = Append(h, e)
  BY AppendProperties
<1>2. Len(k) = n + 1 /\ n \in Nat /\ \A i \in 1..n : k[i] = h[i]
  BY <1>1, AppendProperties, LenProperties
<1> HIDE DEF n
<1> DEFINE T == {i \in 0..n : TransactionsUpTo(k, i) = TransactionsUpTo(h, i)}
<1>3. 0 \in T
  BY <1>2, TransactionsUnfold
<1>4. ASSUME NEW i \in 0..n, i < n, i \in T PROVE i + 1 \in T
  <2>1. /\ i + 1 \in 1..n /\ i + 1 \in 1..Len(k) /\ i + 1 \in 0..n /\ (i + 1) - 1 = i
        /\ k[i + 1] = h[i + 1]
    BY <1>2, <1>4
  <2>2. TransactionsUpTo(h, i + 1) = IF IsTransaction(h[i + 1])
                                     THEN Append(TransactionsUpTo(h, i), h[i + 1])
                                     ELSE TransactionsUpTo(h, i)
    BY <2>1, TransactionsUnfold DEF n
  <2>3. TransactionsUpTo(k, i + 1) = IF IsTransaction(k[i + 1])
                                     THEN Append(TransactionsUpTo(k, i), k[i + 1])
                                     ELSE TransactionsUpTo(k, i)
    BY <2>1, TransactionsUnfold
  <2> QED
    BY <1>4, <2>1, <2>2, <2>3
<1> HIDE DEF T
<1>5. \A i \in 0..n : i \in T
  BY <1>2, <1>3, <1>4, InductionUpTo
<1> QED
  BY <1>1, <1>5 DEF T, n

(* s comes first in t. *)
Begins(s, t) == Len(s) <= Len(t) /\ \A i \in 1..Len(s) : s[i] = t[i]

LEMMA BeginsAppend ==
    ASSUME NEW S, NEW s, Len(s) \in Nat, NEW t \in Seq(S), NEW e \in S, Begins(s, t)
    PROVE  Begins(s, Append(t, e))
  BY AppendProperties, LenProperties DEF Begins

LEMMA BeginsIsPrefix ==
    ASSUME NEW S, NEW T, NEW s \in Seq(S), NEW t \in Seq(T), Begins(s, t)
    PROVE  IsPrefix(s, t)
<1> DEFINE n == Len(s)
           v == SubSeq(t, 1, n)
<1>1. n \in Nat /\ n <= Len(t) /\ Len(t) \in Nat /\ \A i \in 1..n : s[i] = t[i]
  BY LenProperties DEF Begins
<1>2. \A i \in 1..n : s[i] \in S
  BY ElementOfSeq
<1>3. \A i \in 1..n : t[i] \in S
  BY <1>1, <1>2
<1> HIDE DEF n
<1>4. /\ v \in Seq(S) /\ Len(v) = IF 1 <= n THEN n - 1 + 1 ELSE 0
      /\ \A i \in 1..(n - 1 + 1) : v[i] = t[1 + i - 1]
  BY <1>1, <1>3, SubSeqProperties
<1> HIDE DEF v
<1>5. Len(v) = Len(s) /\ \A i \in 1..Len(s) : s[i] = v[i]
  BY <1>1, <1>4 DEF n
<1>6. s = v
  BY <1>4, <1>5, SeqEqual
<1>7. SubSeq(s, 1, Len(s)) = s
  BY SubSeqFull
<1> QED
  BY <1>1, <1>6, <1>7 DEF IsPrefix, v, n

(* The transactions of a part come first among those of the whole.         *)
LEMMA TransactionsOfPart ==
    ASSUME NEW S, NEW h \in Seq(S), NEW k \in 0..Len(h)
    PROVE  Begins(TransactionsUpTo(h, k), TransactionsUpTo(h, Len(h)))
<1> DEFINE n == Len(h)
           T == {i \in 0..n : i >= k => Begins(TransactionsUpTo(h, k), TransactionsUpTo(h, i))}
<1>1. n \in Nat /\ k \in Nat
  BY LenProperties
<1>2. \A i \in 0..n : /\ TransactionsUpTo(h, i) \in Seq(S)
                      /\ Len(TransactionsUpTo(h, i)) \in Nat
  BY TransactionsUnfold, LenProperties
<1>3. Begins(TransactionsUpTo(h, k), TransactionsUpTo(h, k))
  BY <1>2 DEF Begins
<1>4. 0 \in T
  BY <1>1, <1>3
<1>5. ASSUME NEW i \in 0..n, i < n, i \in T PROVE i + 1 \in T
  <2>1. i + 1 \in 1..n /\ i + 1 \in 0..n /\ (i + 1) - 1 = i /\ h[i + 1] \in S
    BY <1>1, <1>5, ElementOfSeq
  <2>2. CASE i + 1 <= k
    BY <1>1, <1>3, <2>1, <2>2
  <2>3. CASE ~(i + 1 <= k)
    <3>1. i >= k
      BY <1>1, <2>3
    <3>2. Begins(TransactionsUpTo(h, k), TransactionsUpTo(h, i))
      BY <1>5, <3>1
    <3>3. TransactionsUpTo(h, i + 1) = IF IsTransaction(h[i + 1])
                                       THEN Append(TransactionsUpTo(h, i), h[i + 1])
                                       ELSE TransactionsUpTo(h, i)
      BY <2>1, TransactionsUnfold
    <3>4. Begins(TransactionsUpTo(h, k), TransactionsUpTo(h, i + 1))
      BY <1>2, <2>1, <3>2, <3>3, BeginsAppend
    <3> QED
      BY <2>1, <3>4
  <2> QED
    BY <2>2, <2>3
<1> HIDE DEF T, n
<1>6. \A i \in 0..n : i \in T
  BY <1>1, <1>4, <1>5, InductionUpTo
<1>7. n \in T /\ k \in 0..n /\ n >= k
  BY <1>1, <1>6 DEF n
<1> QED
  BY <1>7 DEF T, n

(* What a node broadcasts, the message it becomes, and what a consensus is *)
(* called with when the message is handed over.                            *)
Broadcasts ==
    {[type |-> 1, object |-> b] : b \in TimeBlocks}
        \cup {[type |-> 2, object |-> b] : b \in ValueBlocks}
        \cup {[type |-> 3, object |-> t] : t \in Transactions}

MessageOf(n, e) ==
    [type |-> e.type,
     payload |-> CASE e.type = 1 -> BlockPayload(n, SerializeTimeBlock(e.object))
                   [] e.type = 2 -> BlockPayload(n, SerializeValueBlock(e.object))
                   [] e.type = 3 -> SerializeTransaction(e.object)]

HandedOf(message) == [type |-> message.type, object |-> Deserialized(message)]

Messages == {MessageOf(n, e) : n \in Nodes, e \in Broadcasts}

Handovers == {HandedOf(m) : m \in Messages}

(* A transaction that was broadcast comes out of its message as it was.    *)
LEMMA TransactionMessage ==
    ASSUME NEW n, NEW e \in Broadcasts, IsTransaction(e)
    PROVE  Deserialized(MessageOf(n, e)) # Refused /\ HandedOf(MessageOf(n, e)) = e
<1>1. PICK t \in Transactions : e = [type |-> 3, object |-> t]
  BY DEF Broadcasts, IsTransaction
<1>2. t \in AnyTransaction
  BY TransactionsAssumption
<1>3. PICK d \in Seq(Nat) : d = SerializeTransaction(t)
  BY <1>2, TransactionLaid
<1>4. LongEnough(d)
  <2>1. Len(d) = MinTransactionSize + Len(t.data) /\ Len(t.data) \in Nat
    BY <1>2, <1>3, TransactionLaid, LenProperties DEF AnyTransaction
  <2>2. MinTransactionSize \in Nat
    BY SizesAreNat DEF MinTransactionSize, TransactionHead
  <2> QED
    BY <2>1, <2>2 DEF LongEnough
<1>5. DeserializeTransaction(d) = t /\ t # Refused
  BY <1>2, <1>3, TransactionRoundTrip, RefusedAssumption
<1>6. MessageOf(n, e) = [type |-> 3, payload |-> d]
  BY <1>1, <1>3 DEF MessageOf
<1>7. Deserialized(MessageOf(n, e)) = t
  BY <1>4, <1>5, <1>6 DEF Deserialized
<1> QED
  BY <1>1, <1>5, <1>6, <1>7 DEF HandedOf

(* Of a pair of nodes: what is on the wire are the last broadcasts, in     *)
(* order; the transactions handed over come first among those broadcast,   *)
(* and as long as the receiver lives they are all but those on the wire.   *)
Tracked(p, s, w, h, u) ==
    /\ Len(w) <= Len(s)
    /\ \A j \in 1..Len(w) : w[j] = MessageOf(p[1], s[Len(s) - Len(w) + j])
    /\ Begins(TransactionsIn(h), TransactionsIn(s))
    /\ p[2] \in u => TransactionsIn(h) = TransactionsUpTo(s, Len(s) - Len(w))

LEMMA TrackedSent ==
    ASSUME NEW p, NEW u, NEW s \in Seq(Broadcasts), NEW w \in Seq(Messages),
           NEW h \in Seq(Handovers), Tracked(p, s, w, h, u),
           NEW e \in Broadcasts, MessageOf(p[1], e) \in Messages
    PROVE  Tracked(p, Append(s, e), Append(w, MessageOf(p[1], e)), h, u)
<1>1. PICK m \in Messages : m = MessageOf(p[1], e)
  OBVIOUS
<1>2. PICK x \in Seq(Broadcasts) : x = Append(s, e)
  BY AppendProperties
<1>3. PICK y \in Seq(Messages) : y = Append(w, m)
  BY AppendProperties
<1>4. /\ Len(s) \in Nat /\ Len(w) \in Nat /\ Len(w) <= Len(s)
      /\ \A j \in 1..Len(w) : w[j] = MessageOf(p[1], s[Len(s) - Len(w) + j])
  BY LenProperties DEF Tracked
<1>5. /\ Len(x) = Len(s) + 1 /\ (\A j \in 1..Len(s) : x[j] = s[j]) /\ x[Len(s) + 1] = e
      /\ Len(y) = Len(w) + 1 /\ (\A j \in 1..Len(w) : y[j] = w[j]) /\ y[Len(w) + 1] = m
  BY <1>2, <1>3, AppendProperties
<1>6. Len(x) - Len(y) = Len(s) - Len(w) /\ Len(s) - Len(w) \in 0..Len(s) /\ Len(y) <= Len(x)
  BY <1>4, <1>5
<1>7. ASSUME NEW j \in 1..Len(y) PROVE y[j] = MessageOf(p[1], x[Len(x) - Len(y) + j])
  <2>1. CASE j = Len(w) + 1
    <3>1. Len(x) - Len(y) + j = Len(s) + 1
      BY <1>4, <1>6, <2>1
    <3> QED
      BY <1>1, <1>5, <2>1, <3>1
  <2>2. CASE j # Len(w) + 1
    <3>1. j \in 1..Len(w) /\ Len(s) - Len(w) + j \in 1..Len(s)
      BY <1>4, <1>5, <2>2
    <3>2. Len(x) - Len(y) + j = Len(s) - Len(w) + j
      BY <1>6
    <3> QED
      BY <1>4, <1>5, <3>1, <3>2
  <2> QED
    BY <2>1, <2>2
<1>8. Begins(TransactionsIn(h), TransactionsIn(x))
  <2>1. TransactionsIn(h) \in Seq(Handovers) /\ TransactionsIn(s) \in Seq(Broadcasts)
    BY <1>4, TransactionsUnfold, TransactionsInIs, LenProperties
  <2>2. TransactionsUpTo(x, Len(s)) = TransactionsIn(s)
    BY <1>2, <1>4, TransactionsOfLonger, TransactionsInIs
  <2>3. TransactionsIn(x) = IF IsTransaction(e) THEN Append(TransactionsIn(s), e)
                            ELSE TransactionsIn(s)
    <3>1. Len(x) \in 1..Len(x) /\ Len(x) - 1 = Len(s) /\ x[Len(x)] = e
      BY <1>4, <1>5
    <3> QED
      BY <2>2, <3>1, TransactionsUnfold, TransactionsInIs
  <2>4. Begins(TransactionsIn(h), TransactionsIn(s)) /\ Len(TransactionsIn(h)) \in Nat
    BY <2>1, LenProperties DEF Tracked
  <2> QED
    BY <2>1, <2>3, <2>4, BeginsAppend
<1>9. ASSUME p[2] \in u PROVE TransactionsIn(h) = TransactionsUpTo(x, Len(x) - Len(y))
  <2>1. TransactionsIn(h) = TransactionsUpTo(s, Len(s) - Len(w))
    BY <1>9 DEF Tracked
  <2> QED
    <3>1. PICK k \in 0..Len(s) : k = Len(s) - Len(w)
      BY <1>6
    <3>2. TransactionsUpTo(x, k) = TransactionsUpTo(s, k)
      BY <1>2, TransactionsOfLonger
    <3> QED
      BY <1>6, <2>1, <3>1, <3>2
<1>10. Tracked(p, x, y, h, u)
  BY <1>6, <1>7, <1>8, <1>9 DEF Tracked
<1> QED
  BY <1>1, <1>2, <1>3, <1>10

(* The first message of the wire is the first broadcast that did not       *)
(* arrive, the one behind the first k.                                     *)
FirstPending(p, s, w, k) ==
    /\ k = Len(s) - Len(w) /\ k + 1 \in 1..Len(s)
    /\ Len(s) - Len(Tail(w)) = k + 1 /\ Len(Tail(w)) <= Len(s)
    /\ Head(w) = MessageOf(p[1], s[k + 1])
    /\ \A j \in 1..Len(Tail(w)) :
          Tail(w)[j] = MessageOf(p[1], s[Len(s) - Len(Tail(w)) + j])

LEMMA TrackedHead ==
    ASSUME NEW p, NEW u, NEW s \in Seq(Broadcasts), NEW w \in Seq(Messages),
           NEW h, Tracked(p, s, w, h, u), w # << >>
    PROVE  \E k \in 0..Len(s) : FirstPending(p, s, w, k)
<1>1. /\ Len(s) \in Nat /\ Len(w) \in Nat \ {0} /\ Len(w) <= Len(s)
      /\ \A j \in 1..Len(w) : w[j] = MessageOf(p[1], s[Len(s) - Len(w) + j])
  BY LenProperties, EmptySeq DEF Tracked
<1>2. PICK k \in 0..Len(s) : k = Len(s) - Len(w)
  <2>1. Len(s) - Len(w) \in 0..Len(s)
    BY <1>1
  <2> QED
    BY <2>1
<1>3. PICK v \in Seq(Messages) : v = Tail(w)
  BY HeadTailProperties
<1>4. Len(v) = Len(w) - 1 /\ \A j \in 1..Len(v) : v[j] = w[j + 1]
  BY <1>3, HeadTailProperties
<1>5. k + 1 \in 1..Len(s) /\ Len(s) - Len(v) = k + 1 /\ Len(v) <= Len(s)
  BY <1>1, <1>2, <1>4
<1>6. Head(w) = MessageOf(p[1], s[k + 1])
  <2>1. 1 \in 1..Len(w)
    BY <1>1
  <2>2. Head(w) = w[1]
    OBVIOUS
  <2> QED
    BY <1>1, <1>2, <2>1, <2>2
<1>7. ASSUME NEW j \in 1..Len(v) PROVE v[j] = MessageOf(p[1], s[Len(s) - Len(v) + j])
  <2>1. j + 1 \in 1..Len(w) /\ Len(s) - Len(v) + j = Len(s) - Len(w) + (j + 1)
    BY <1>1, <1>4
  <2> QED
    BY <1>1, <1>4, <2>1
<1> QED
  BY <1>2, <1>3, <1>5, <1>6, <1>7 DEF FirstPending

(* A message that was refused held no transaction; one that was handed     *)
(* over adds its transaction, if it holds one; and of a receiver that does *)
(* not live nothing more is said.                                          *)
LEMMA TrackedReceived ==
    ASSUME NEW p, NEW u, NEW s \in Seq(Broadcasts), NEW w \in Seq(Messages),
           NEW h \in Seq(Handovers), Tracked(p, s, w, h, u), p[2] \in u, w # << >>
    PROVE  /\ Deserialized(Head(w)) = Refused => Tracked(p, s, Tail(w), h, u)
           /\ Deserialized(Head(w)) # Refused =>
                 Tracked(p, s, Tail(w), Append(h, HandedOf(Head(w))), u)
           /\ \A v : p[2] \notin v => Tracked(p, s, Tail(w), h, v)
<1>1. PICK k \in 0..Len(s) :
             /\ k = Len(s) - Len(w) /\ k + 1 \in 1..Len(s)
             /\ Len(s) - Len(Tail(w)) = k + 1 /\ Len(Tail(w)) <= Len(s)
             /\ Head(w) = MessageOf(p[1], s[k + 1])
             /\ \A j \in 1..Len(Tail(w)) :
                  Tail(w)[j] = MessageOf(p[1], s[Len(s) - Len(Tail(w)) + j])
  <2>1. PICK k \in 0..Len(s) : FirstPending(p, s, w, k)
    BY TrackedHead
  <2> QED
    BY <2>1 DEF FirstPending
<1>2. PICK e \in Broadcasts : e = s[k + 1]
  BY <1>1, ElementOfSeq
<1>3. PICK m \in Messages : m = Head(w)
  BY HeadTailProperties
<1>4. m = MessageOf(p[1], e)
  BY <1>1, <1>2, <1>3
<1>5. /\ Begins(TransactionsIn(h), TransactionsIn(s))
      /\ TransactionsIn(h) = TransactionsUpTo(s, k)
  BY <1>1 DEF Tracked
<1>6. TransactionsUpTo(s, k + 1) = IF IsTransaction(e) THEN Append(TransactionsUpTo(s, k), e)
                                   ELSE TransactionsUpTo(s, k)
  <2>1. (k + 1) - 1 = k
    OBVIOUS
  <2> QED
    BY <1>1, <1>2, <2>1, TransactionsUnfold
<1>7. ASSUME Deserialized(m) = Refused PROVE Tracked(p, s, Tail(w), h, u)
  <2>1. ~IsTransaction(e)
    BY <1>4, <1>7, TransactionMessage
  <2> QED
    BY <1>1, <1>5, <1>6, <2>1 DEF Tracked
<1>8. ASSUME Deserialized(m) # Refused PROVE Tracked(p, s, Tail(w), Append(h, HandedOf(m)), u)
  <2>1. PICK f \in Handovers : f = HandedOf(m)
    BY DEF Handovers
  <2>2. IsTransaction(f) <=> IsTransaction(e)
    BY <1>4, <2>1 DEF HandedOf, MessageOf, IsTransaction
  <2>3. IsTransaction(e) => f = e
    BY <1>4, <2>1, TransactionMessage
  <2>4. PICK x \in Seq(Handovers) : x = Append(h, f)
    BY AppendProperties
  <2>5. Len(h) \in Nat /\ Len(x) = Len(h) + 1 /\ x[Len(x)] = f
    BY <2>4, AppendProperties, LenProperties
  <2>6. TransactionsUpTo(x, Len(h)) = TransactionsIn(h)
    BY <2>4, <2>5, TransactionsOfLonger, TransactionsInIs
  <2>7. TransactionsIn(x) = IF IsTransaction(f) THEN Append(TransactionsIn(h), f)
                            ELSE TransactionsIn(h)
    <3>1. Len(x) \in 1..Len(x) /\ Len(x) - 1 = Len(h)
      BY <2>5
    <3> QED
      BY <2>5, <2>6, <3>1, TransactionsUnfold, TransactionsInIs
  <2>8. TransactionsIn(x) = TransactionsUpTo(s, k + 1)
    BY <1>5, <1>6, <2>2, <2>3, <2>7
  <2>9. Begins(TransactionsIn(x), TransactionsIn(s))
    <3>1. k + 1 \in 0..Len(s)
      BY <1>1, LenProperties
    <3> QED
      BY <2>8, <3>1, TransactionsOfPart, TransactionsInIs
  <2>10. Tracked(p, s, Tail(w), x, u)
    BY <1>1, <2>8, <2>9 DEF Tracked
  <2> QED
    BY <2>1, <2>4, <2>10
<1>9. ASSUME NEW v, p[2] \notin v PROVE Tracked(p, s, Tail(w), h, v)
  BY <1>1, <1>5, <1>9 DEF Tracked
<1> QED
  BY <1>3, <1>7, <1>8, <1>9

(* What is said of living receivers holds when fewer live.                 *)
LEMMA TrackedFewer ==
    ASSUME NEW p, NEW u, NEW v, v \subseteq u, NEW s, NEW w, NEW h, Tracked(p, s, w, h, u)
    PROVE  Tracked(p, s, w, h, v)
  BY DEF Tracked

MessageInv ==
    /\ sent \in [Nodes -> Seq(Broadcasts)]
    /\ wire \in [Pairs -> Seq(Messages)]
    /\ handed \in [Pairs -> Seq(Handovers)]
    /\ \A p \in Pairs : Tracked(p, sent[p[1]], wire[p], handed[p], up)

LEMMA MessageInvInit == Init => MessageInv
<1> SUFFICES ASSUME Init PROVE MessageInv
  OBVIOUS
<1>1. \A S : << >> \in Seq(S) /\ Len(<< >>) = 0
  BY EmptySeq
<1>2. /\ sent = [n \in Nodes |-> << >>] /\ wire = [p \in Pairs |-> << >>]
      /\ handed = [p \in Pairs |-> << >>]
  BY DEF Init
<1>3. ASSUME NEW p \in Pairs PROVE Tracked(p, << >>, << >>, << >>, up)
  <2>1. TransactionsIn(<< >>) = << >> /\ TransactionsUpTo(<< >>, 0) = << >>
    BY <1>1, TransactionsUnfold, TransactionsInIs
  <2> QED
    BY <1>1, <2>1 DEF Tracked, Begins
<1>4. \A p \in Pairs : p[1] \in Nodes /\ p[2] \in Nodes
  BY DEF Pairs
<1> QED
  BY <1>1, <1>2, <1>3, <1>4 DEF MessageInv

(* A broadcast, whatever it is of. *)
LEMMA BroadcastTracked ==
    ASSUME MessageInv, NEW n \in Nodes, NEW e \in Broadcasts, NEW type, NEW payload,
           MessageOf(n, e) = [type |-> type, payload |-> payload],
           Broadcast(n, type, payload, e), up' = up, handed' = handed
    PROVE  MessageInv'
<1>1. /\ wire' = [p \in Pairs |-> IF p[1] = n THEN Append(wire[p], MessageOf(n, e)) ELSE wire[p]]
      /\ sent' = [sent EXCEPT ![n] = Append(@, e)]
  BY DEF Broadcast
<1>2. /\ sent \in [Nodes -> Seq(Broadcasts)] /\ wire \in [Pairs -> Seq(Messages)]
      /\ handed \in [Pairs -> Seq(Handovers)]
      /\ \A p \in Pairs : p[1] \in Nodes /\ p[2] \in Nodes
  BY DEF MessageInv, Pairs
<1>3. MessageOf(n, e) \in Messages
  BY DEF Messages
<1>4. sent' \in [Nodes -> Seq(Broadcasts)]
  BY <1>1, <1>2, AppendProperties
<1>5. wire' \in [Pairs -> Seq(Messages)]
  <2>1. \A p \in Pairs : Append(wire[p], MessageOf(n, e)) \in Seq(Messages)
    BY <1>2, <1>3, AppendProperties
  <2> QED
    BY <1>1, <1>2, <2>1
<1>6. ASSUME NEW p \in Pairs PROVE Tracked(p, sent'[p[1]], wire'[p], handed[p], up)
  <2>1. Tracked(p, sent[p[1]], wire[p], handed[p], up)
    BY DEF MessageInv
  <2>2. CASE p[1] = n
    <3>1. sent'[p[1]] = Append(sent[p[1]], e) /\ wire'[p] = Append(wire[p], MessageOf(p[1], e))
      BY <1>1, <1>2, <2>2
    <3>2. /\ sent[p[1]] \in Seq(Broadcasts) /\ wire[p] \in Seq(Messages)
          /\ handed[p] \in Seq(Handovers) /\ MessageOf(p[1], e) \in Messages
      BY <1>2, <1>3, <2>2
    <3> QED
      BY <2>1, <3>1, <3>2, TrackedSent
  <2>3. CASE p[1] # n
    <3>1. sent'[p[1]] = sent[p[1]] /\ wire'[p] = wire[p]
      BY <1>1, <1>2, <2>3
    <3> QED
      BY <2>1, <3>1
  <2> QED
    BY <2>2, <2>3
<1> QED
  BY <1>2, <1>4, <1>5, <1>6 DEF MessageInv

(* Where a message is taken from the wire, the other pairs stay as they    *)
(* are, or have one living node less.                                      *)
LEMMA ReceivedTracked ==
    ASSUME MessageInv, NEW p \in Pairs, wire[p] # << >>, NEW w, w = Tail(wire[p]),
           wire' = [wire EXCEPT ![p] = w], sent' = sent,
           NEW h \in Seq(Handovers), handed' = [handed EXCEPT ![p] = h], up' \subseteq up,
           Tracked(p, sent[p[1]], w, h, up')
    PROVE  MessageInv'
<1>1. /\ sent \in [Nodes -> Seq(Broadcasts)] /\ wire \in [Pairs -> Seq(Messages)]
      /\ handed \in [Pairs -> Seq(Handovers)]
  BY DEF MessageInv
<1>2. w \in Seq(Messages)
  BY <1>1, HeadTailProperties
<1>3. wire' \in [Pairs -> Seq(Messages)] /\ handed' \in [Pairs -> Seq(Handovers)]
  BY <1>1, <1>2
<1>4. ASSUME NEW q \in Pairs PROVE Tracked(q, sent[q[1]], wire'[q], handed'[q], up')
  <2>1. CASE q = p
    BY <1>1, <2>1
  <2>2. CASE q # p
    <3>1. wire'[q] = wire[q] /\ handed'[q] = handed[q]
      BY <1>1, <2>2
    <3>2. Tracked(q, sent[q[1]], wire[q], handed[q], up)
      BY DEF MessageInv
    <3> QED
      BY <3>1, <3>2, TrackedFewer
  <2> QED
    BY <2>1, <2>2
<1> QED
  BY <1>1, <1>3, <1>4 DEF MessageInv

LEMMA MessageInvNext == MessageInv /\ [Next]_vars => MessageInv'
<1> SUFFICES ASSUME MessageInv, [Next]_vars PROVE MessageInv'
  OBVIOUS
<1>1. /\ sent \in [Nodes -> Seq(Broadcasts)] /\ wire \in [Pairs -> Seq(Messages)]
      /\ handed \in [Pairs -> Seq(Handovers)]
      /\ \A p \in Pairs : Tracked(p, sent[p[1]], wire[p], handed[p], up)
  BY DEF MessageInv
<1>2. ASSUME NEW n \in Nodes, NEW b \in TimeBlocks, BroadcastTimeBlock(n, b) PROVE MessageInv'
  <2>1. PICK e \in Broadcasts : e = [type |-> 1, object |-> b]
    BY DEF Broadcasts
  <2>2. MessageOf(n, e) = [type |-> 1, payload |-> BlockPayload(n, SerializeTimeBlock(b))]
    BY <2>1 DEF MessageOf
  <2>3. /\ Broadcast(n, 1, BlockPayload(n, SerializeTimeBlock(b)), e)
        /\ up' = up /\ handed' = handed
    BY <1>2, <2>1 DEF BroadcastTimeBlock
  <2> QED
    BY <2>2, <2>3, BroadcastTracked
<1>3. ASSUME NEW n \in Nodes, NEW t \in Transactions, BroadcastTransaction(n, t)
      PROVE  MessageInv'
  <2>1. PICK e \in Broadcasts : e = [type |-> 3, object |-> t]
    BY DEF Broadcasts
  <2>2. MessageOf(n, e) = [type |-> 3, payload |-> SerializeTransaction(t)]
    BY <2>1 DEF MessageOf
  <2>3. Broadcast(n, 3, SerializeTransaction(t), e) /\ up' = up /\ handed' = handed
    BY <1>3, <2>1 DEF BroadcastTransaction
  <2> QED
    BY <2>2, <2>3, BroadcastTracked
<1>4. ASSUME NEW n \in Nodes, NEW b \in ValueBlocks, BroadcastValueBlock(n, b)
      PROVE  MessageInv'
  <2>1. PICK e \in Broadcasts : e = [type |-> 2, object |-> b]
    BY DEF Broadcasts
  <2>2. MessageOf(n, e) = [type |-> 2, payload |-> BlockPayload(n, SerializeValueBlock(b))]
    BY <2>1 DEF MessageOf
  <2>3. /\ Broadcast(n, 2, BlockPayload(n, SerializeValueBlock(b)), e)
        /\ up' = up /\ handed' = handed
    BY <1>4, <2>1 DEF BroadcastValueBlock
  <2> QED
    BY <2>2, <2>3, BroadcastTracked
<1>5. ASSUME NEW n \in Nodes, NoValueBlock(n) PROVE MessageInv'
  BY <1>1, <1>5 DEF NoValueBlock, MessageInv
<1>6. ASSUME NEW n \in Nodes, DrawWithoutTimeChain(n) PROVE MessageInv'
  <2>1. /\ up' \subseteq up /\ sent' = sent /\ wire' = wire /\ handed' = handed
    BY <1>6 DEF DrawWithoutTimeChain
  <2>2. \A p \in Pairs : Tracked(p, sent[p[1]], wire[p], handed[p], up')
    BY <1>1, <2>1, TrackedFewer
  <2> QED
    BY <1>1, <2>1, <2>2 DEF MessageInv
<1>7. ASSUME NEW p \in Pairs, Received(p)
      PROVE  /\ wire[p] # << >> /\ p[2] \in up
             /\ wire' = [wire EXCEPT ![p] = Tail(wire[p])] /\ sent' = sent
             /\ sent[p[1]] \in Seq(Broadcasts) /\ wire[p] \in Seq(Messages)
             /\ handed[p] \in Seq(Handovers)
             /\ Tracked(p, sent[p[1]], wire[p], handed[p], up)
  <2>1. p[1] \in Nodes
    BY DEF Pairs
  <2> QED
    BY <1>1, <1>7, <2>1 DEF Received
<1>8. ASSUME NEW p \in Pairs, Refuse(p) PROVE MessageInv'
  <2>1. Received(p) /\ Deserialized(Head(wire[p])) = Refused /\ up' = up /\ handed' = handed
    BY <1>8 DEF Refuse
  <2>2. Tracked(p, sent[p[1]], Tail(wire[p]), handed[p], up)
    BY <1>7, <2>1, TrackedReceived
  <2>3. handed' = [handed EXCEPT ![p] = handed[p]]
    BY <1>1, <2>1
  <2> QED
    BY <1>7, <2>1, <2>2, <2>3, ReceivedTracked
<1>9. ASSUME NEW p \in Pairs, Hand(p) PROVE MessageInv'
  <2>1. PICK f : f = HandedOf(Head(wire[p]))
    OBVIOUS
  <2>2. /\ Received(p) /\ Deserialized(Head(wire[p])) # Refused /\ up' = up
        /\ handed' = [handed EXCEPT ![p] = Append(handed[p], f)]
    BY <1>9, <2>1 DEF Hand, HandedOf
  <2>3. f \in Handovers
    BY <1>7, <2>1, <2>2, HeadTailProperties DEF Handovers
  <2>4. Append(handed[p], f) \in Seq(Handovers)
    BY <1>7, <2>2, <2>3, AppendProperties
  <2>5. Tracked(p, sent[p[1]], Tail(wire[p]), Append(handed[p], f), up)
    BY <1>7, <2>1, <2>2, TrackedReceived
  <2> QED
    BY <1>7, <2>2, <2>4, <2>5, ReceivedTracked
<1>10. ASSUME NEW p \in Pairs, HandToNobody(p) PROVE MessageInv'
  <2>1. /\ Received(p) /\ handed' = handed /\ up' \subseteq up /\ p[2] \notin up'
    BY <1>10 DEF HandToNobody
  <2>2. Tracked(p, sent[p[1]], Tail(wire[p]), handed[p], up')
    BY <1>7, <2>1, TrackedReceived
  <2>3. handed' = [handed EXCEPT ![p] = handed[p]]
    BY <1>1, <2>1
  <2> QED
    BY <1>7, <2>1, <2>2, <2>3, ReceivedTracked
<1>11. CASE UNCHANGED vars
  BY <1>1, <1>11 DEF vars, MessageInv
<1> QED
  BY <1>2, <1>3, <1>4, <1>5, <1>6, <1>8, <1>9, <1>10, <1>11 DEF Next

(* add_transaction of a receiver is called with the transactions of the    *)
(* sender, field by field, each once and in order, among any blocks; a     *)
(* receiver that lives has got all of them when the wire is empty (the     *)
(* loops, process_complete_message and the three handlers of Node).        *)
THEOREM TransactionsArriveInOrder == Spec => []TransactionsArrive
<1>1. ASSUME MessageInv, NEW p \in Pairs
      PROVE  /\ IsPrefix(TransactionsIn(handed[p]), TransactionsIn(sent[p[1]]))
             /\ (p[2] \in up /\ wire[p] = << >>) =>
                   TransactionsIn(handed[p]) = TransactionsIn(sent[p[1]])
  <2>1. /\ sent[p[1]] \in Seq(Broadcasts) /\ handed[p] \in Seq(Handovers)
        /\ Tracked(p, sent[p[1]], wire[p], handed[p], up)
    BY <1>1 DEF MessageInv, Pairs
  <2>2. PICK s \in Seq(Broadcasts) : s = sent[p[1]]
    BY <2>1
  <2>3. PICK h \in Seq(Handovers) : h = handed[p]
    BY <2>1
  <2>4. Len(s) \in Nat /\ Len(h) \in Nat
    BY LenProperties
  <2>5. TransactionsIn(h) \in Seq(Handovers) /\ TransactionsIn(s) \in Seq(Broadcasts)
    BY <2>4, TransactionsUnfold, TransactionsInIs
  <2>6. Begins(TransactionsIn(h), TransactionsIn(s))
    BY <2>1, <2>2, <2>3 DEF Tracked
  <2>7. IsPrefix(TransactionsIn(h), TransactionsIn(s))
    BY <2>5, <2>6, BeginsIsPrefix
  <2>8. ASSUME p[2] \in up, wire[p] = << >>
        PROVE  TransactionsIn(h) = TransactionsIn(s)
    <3>1. Len(s) - Len(wire[p]) = Len(s)
      BY <2>4, <2>8, EmptySeq
    <3>2. TransactionsIn(h) = TransactionsUpTo(s, Len(s) - Len(wire[p]))
      BY <2>1, <2>2, <2>3, <2>8 DEF Tracked
    <3> QED
      BY <3>1, <3>2, TransactionsInIs
  <2> QED
    BY <2>2, <2>3, <2>7, <2>8
<1>2. MessageInv => TransactionsArrive
  BY <1>1 DEF TransactionsArrive
<1> QED
  BY <1>2, MessageInvInit, MessageInvNext, PTL DEF Spec

(* A node with both chains has a consensus for every message and a time    *)
(* for every draw, whatever the other nodes are and send.                  *)
THEOREM DualNodesNeverEnd == Spec => []DualNodesSurvive
<1>1. Init => DualNodesSurvive
  BY DEF Init, DualNodesSurvive
<1>2. DualNodesSurvive /\ [Next]_vars => DualNodesSurvive'
  <2> SUFFICES ASSUME DualNodesSurvive, [Next]_vars, NEW d \in Nodes, Role[d] = "dual"
               PROVE  d \in up'
    BY DEF DualNodesSurvive
  <2>1. d \in up /\ HasTimeChain(d) /\ HasValueChain(d)
    BY DEF DualNodesSurvive, HasTimeChain, HasValueChain
  <2>2. ASSUME NEW n \in Nodes, DrawWithoutTimeChain(n) PROVE d \in up'
    BY <2>1, <2>2 DEF DrawWithoutTimeChain
  <2>3. ASSUME NEW p \in Pairs, HandToNobody(p) PROVE d \in up'
    BY <2>1, <2>3 DEF HandToNobody, HasConsensus
  <2>4. CASE up' = up
    BY <2>1, <2>4
  <2> QED
    BY <2>2, <2>3, <2>4
    DEF Next, vars, BroadcastTimeBlock, BroadcastTransaction, NoValueBlock,
        BroadcastValueBlock, Refuse, Hand
<1> QED
  BY <1>1, <1>2, PTL DEF Spec
=============================================================================

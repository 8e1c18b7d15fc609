---------------------------- MODULE BlockFormats ----------------------------
(***************************************************************************)
(* How transactions and blocks become bytes and are made of bytes again:   *)
(* serialize and deserialize of Transaction, TimeBlock and ValueBlock      *)
(* (src/src/value_chain, src/src/time_chain).                              *)
(*                                                                         *)
(* A content is a sequence of words of eight bytes, the size of the        *)
(* smallest field; hashes, keys and signatures are sequences of words.     *)
(* Sizes, counts and offsets are small numbers here, far from 64 bits.     *)
(***************************************************************************)
EXTENDS Naturals, Sequences, SequencesExt

CONSTANTS
    HashSize,       \* words of a hash (HASH_SIZE)
    KeySize,        \* words of a public key (PUBLIC_KEY_SIZE)
    SignatureSize,  \* words of a signature (SIGNATURE_SIZE)
    TimeBlocks,     \* the time blocks of an instance
    ValueBlocks,    \* its value blocks
    Refused         \* deserialize answers false

ASSUME FieldAssumption == {HashSize, KeySize, SignatureSize} \subseteq Nat \ {0}

(* n words of the content d that follow its first words. *)
Field(d, offset, n) == SubSeq(d, offset + 1, offset + n)

(* Fields of n words, and the objects that have the fields of the classes. *)
Fields(n) == [1..n -> Nat]

AnyTransaction ==
    [sender: Fields(KeySize), recipient: Fields(KeySize), amount: Nat, data: Seq(Nat),
     signature: Fields(SignatureSize), hash: Fields(HashSize)]

AnyTimeBlock ==
    [prev: Fields(HashSize), time: Nat, key: Fields(KeySize),
     signature: Fields(SignatureSize), hash: Fields(HashSize)]

AnyValueBlock ==
    [prev: Fields(HashSize), ref: Fields(HashSize), time: Nat, txs: Seq(AnyTransaction),
     key: Fields(KeySize), signature: Fields(SignatureSize), hash: Fields(HashSize)]

ASSUME BlockAssumption == TimeBlocks \subseteq AnyTimeBlock /\ ValueBlocks \subseteq AnyValueBlock
ASSUME RefusedAssumption ==
    Refused \notin AnyTransaction \cup [offset: Nat, txs: Seq(AnyTransaction)]

-----------------------------------------------------------------------------
(* Transaction. *)

SerializeTransaction(t) ==
    t.sender \o t.recipient \o <<t.amount, Len(t.data)>> \o t.data \o t.signature \o t.hash

TransactionHead == 2 * KeySize + 2

(* What a transaction without data needs, as a transaction has it that     *)
(* Node::generate_and_broadcast_transaction makes.                         *)
MinTransactionSize == TransactionHead + SignatureSize + HashSize

TransactionFields(d, size) ==
    [sender    |-> Field(d, 0, KeySize),
     recipient |-> Field(d, KeySize, KeySize),
     amount    |-> d[TransactionHead - 1],
     data      |-> Field(d, TransactionHead, size),
     signature |-> Field(d, TransactionHead + size, SignatureSize),
     hash      |-> Field(d, TransactionHead + size + SignatureSize, HashSize)]

(* Every field has to fit, and all of the content has to be used. *)
DeserializeTransaction(d) ==
    IF TransactionHead <= Len(d) /\ Len(d) = MinTransactionSize + d[TransactionHead]
    THEN TransactionFields(d, d[TransactionHead])
    ELSE Refused

-----------------------------------------------------------------------------
(* TimeBlock: its size is fixed. *)

(* A slip the checks must notice: the signature comes before the key. *)
SignatureFirst(b) == b.prev \o <<b.time>> \o b.signature \o b.key \o b.hash

SerializeTimeBlock(b) == b.prev \o <<b.time>> \o b.key \o b.signature \o b.hash

TimeBlockSize == HashSize + 1 + KeySize + SignatureSize + HashSize

TimeBlockSizeMatches(d) == Len(d) = TimeBlockSize

DeserializeTimeBlock(d) ==
    LET rest == HashSize + 1 IN
    IF TimeBlockSizeMatches(d)
    THEN [prev      |-> Field(d, 0, HashSize),
          time      |-> d[HashSize + 1],
          key       |-> Field(d, rest, KeySize),
          signature |-> Field(d, rest + KeySize, SignatureSize),
          hash      |-> Field(d, rest + KeySize + SignatureSize, HashSize)]
    ELSE Refused

-----------------------------------------------------------------------------
(* ValueBlock: each transaction is preceded by its size. *)

SerializeTransactions(ts) ==
    FlattenSeq([i \in DOMAIN ts |->
        LET d == SerializeTransaction(ts[i]) IN <<Len(d)>> \o d])

SerializeValueBlock(b) ==
    b.prev \o b.ref \o <<b.time, Len(b.txs)>> \o SerializeTransactions(b.txs)
        \o b.key \o b.signature \o b.hash

ValueBlockHead == 2 * HashSize + 2

(* One round of the loop over the transactions, after those in r. *)
ReadTransaction(d, r) ==
    LET start == r.offset + 1
        t == IF start <= Len(d) /\ start + d[start] <= Len(d)
             THEN DeserializeTransaction(Field(d, start, d[start]))
             ELSE Refused
    IN IF t = Refused
       THEN Refused
       ELSE [offset |-> start + d[start], txs |-> Append(r.txs, t)]

(* The loop over num_transactions. *)
ReadTransactions(d, num) ==
    LET read[i \in 0..num] ==
            IF i = 0 THEN [offset |-> ValueBlockHead, txs |-> <<>>]
            ELSE IF read[i - 1] = Refused THEN Refused
            ELSE ReadTransaction(d, read[i - 1])
    IN read[num]

(* A slip the checks must notice: nothing may follow the block. *)
ValueTailExact(d, offset) == Len(d) = offset + KeySize + SignatureSize + HashSize

(* Words behind the hash are not looked at. *)
ValueTailFits(d, offset) == Len(d) >= offset + KeySize + SignatureSize + HashSize

DeserializeValueBlock(d) ==
    LET r == IF Len(d) >= ValueBlockHead THEN ReadTransactions(d, d[ValueBlockHead])
             ELSE Refused
    IN IF r = Refused THEN Refused
       ELSE IF ~ValueTailFits(d, r.offset) THEN Refused
       ELSE [prev      |-> Field(d, 0, HashSize),
             ref       |-> Field(d, HashSize, HashSize),
             time      |-> d[2 * HashSize + 1],
             txs       |-> r.txs,
             key       |-> Field(d, r.offset, KeySize),
             signature |-> Field(d, r.offset + KeySize, SignatureSize),
             hash      |-> Field(d, r.offset + KeySize + SignatureSize, HashSize)]
=============================================================================

------------------------------ MODULE Signing -------------------------------
(***************************************************************************)
(* What is signed and hashed (src/src/cryptography; get_data_to_sign,      *)
(* compute_hash and verify of the three classes), and how the program      *)
(* makes the objects it signs: transactions, coinbase transactions, the    *)
(* blocks of both chains and the two genesis blocks.                       *)
(*                                                                         *)
(* The library's functions on words are parameters.  Nothing marks what    *)
(* kind of object a signed message was made from: the three forms of       *)
(* get_data_to_sign differ in their lengths and counts only.               *)
(***************************************************************************)
EXTENDS BlockFormats

CONSTANTS
    Sha256(_),         \* of words: HashSize words
    PrivateKeys,       \* private keys that were ever drawn
    PublicKeyOf(_),    \* derive_public_key: KeySize words
    SignDigest(_, _),  \* secp256k1_schnorrsig_sign: deterministic, because no
                       \* randomness is passed to it
    ReferenceText,     \* words of VALUE_CHAIN_REFERENCE
    GenesisTime        \* GENESIS_TIME

ASSUME PublicKeyAssumption ==
    \A k \in PrivateKeys :
        /\ PublicKeyOf(k) # [i \in 1..KeySize |-> 0]
        /\ \A l \in PrivateKeys : PublicKeyOf(k) = PublicKeyOf(l) => k = l

Zeros(n) == [i \in 1..n |-> 0]

-----------------------------------------------------------------------------
(* cryptography::sign_message and verify_signature. *)

SignMessage(message, k) == SignDigest(Sha256(message), k)

VerifySignature(message, signature, key) ==
    \E k \in PrivateKeys : PublicKeyOf(k) = key /\ signature = SignMessage(message, k)

(* A slip the checks must notice: the recipient is not signed. *)
DataWithoutRecipient(t) == t.sender \o <<t.amount, Len(t.data)>> \o t.data

(* get_data_to_sign of the three classes. *)
TransactionData(t) == t.sender \o t.recipient \o <<t.amount, Len(t.data)>> \o t.data

TimeBlockData(b) == b.prev \o <<b.time>> \o b.key

ValueBlockData(b) ==
    b.prev \o b.ref \o <<b.time, Len(b.txs)>> \o SerializeTransactions(b.txs) \o b.key

(* compute_hash, of an object whose data to sign is given. *)
HashOf(data, signature) == Sha256(data \o signature)

(* A slip the checks must notice: the hash is that of the unsigned object. *)
SignatureOnly(x, data, k) == [x EXCEPT !.signature = SignMessage(data, k)]

(* sign_message and set_signature, which computes the hash again. *)
SetSignature(x, data, k) ==
    [x EXCEPT !.signature = SignMessage(data, k), !.hash = HashOf(data, SignMessage(data, k))]

-----------------------------------------------------------------------------
(* The constructors leave a zero signature, and the hash that goes with it. *)

Transaction(sender, recipient, amount, data) ==
    LET t == [sender |-> sender, recipient |-> recipient, amount |-> amount, data |-> data,
              signature |-> Zeros(SignatureSize), hash |-> Zeros(HashSize)]
    IN [t EXCEPT !.hash = HashOf(TransactionData(t), t.signature)]

TimeBlock(prev, time, key) ==
    LET b == [prev |-> prev, time |-> time, key |-> key,
              signature |-> Zeros(SignatureSize), hash |-> Zeros(HashSize)]
    IN [b EXCEPT !.hash = HashOf(TimeBlockData(b), b.signature)]

ValueBlock(prev, ref, time, txs, key) ==
    LET b == [prev |-> prev, ref |-> ref, time |-> time, txs |-> txs, key |-> key,
              signature |-> Zeros(SignatureSize), hash |-> Zeros(HashSize)]
    IN [b EXCEPT !.hash = HashOf(ValueBlockData(b), b.signature)]

SignTransaction(t, k) == SetSignature(t, TransactionData(t), k)
SignTimeBlock(b, k) == SetSignature(b, TimeBlockData(b), k)
SignValueBlock(b, k) == SetSignature(b, ValueBlockData(b), k)

-----------------------------------------------------------------------------
(* What the program makes, with the private key k of the process. *)

(* generate_and_broadcast_transaction *)
Generated(k, recipient) ==
    SignTransaction(Transaction(PublicKeyOf(k), recipient, 10, <<>>), k)

(* gather_transactions: nobody is the sender, and the maker signs. *)
Coinbase(k, data) ==
    SignTransaction(Transaction(Zeros(KeySize), PublicKeyOf(k), 50, data), k)

GatherTransactions(k, pool) == <<Coinbase(k, <<>>)>> \o pool

(* produce_block *)
ProducedTimeBlock(k, prev, time) == SignTimeBlock(TimeBlock(prev, time, PublicKeyOf(k)), k)

ProducedValueBlock(k, prev, ref, time, pool) ==
    SignValueBlock(ValueBlock(prev, ref, time, GatherTransactions(k, pool), PublicKeyOf(k)), k)

(* The generator of the genesis blocks. *)
TimeGenesis(k) == ProducedTimeBlock(k, Zeros(HashSize), GenesisTime)

ValueGenesis(k) ==
    LET txs == <<Coinbase(k, ReferenceText)>>
    IN SignValueBlock(ValueBlock(Zeros(HashSize), TimeGenesis(k).hash, GenesisTime, txs,
                                 PublicKeyOf(k)), k)

-----------------------------------------------------------------------------
(* What a receiver checks. *)

IsCoinbase(t) == t.sender = Zeros(KeySize)

VerifyTransaction(t) ==
    IsCoinbase(t) \/ VerifySignature(TransactionData(t), t.signature, t.sender)

VerifyTransactions(b) == \A i \in DOMAIN b.txs : VerifyTransaction(b.txs[i])

VerifyTimeBlock(b) == VerifySignature(TimeBlockData(b), b.signature, b.key)

VerifyValueBlock(b) ==
    VerifyTransactions(b) /\ VerifySignature(ValueBlockData(b), b.signature, b.key)
=============================================================================

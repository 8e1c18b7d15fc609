----------------------------- MODULE BlockFile ------------------------------
(***************************************************************************)
(* The content of one block file, word for word: what                      *)
(* write_block_to_file puts there, what a full disk or a crash leaves of   *)
(* it, what another process that had opened the same file writes over it,  *)
(* and what read_block_from_file makes of the result.                      *)
(*                                                                         *)
(* FileStorage says of a file only that it is whole, torn or holds the     *)
(* block that was written last; this module is why it may.                 *)
(***************************************************************************)
EXTENDS Signing

CONSTANT Unread  \* the file was not read since it was last changed

VARIABLES
    kind,     \* BlockType of the storage: "time" or "value"
    content,  \* the words of the file
    written,  \* history: the block that was written last
    cut,      \* history: its words did not all reach the disk
    answer    \* of the last read_block_from_file

fileVars == <<kind, content, written, cut, answer>>

Blocks == IF kind = "time" THEN TimeBlocks ELSE ValueBlocks

Serialize(b) == IF kind = "time" THEN SerializeTimeBlock(b) ELSE SerializeValueBlock(b)

Verifies(b) == IF kind = "time" THEN VerifyTimeBlock(b) ELSE VerifyValueBlock(b)

DataToSign(b) == IF kind = "time" THEN TimeBlockData(b) ELSE ValueBlockData(b)

Deserialize(d) ==
    IF kind = "time" THEN DeserializeTimeBlock(d) ELSE DeserializeValueBlock(d)

(* A file that was just opened for writing. *)
FileInit ==
    /\ kind \in {"time", "value"}
    /\ content = <<>>
    /\ written \in Blocks
    /\ cut = TRUE
    /\ answer = Unread

(* From the start of the file; a tail of a longer content remains, which   *)
(* only another process can have written since the file was opened.        *)
Write(b) ==
    /\ content' = Serialize(b) \o SubSeq(content, Len(Serialize(b)) + 1, Len(content))
    /\ written' = b
    /\ cut' = FALSE
    /\ answer' = Unread
    /\ UNCHANGED kind

(* Only the first n words of it reach the disk, in a file that was empty. *)
WriteCut(b, n) ==
    /\ content = <<>>
    /\ n < Len(Serialize(b))
    /\ content' = SubSeq(Serialize(b), 1, n)
    /\ written' = b
    /\ cut' = TRUE
    /\ answer' = Unread
    /\ UNCHANGED kind

(* The file is opened for writing again. *)
Open ==
    /\ content' = <<>>
    /\ cut' = TRUE
    /\ answer' = Unread
    /\ UNCHANGED <<kind, written>>

Read ==
    /\ answer' = Deserialize(content)
    /\ UNCHANGED <<kind, content, written, cut>>

FileNext ==
    \/ \E b \in Blocks : Write(b)
    \/ \E b \in Blocks : \E n \in 0..Len(Serialize(b)) : WriteCut(b, n)
    \/ Open
    \/ Read

FileSpec == FileInit /\ [][FileNext]_fileVars

-----------------------------------------------------------------------------
(* A reader of the file never gets a block that was not written, and of a  *)
(* content that was cut off, wherever that was, it gets none: a block from *)
(* the storage is always one somebody stored, field by field.              *)
ReadsLastWritten == answer \notin {Refused, Unread} => answer = written /\ ~cut

(* A content that was written in full is read back, also when two          *)
(* processes had the file open, wrote blocks of different lengths over     *)
(* each other, and the tail of the longer one is still there.              *)
FullContentIsRead == (answer # Unread /\ ~cut) => answer = written

(* A block that comes back from the storage is one handle_block would take *)
(* from a peer as far as signatures go, its transactions included, and its *)
(* hash, which names its file and which the next block will refer to, is   *)
(* the hash of what it says, signature and all.                            *)
ReadBlocksVerify ==
    answer \notin {Refused, Unread} =>
        Verifies(answer) /\ answer.hash = HashOf(DataToSign(answer), answer.signature)

(* A time block, and a value block with its transactions, each with what   *)
(* its signature is of.                                                    *)
SignedInTimeBlock(b) == {[object |-> b, data |-> TimeBlockData(b)]}

SignedInValueBlock(b) ==
    {[object |-> b, data |-> ValueBlockData(b)]}
        \cup {[object |-> t, data |-> TransactionData(t)] : t \in ToSet(b.txs)}

AllSigned ==
    UNION ({SignedInTimeBlock(b) : b \in TimeBlocks}
               \cup {SignedInValueBlock(b) : b \in ValueBlocks})

(* A signature stands for one object: a transaction or block that was read *)
(* has the data to sign of no other one, of its kind or of another, though *)
(* nothing in that data names the kind, transactions have data of any      *)
(* length, and value blocks any number of them (get_data_to_sign).         *)
SignatureNamesObject ==
    answer \notin {Refused, Unread} =>
        \A x \in AllSigned,
           y \in IF kind = "time" THEN SignedInTimeBlock(answer) ELSE SignedInValueBlock(answer) :
               x.data = y.data => x.object = y.object
=============================================================================

----------------------------- MODULE BlockStore -----------------------------
(***************************************************************************)
(* What StorageInterface<BlockType> (src/src/storage/storage_interface.hpp)*)
(* gives its callers when ONE process uses the data directory: every       *)
(* operation happens at one instant, because FileStorage holds             *)
(* storage_mutex_ from the first line of an operation to its last.         *)
(*                                                                         *)
(* FileStorage is shown to implement this module, and the consensus        *)
(* modules are built on it, so they inherit exactly the failures that      *)
(* FileStorage can produce and no others.                                  *)
(***************************************************************************)
CONSTANTS
    Blocks,   \* the blocks a caller may store, identified by their hash
    NoBlock   \* std::nullopt of get_latest_block

VARIABLES
    present,  \* hashes whose file exists: what block_exists answers
    whole,    \* hashes whose file can be read back: what get_block answers
    latest    \* what get_latest_block answers, NoBlock for std::nullopt

storeVars == <<present, whole, latest>>

StoreTypeOK ==
    /\ present \subseteq Blocks
    /\ whole \subseteq present
    /\ latest \in Blocks \cup {NoBlock}

StoreInit ==
    /\ present = {}
    /\ whole = {}
    /\ latest = NoBlock

(* store_block returned true and did what it says. *)
Put(b) ==
    /\ present' = present \cup {b}
    /\ whole' = whole \cup {b}
    /\ latest' = b

(* store_block returned true, but the bytes never reached the disk: the    *)
(* result of closing the stream is not looked at, and an unreadable file   *)
(* is then copied over the latest block.                                   *)
PutLost(b) ==
    /\ present' = present \cup {b}
    /\ whole' = whole \ {b}
    /\ latest' = NoBlock

(* store_block returned false, or the process died inside it.              *)
PutCut(b) ==
    \/ UNCHANGED storeVars
    \/ /\ present' = present \cup {b}
       /\ whole' \in {whole \ {b}, whole \cup {b}}
       /\ latest' \in {latest, NoBlock}

StoreNext == \E b \in Blocks : Put(b) \/ PutLost(b) \/ PutCut(b)

StoreSpec == StoreInit /\ [][StoreNext]_storeVars
=============================================================================

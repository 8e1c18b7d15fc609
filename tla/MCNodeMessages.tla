--------------------------- MODULE MCNodeMessages ---------------------------
(* Instances of NodeMessages for TLC: every field has words of its own. *)
EXTENDS NodeMessages

CONSTANTS n1, n2, n3

TwoNodes == {n1, n2}
ThreeNodes == {n1, n2, n3}

Dual == [n \in Nodes |-> "dual"]
TimeAndDual == [n \in Nodes |-> IF n = n1 THEN "time" ELSE "dual"]

AllRoles == [n \in Nodes |-> IF n = n1 THEN "time" ELSE IF n = n2 THEN "value" ELSE "dual"]

Words(from, n) == [i \in 1..n |-> from + i]
Zeros(n) == [i \in 1..n |-> 0]

Keys == [n \in Nodes |-> IF n = n1 THEN Words(60, KeySize) ELSE Words(70, KeySize)]

Tx(n) ==
    [sender |-> Words(10, KeySize), recipient |-> Words(n, KeySize), amount |-> 10,
     data |-> <<>>, signature |-> Words(20, SignatureSize), hash |-> Words(30, HashSize)]

TwoTransactions == {Tx(1), Tx(2)}

ATimeBlock ==
    {[prev |-> Words(3, HashSize), time |-> 7, key |-> Words(10, KeySize),
      signature |-> Words(20, SignatureSize), hash |-> Words(30, HashSize)]}

ValueBlock(ref) ==
    [prev |-> Words(3, HashSize), ref |-> ref, time |-> 7, txs |-> <<Tx(5), Tx(1)>>,
     key |-> Words(10, KeySize), signature |-> Words(20, SignatureSize),
     hash |-> Words(30, HashSize)]

(* One that refers to a time block, and one that was made while there was  *)
(* none to refer to (TimeChain::get_latest_block_hash).                    *)
TwoValueBlocks == {ValueBlock(Words(40, HashSize)), ValueBlock(Zeros(HashSize))}
AValueBlock == {ValueBlock(Words(40, HashSize))}
=============================================================================

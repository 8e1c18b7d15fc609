---------------------------- MODULE MCBlockFile ----------------------------
(* Instances of BlockFile for TLC: blocks as the program makes them, with  *)
(* a small hash function in place of SHA-256.                              *)
EXTENDS BlockFile

Mix(words, seed) ==
    LET h[i \in 0..Len(words)] ==
            IF i = 0 THEN seed ELSE (h[i - 1] * 7919 + words[i] + 1) % 30011
    IN h[Len(words)]

Fingerprint(words) == <<Mix(words, 1), Mix(words, 2), Len(words), 0>>

Key(k) == <<10 * k, 10 * k + 1, 10 * k + 2, 10 * k + 3>>

Schnorr(digest, k) == <<k, 5, 5, Mix(<<k>> \o digest, 3)>> \o digest

ThreeKeys == {1, 2, 3}
Reference == <<5, 0, 2, 1, 5>>

Time1 == ProducedTimeBlock(1, TimeGenesis(3).hash, 3)

(* The second follows the first; the third, made after a fallback to the   *)
(* zero hash, has the time that its predecessor has.                       *)
SomeTimeBlocks ==
    {TimeGenesis(3), Time1, ProducedTimeBlock(2, Time1.hash, 4),
     ProducedTimeBlock(2, Zeros(HashSize), 3)}

(* The recipient's key is drawn; one of these has words like counts.       *)
Tx(k, n) == Generated(k, <<n, n, 0, 2>>)

(* From the coinbase transaction alone, with data, to three transactions.  *)
SomeValueBlocks ==
    {ValueGenesis(3),
     ProducedValueBlock(1, ValueGenesis(3).hash, TimeGenesis(3).hash, GenesisTime, <<Tx(1, 1)>>),
     ProducedValueBlock(2, ValueGenesis(3).hash, Time1.hash, 3, <<Tx(2, 90), Tx(1, 1)>>),
     ProducedValueBlock(2, Zeros(HashSize), Zeros(HashSize), 0, <<Tx(2, 1)>>)}
=============================================================================

-------------------------- MODULE MCMessageFraming --------------------------
(* Instances of MessageFraming for TLC. *)
EXTENDS MessageFraming

CONSTANTS s1, s2

OneSession == {s1}
TwoSessions == {s1, s2}

(* Types alone and types with a payload, payload bytes that look like a    *)
(* header included, and a length of two digits.                            *)
ThreeMessages == {<<1>>, <<2, 0>>, <<0, 1, 2>>}

(* With a word of 9, the longest message whose needed size is a number of  *)
(* the word, and one whose needed size wraps to zero.                      *)
EdgeMessages == {<<0, 1>>, <<1, 0, 2, 0, 0, 1>>, <<2, 0, 1, 1, 0, 2, 0>>}

(* Lengths below Base, as the real ones are below 2^24: what a reversed    *)
(* header asks for is far more than was sent.                              *)
ShortMessages == {<<1>>, <<2, 0>>}
=============================================================================

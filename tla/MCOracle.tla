-------------------------------- MODULE MCOracle --------------------------------
(***************************************************************************)
(* Every three requests of up to three tokens and every four of up to two, *)
(* over two tokens: repeated and empty requests, requests that extend each *)
(* other, groups of one to four, prefixes shared across groups; and three  *)
(* groups whose prefixes differ in length.                                 *)
(***************************************************************************)
EXTENDS Oracle

Tokens == {1, 2}
UpTo(n) == UNION {[1..m -> Tokens] : m \in 0..n}

\* Three pairs of equal requests, one after the other.
Pairs == {[k \in 1..6 |-> [m \in 1..n[k % 3] |-> k % 3]] : n \in [0..2 -> 1..3]}

MCWorkloads == [1..3 -> UpTo(3)] \cup [1..4 -> UpTo(2)] \cup Pairs \cup {<<>>}

\* With 16 and 9 bytes per token, pools of 1 to 7 tokens.
MCHostBytes == {0, 9, 16, 27, 36, 64, 96}
=============================================================================

--------------------------- MODULE MCTokenRegistry ---------------------------
(* Instances of TokenRegistry for TLC. *)
EXTENDS TokenRegistry, TLC

CONSTANTS k1, k2, k3, i1

TwoClients == {k1, k2}
ThreeClients == {k1, k2, k3}
OneInstance == [c \in Clients |-> i1]
\* The first connection speaks the old generation.
Mixed == [c \in Clients |-> IF c = k1 THEN 1 ELSE 2]
TokenSymmetry == Permutations(Tokens)
=============================================================================

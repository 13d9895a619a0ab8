------------------------------ MODULE MCReader ------------------------------
(* Instance of Reader for TLC. *)
EXTENDS Reader

CONSTANTS t1, t2, t3

\* The paths a < ab < b.
PathPrefixes == [p \in 0 .. 2 |-> IF p = 2 THEN 3 ELSE 2]

\* One title is a prefix of the other.
TitlePrefixes == [p \in 0 .. 1 |-> 2]

\* Lengths that fit the budgets of the cache together, alone, and not at all.
CacheLengths == [i \in Clusters |-> i]
Symmetry == Permutations(Threads)
=============================================================================

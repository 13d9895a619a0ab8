----------------------------- MODULE MCZimSplit -----------------------------
(* Instance of ZimSplit for TLC. *)
EXTENDS ZimSplit, TLC

SplitterSymmetry == Permutations(Splitters)
=============================================================================

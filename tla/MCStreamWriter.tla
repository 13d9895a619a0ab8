--------------------------- MODULE MCStreamWriter ---------------------------
(* Instances of StreamWriter for TLC. *)
EXTENDS StreamWriter

OnePath == {"a"}
PathSymmetry == Permutations(Paths)
Html == {"text/html"}
HtmlAndText == {"text/html", MetaMime}

\* Bound: builds none of whose start_writing failed.
Started == ~startFailed
=============================================================================

----------------------------- MODULE MCZimDump -----------------------------
(* Instance of ZimDump for TLC. *)
EXTENDS ZimDump, TLC

\* In directory order; three nest, two are the same once sanitized, one is where
\* another would be exiled to.
Raw == << <<"..", "b">>, <<"_exceptions">>, <<"_exceptions", "a">>, <<"a">>, <<"a", "b">>,
          <<"a", "b", "c">>, <<"b">> >>

\* A fresh directory, and two left by earlier dumps.
Dirs == {{}, {<< <<"a">> >>}, {<< <<"a">> >>, << <<"a">>, <<"b">> >>}, {<< <<"b">> >>}}

WorkerSymmetry == Permutations(Workers)
=============================================================================

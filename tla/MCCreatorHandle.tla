--------------------------- MODULE MCCreatorHandle ---------------------------
(* Instance of CreatorHandle for TLC: one content path, a metadata name, and *)
(* the keys that finalize would generate.                                   *)
EXTENDS CreatorHandle

OnePath == {"a"}
Reserved == {Counter, Listing}
Title == {"M/Title"}
ThreeMimes == {"text/html", "text/css", MetaMime}
=============================================================================

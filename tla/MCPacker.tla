------------------------------ MODULE MCPacker ------------------------------
(* Instance of Packer for TLC. *)
EXTENDS Packer

\* Between them, every kind of entry, and an index that gets two documents.
Pairs == {<<"html", "other">>, <<"big", "tohtml">>, <<"toother", "html">>}

\* No directory yet, or one that a killed run has left.
Dirs == {{}, {0}}
=============================================================================

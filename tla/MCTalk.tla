------------------------------- MODULE MCTalk -------------------------------
(***************************************************************************)
(* Talk for TLC: a sequence of two unmapped names.                         *)
(***************************************************************************)
EXTENDS Talk

MCKeysyms == {"a", "b"}
MCKeys == <<"a", "b">>

\* Other clients empty a keycode, or give it a name of the sequence, also where
\* a scratch of the other name is.
MCForeignRows == {Empty, ScratchRow("a")}
=============================================================================

------------------------------- MODULE MCXdo -------------------------------
(***************************************************************************)
(* Xdo for TLC: two unmapped names on a keyboard of a few keycodes.        *)
(***************************************************************************)
EXTENDS Xdo

MCKeysyms == {"a", "b", "x"}
MCKeys == <<"a", "b">>

\* What other clients write: nothing, an unrelated key, a native "a", and an
\* unrelated key with "b" on its second level.
MCForeignRows ==
  {Empty, ScratchRow("x"), ScratchRow("a"), [base |-> "x", other |-> "b"]}
=============================================================================

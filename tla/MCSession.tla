----------------------------- MODULE MCSession -----------------------------
(***************************************************************************)
(* Session for TLC: a sequence of two unmapped names.                      *)
(***************************************************************************)
EXTENDS Session

MCKeysyms == {"a", "b", "x"}
MCKeys == <<"a", "b">>
MCForeignRows == {Empty, ScratchRow("x")}

\* Everything but the history variables of the processes, on which
\* neither a guard nor a property of Session depends.
SessionView ==
  <<server, local, alive, changed, mine, scratches, xpc, todo, out, result,
    call, held, bpc, kcs, i, failed, down, leftover, foreign>>
=============================================================================

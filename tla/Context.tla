------------------------------ MODULE Context ------------------------------
(***************************************************************************)
(* The cancellation scope of one run of ptt-fix: the context made by       *)
(* signal.NotifyContext in main, the errgroup context derived from it in   *)
(* run, and the child contexts of the listeners.                           *)
(*                                                                         *)
(* One variable stands for all of them.  Cancelling a context cancels its  *)
(* descendants before the cancelling call returns, and no code of the      *)
(* program tells a parent that is already done from a child that is not    *)
(* yet: every select on Done either waits or takes another ready case.     *)
(* The errgroup never outlives its context, so the context derived in      *)
(* listen is cancelled early only by listen's own return, which is part of *)
(* the Return operator of module Listener.                                 *)
(***************************************************************************)

CONSTANT
  \* @type: Set(Str);
  SignalCauses   \* what context.Cause may report after an interrupt

(***************************************************************************)
(* Errors, up to what the program tells apart: "canceled" is               *)
(* context.Canceled; "signal" is a cause of the signal context that is not *)
(* context.Canceled (newer Go releases report which signal arrived);       *)
(* "closed" is fs.ErrClosed; "device" any other device error; "noDevices"  *)
(* the error of ptt-fix.go:121; "handler" an error of handle; "nil" none.  *)
(***************************************************************************)
Errors == {"nil", "canceled", "signal", "closed", "device", "noDevices",
           "handler"}

ASSUME SignalCausesAssumption ==
  SignalCauses \subseteq {"canceled", "signal"} /\ SignalCauses # {}

VARIABLES
  ctx,    \* "live", or the cause the context was cancelled with
  egErr   \* first non-nil error a goroutine of the errgroup returned

ContextTypeOK ==
  /\ ctx \in {"live"} \cup (Errors \ {"nil"})
  /\ egErr \in Errors

ContextInit ==
  /\ ctx = "live"
  /\ egErr = "nil"

\* select on <-ctx.Done() is ready.
Canceled == ctx # "live"

\* A goroutine of the errgroup returns err (err # "nil"): the first such
\* error is kept and cancels the context, which keeps an earlier cause.
GroupReturn(err) ==
  /\ egErr' = IF egErr = "nil" THEN err ELSE egErr
  /\ ctx' = IF egErr = "nil" /\ ~Canceled THEN err ELSE ctx
=============================================================================

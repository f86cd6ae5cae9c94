------------------------------ MODULE Handler ------------------------------
(***************************************************************************)
(* The goroutine that injects (handle.go): it opens the X connection and   *)
(* the sender, then applies one event after another until an injection     *)
(* fails or the scope is cancelled.  The sender is a mouse button here:    *)
(* one Boolean on the X server.  Module KeyBinding has the keyboard.       *)
(***************************************************************************)
EXTENDS Context, InputDevice

VARIABLES
  hpc,      \* "open", "select", "apply" or "done"
  hev,      \* the event being applied, NoEvent outside "apply"
  conn,     \* the X connection is open
  pressed,  \* the X server sees the push-to-talk symbol pressed
  applied   \* history: the last transition of each device that was injected

handlerVars == <<hpc, hev, conn, pressed, applied>>

NoEvent == [dev |-> "none", type |-> "none"]
Event == [dev : Devices, type : Transitions]

HandlerTypeOK ==
  /\ hpc \in {"open", "select", "apply", "done"}
  /\ hev \in IF hpc = "apply" THEN Event ELSE {NoEvent}
  /\ conn \in BOOLEAN
  /\ pressed \in BOOLEAN
  /\ applied \in [Devices -> Transitions]

HandlerInit ==
  /\ hpc = "open"
  /\ hev = NoEvent
  /\ conn = FALSE
  /\ pressed = FALSE
  /\ applied = [d \in Devices |-> "up"]

\* Mutant of HandleReturns: no deferred do.Close.
HandleReturnsOpen(err) ==
  /\ hpc' = "done"
  /\ hev' = NoEvent
  /\ UNCHANGED conn
  /\ GroupReturn(err)

\* handle returns err; the deferred do.Close runs first.
HandleReturns(err) ==
  /\ hpc' = "done"
  /\ hev' = NoEvent
  /\ conn' = FALSE
  /\ GroupReturn(err)

\* xdo.Open and newSender succeed.
OpenOk ==
  /\ hpc = "open"
  /\ hpc' = "select"
  /\ conn' = TRUE
  /\ UNCHANGED <<hev, pressed, applied, ctx, egErr>>

\* Either fails; Open closes the connection it could not use itself.
OpenFails ==
  /\ hpc = "open"
  /\ HandleReturns("handler")
  /\ UNCHANGED <<pressed, applied>>

\* The receive of handle's select; the sender's half is in module PttFix.
Receive(d, type) ==
  /\ hpc = "select"
  /\ hpc' = "apply"
  /\ hev' = [dev |-> d, type |-> type]
  /\ UNCHANGED <<conn, pressed, applied>>

\* The select takes <-ctx.Done().
HandleCanceled ==
  /\ hpc = "select" /\ Canceled
  /\ HandleReturns(ctx)
  /\ UNCHANGED <<pressed, applied>>

\* Mutant of ApplyOk: a held symbol is not released.
ApplyOkHolds ==
  /\ hpc = "apply"
  /\ hpc' = "select"
  /\ hev' = NoEvent
  /\ pressed' = (pressed \/ hev.type = "down")
  /\ applied' = [applied EXCEPT ![hev.dev] = hev.type]
  /\ UNCHANGED <<conn, ctx, egErr>>

\* applyEvent, the injection accepted by the server.
ApplyOk ==
  /\ hpc = "apply"
  /\ hpc' = "select"
  /\ hev' = NoEvent
  /\ pressed' = (hev.type = "down")
  /\ applied' = [applied EXCEPT ![hev.dev] = hev.type]
  /\ UNCHANGED <<conn, ctx, egErr>>

\* applyEvent, the injection failed; whether the server saw it is unknown.
ApplyFails ==
  /\ hpc = "apply"
  /\ \/ pressed' = (hev.type = "down")
     \/ UNCHANGED pressed
  /\ HandleReturns("handler")
  /\ UNCHANGED applied

HandlerNext ==
  OpenOk \/ OpenFails \/ HandleCanceled \/ ApplyOk \/ ApplyFails
=============================================================================

-------------------------------- MODULE Talk --------------------------------
(***************************************************************************)
(* The keyboard sender over the X server: Xdo and KeyBinding composed as   *)
(* handle uses them (handle.go).  It opens the connection, binds the       *)
(* names, then calls Down and Up, which resolve the names request by       *)
(* request before they inject them, and closes the connection when a call  *)
(* has failed or the scope is cancelled.                                   *)
(***************************************************************************)
EXTENDS Xdo

VARIABLES
  call,      \* the caller of Keycodes: "bind" at first, "down", "up", "none"
  assigned,  \* history: the keycodes of the last resolution that was complete
  held, bpc, kcs, i, failed, down, before, repressed  \* see KeyBinding

B == INSTANCE KeyBinding WITH Names <- Len(Keys)

senderVars == <<held, bpc, kcs, i, failed, down, before, repressed>>
talkVars == <<xdoVars, call, assigned, senderVars>>

TalkInit ==
  /\ XdoInit
  /\ call = "bind"
  /\ B!BindingInit
  /\ assigned = [n \in DOMAIN Keys |-> MinKeycode]

----------------------------------------------------------------------------
Connect == (Open \/ OpenFails) /\ UNCHANGED <<call, assigned, senderVars>>

\* No call is in progress, and none has failed.
Ready == xpc = "idle" /\ bpc = "idle"

\* Mutant of Calls: Up resolves the names again.
CallsForUp(c) ==
  /\ Ready
  /\ \/ c = "bind" /\ call = "bind"
     \/ c \in {"down", "up"} /\ call = "none"

\* BindKeys, Down, and Up when nothing is held, call Keycodes.
Calls(c) ==
  /\ Ready
  /\ \/ c = "bind" /\ call = "bind"
     \/ c = "down" /\ call = "none"
     \/ c = "up" /\ call = "none" /\ held = <<>>

\* The call returns an error, and handle with it.
Stops ==
  /\ bpc' = "stopped"
  /\ before' = down
  /\ call' = "none"
  /\ UNCHANGED <<held, kcs, i, failed, down, repressed>>

Begin(c) ==
  /\ Calls(c)
  /\ \/ Refresh /\ call' = c /\ UNCHANGED <<assigned, senderVars>>
     \/ RefreshFails /\ Stops /\ UNCHANGED assigned

\* Mutant of Presses: a second Down presses what is held.
PressesHeld(seq) ==
  /\ bpc' = "press"
  /\ kcs' = IF held = <<>> THEN seq ELSE held
  /\ i' = 1
  /\ before' = down
  /\ UNCHANGED <<held, failed, down, repressed>>

\* KeyDown begins with the keycodes seq.
Presses(seq) ==
  /\ bpc' = "press"
  /\ kcs' = seq
  /\ i' = 1
  /\ before' = down
  /\ repressed' = (repressed \/ held \notin {<<>>, seq})
  /\ UNCHANGED <<held, failed, down>>

\* KeyUp begins with the keycodes seq.
Releases(seq) ==
  /\ bpc' = "release"
  /\ kcs' = seq
  /\ i' = Len(seq)
  /\ before' = down
  /\ UNCHANGED <<held, failed, down, repressed>>

\* One step of Keycodes; when it returns, its caller goes on.
Resolve ==
  /\ KeycodesNext
  /\ assigned' = IF Len(out') = Len(Keys) THEN out' ELSE assigned
  /\ \/ xpc' # "idle" /\ UNCHANGED <<call, senderVars>>
     \/ xpc' = "idle" /\ result' = "error" /\ Stops
     \/ /\ xpc' = "idle" /\ result' = "ok"
        /\ call' = "none"
        /\ \/ call = "bind" /\ UNCHANGED senderVars
           \/ call = "down" /\ Presses(out')
           \/ call = "up" /\ Releases(out')

\* Up with keycodes held.
Up ==
  /\ Ready /\ call = "none" /\ held # <<>>
  /\ Releases(held)
  /\ UNCHANGED <<xdoVars, call, assigned>>

\* One XTest request of KeyDown or KeyUp.
Inject ==
  /\ B!PressOk \/ B!PressFails \/ B!Unwind \/ B!Release
  /\ UNCHANGED <<server, local, changed, mine, scratches, xpc, todo, out,
                 result, unrestored, call>>

\* The deferred Close, after a failure or a cancelled scope.
Close ==
  /\ \/ CloseStarts /\ (bpc = "stopped" \/ (bpc = "idle" /\ call = "none"))
     \/ \E sym \in Wanted : Restore(sym)
     \/ CloseReturns
  /\ UNCHANGED <<call, assigned, senderVars>>

TalkStep ==
  \/ Connect
  \/ \E c \in {"bind", "down", "up"} : Begin(c)
  \/ Resolve \/ Up \/ Inject \/ Close

OtherClient ==
  /\ \E k \in Keycodes, row \in ForeignRows : Remap(k, row)
  /\ UNCHANGED <<call, assigned, senderVars>>

TalkNext ==
  \/ TalkStep
  \/ xpc # "closed" /\ OtherClient
  \/ xpc = "closed" /\ UNCHANGED talkVars

TalkSpec == TalkInit /\ [][TalkNext]_talkVars

----------------------------------------------------------------------------
(* Properties *)

\* Down and Up over the many requests of Keycodes, which fail anywhere while
\* other clients change the map, are the ones of KeyBinding, whose resolution
\* is one step: its properties are properties of the composition.
ImplementsKeyBinding == B!BindingSpec

\* A sequence is pressed on keycodes that type its names on the server, except
\* those another client has changed since the reload: nothing that Keycodes
\* does after it has resolved a name, for Down or for an earlier call, takes
\* the name from its keycode before it is pressed (xdo.go:242-255).
PressTypesNames ==
  bpc = "press" =>
    \A n \in DOMAIN kcs :
      kcs[n] \notin changed => server[kcs[n]].base = Keys[n]
=============================================================================

----------------------------- MODULE KeyBinding -----------------------------
(***************************************************************************)
(* The keyboard sender (KeyBinding, KeyDown and KeyUp of internal/xdo):    *)
(* the presses and releases of the configured key sequence, one XTest      *)
(* request at a time, as handle calls Down and Up for events that may come *)
(* from several devices.  Every request can fail, and handle stops at the  *)
(* first error.                                                            *)
(*                                                                         *)
(* Xdo.Keycodes is abstract here: it returns the keycodes the current map  *)
(* assigns to the names, or an error.  Module Xdo has its steps.           *)
(***************************************************************************)
EXTENDS Naturals, Sequences, Functions

CONSTANTS
  Keycodes,  \* keycodes the names can resolve to
  Names,     \* number of names in the configured sequence
  Faults     \* kinds of request failures: "refused", "broken"

ASSUME NamesAssumption == Names \in Nat \ {0}
ASSUME FaultsAssumption == Faults \subseteq {"refused", "broken"}

VARIABLES
  assigned,   \* what Keycodes would return now
  held,       \* KeyBinding.held, <<>> for nil
  bpc,        \* "idle", "press", "unwind", "release" or "stopped"
  kcs,        \* the keycodes of the call in progress
  i,          \* index of the next request's keycode
  failed,     \* a release of this call failed
  down,       \* keycodes the X server sees pressed by this client
  alive,      \* the connection works
  before,     \* history: down when the call in progress began
  repressed   \* history: a Down while held resolved to other keycodes

bindingVars ==
  <<assigned, held, bpc, kcs, i, failed, down, alive, before, repressed>>

Resolutions == [1 .. Names -> Keycodes]

BindingTypeOK ==
  /\ assigned \in Resolutions
  /\ held \in Resolutions \cup {<<>>}
  /\ bpc \in {"idle", "press", "unwind", "release", "stopped"}
  /\ kcs \in Resolutions \cup {<<>>}
  /\ i \in 0 .. Names
  /\ failed \in BOOLEAN
  /\ down \subseteq Keycodes
  /\ alive \in BOOLEAN
  /\ before \subseteq Keycodes
  /\ repressed \in BOOLEAN

\* After BindKeys has validated the names.
BindingInit ==
  /\ assigned \in Resolutions
  /\ held = <<>>
  /\ bpc = "idle"
  /\ kcs = <<>>
  /\ i = 0
  /\ failed = FALSE
  /\ down = {}
  /\ alive = TRUE
  /\ before = {}
  /\ repressed = FALSE

----------------------------------------------------------------------------
(* XTest requests *)

\* fakeInput succeeds and the server's set of pressed keycodes becomes keys.
InputOk(keys) ==
  /\ alive
  /\ down' = keys
  /\ UNCHANGED alive

\* fakeInput fails: refused, sent on a broken connection, or unanswered
\* because the connection broke before or after the server acted.
InputFails(keys) ==
  \/ /\ alive => "refused" \in Faults
     /\ UNCHANGED <<down, alive>>
  \/ /\ alive /\ "broken" \in Faults
     /\ alive' = FALSE
     /\ down' \in {down, keys}

\* A request of another kind leaves the connection as it is or finds it broken.
Survives == UNCHANGED alive
Breaks == alive /\ "broken" \in Faults /\ alive' = FALSE

\* A call returns without an error, leaving held as h.
Returns(h) ==
  /\ bpc' = "idle"
  /\ held' = h
  /\ kcs' = <<>>
  /\ i' = 0

\* A call returns an error: handle returns and Down and Up are over.
Fails(h) ==
  /\ bpc' = "stopped"
  /\ held' = h
  /\ kcs' = <<>>
  /\ i' = 0

----------------------------------------------------------------------------
(* Down *)

\* The names are resolved again and KeyDown begins.
Down ==
  /\ bpc = "idle"
  /\ bpc' = "press"
  /\ kcs' = assigned
  /\ i' = 1
  /\ before' = down
  /\ repressed' = (repressed \/ held \notin {<<>>, assigned})
  /\ UNCHANGED <<assigned, held, failed, down, alive>>

\* Keycodes fails.
DownFails ==
  /\ bpc = "idle"
  /\ before' = down
  /\ Fails(held)
  /\ Survives \/ Breaks
  /\ UNCHANGED <<assigned, failed, down, repressed>>

\* Mutant of PressOk: the loop ends one key late.
PressOkPastEnd ==
  /\ bpc = "press"
  /\ InputOk(down \cup {kcs[i]})
  /\ IF i > Len(kcs) THEN Returns(kcs)
     ELSE /\ i' = i + 1
          /\ UNCHANGED <<held, bpc, kcs>>
  /\ UNCHANGED <<assigned, failed, before, repressed>>

\* The next key of the sequence is pressed; after the last one Down returns.
PressOk ==
  /\ bpc = "press"
  /\ InputOk(down \cup {kcs[i]})
  /\ IF i = Len(kcs) THEN Returns(kcs)
     ELSE /\ i' = i + 1
          /\ UNCHANGED <<held, bpc, kcs>>
  /\ UNCHANGED <<assigned, failed, before, repressed>>

\* Mutant of PressFails: the keys pressed so far stay pressed.
PressFailsStuck ==
  /\ bpc = "press"
  /\ InputFails(down \cup {kcs[i]})
  /\ Fails(held)
  /\ UNCHANGED <<assigned, failed, before, repressed>>

\* The keys pressed before the failure are released, last one first.
PressFails ==
  /\ bpc = "press"
  /\ InputFails(down \cup {kcs[i]})
  /\ IF i = 1 THEN Fails(held)
     ELSE /\ bpc' = "unwind"
          /\ i' = i - 1
          /\ UNCHANGED <<held, kcs>>
  /\ UNCHANGED <<assigned, failed, before, repressed>>

Unwind ==
  /\ bpc = "unwind"
  /\ \/ InputOk(down \ {kcs[i]}) /\ UNCHANGED failed
     \/ InputFails(down \ {kcs[i]}) /\ failed' = TRUE
  /\ IF i = 1 THEN Fails(held)
     ELSE /\ i' = i - 1
          /\ UNCHANGED <<held, bpc, kcs>>
  /\ UNCHANGED <<assigned, before, repressed>>

----------------------------------------------------------------------------
(* Up *)

\* Mutant of Up: the names are resolved again.
UpResolves ==
  /\ bpc = "idle"
  /\ bpc' = "release"
  /\ kcs' = assigned
  /\ i' = Names
  /\ before' = down
  /\ UNCHANGED <<assigned, held, failed, down, alive, repressed>>

\* The keycodes of the last Down, or without one those of the current map.
Up ==
  /\ bpc = "idle"
  /\ bpc' = "release"
  /\ kcs' = IF held # <<>> THEN held ELSE assigned
  /\ i' = Names
  /\ before' = down
  /\ UNCHANGED <<assigned, held, failed, down, alive, repressed>>

\* Keycodes fails; it is called only when nothing is held.
UpFails ==
  /\ bpc = "idle" /\ held = <<>>
  /\ before' = down
  /\ Fails(held)
  /\ Survives \/ Breaks
  /\ UNCHANGED <<assigned, failed, down, repressed>>

\* Mutant of Release: held is kept after a successful Up.
ReleaseKeepsHeld ==
  /\ bpc = "release"
  /\ \/ InputOk(down \ {kcs[i]}) /\ UNCHANGED failed
     \/ InputFails(down \ {kcs[i]}) /\ failed' = TRUE
  /\ IF i > 1 THEN /\ i' = i - 1
                   /\ UNCHANGED <<held, bpc, kcs>>
     ELSE IF failed' THEN Fails(held) ELSE Returns(held)
  /\ UNCHANGED <<assigned, before, repressed>>

\* Mutant of Release: only what this process has pressed is released.
ReleaseHeldOnly ==
  /\ bpc = "release"
  /\ \/ InputOk(down \ ({kcs[i]} \cap Range(held))) /\ UNCHANGED failed
     \/ InputFails(down \ {kcs[i]}) /\ failed' = TRUE
  /\ IF i > 1 THEN /\ i' = i - 1
                   /\ UNCHANGED <<held, bpc, kcs>>
     ELSE IF failed' THEN Fails(<<>>) ELSE Returns(<<>>)
  /\ UNCHANGED <<assigned, before, repressed>>

\* Releases go on after a failure, and held is cleared in any case.
Release ==
  /\ bpc = "release"
  /\ \/ InputOk(down \ {kcs[i]}) /\ UNCHANGED failed
     \/ InputFails(down \ {kcs[i]}) /\ failed' = TRUE
  /\ IF i > 1 THEN /\ i' = i - 1
                   /\ UNCHANGED <<held, bpc, kcs>>
     ELSE IF failed' THEN Fails(<<>>) ELSE Returns(<<>>)
  /\ UNCHANGED <<assigned, before, repressed>>

----------------------------------------------------------------------------
\* Another client or the user changes the map, or a scratch moves.
Remap ==
  /\ bpc # "stopped"
  /\ assigned' \in Resolutions \ {assigned}
  /\ UNCHANGED <<held, bpc, kcs, i, failed, down, alive, before, repressed>>

\* The connection breaks between calls, or as handle closes it.
Disconnect ==
  /\ bpc \in {"idle", "stopped"}
  /\ Breaks
  /\ UNCHANGED <<assigned, held, bpc, kcs, i, failed, down, before, repressed>>

Stopped == bpc = "stopped" /\ UNCHANGED bindingVars

BindingNext ==
  \/ Down \/ DownFails \/ PressOk \/ PressFails \/ Unwind
  \/ Up \/ UpFails \/ Release
  \/ Remap \/ Disconnect
  \/ Stopped

BindingSpec == BindingInit /\ [][BindingNext]_bindingVars

----------------------------------------------------------------------------
(* Properties *)

\* Between calls the server sees pressed exactly the keycodes in held, however
\* the map changed while they were held, as long as no second Down came in
\* between with other keycodes: Up releases what Down pressed.
HeldIsDown ==
  bpc = "idle" /\ ~repressed => down = Range(held)

\* Even after such a Down, what held names is pressed.
HeldIsPressed == bpc = "idle" => Range(held) \subseteq down

\* When one press of a sequence is refused, the keys pressed before it do not
\* stay pressed, unless a release fails as well.
FailedDownLeavesNoKey ==
  bpc = "stopped" /\ alive /\ ~failed => down \subseteq before

\* xdo.go:222-223: "a mid-hold remap cannot leave the wrong keys stuck".
RemapLeavesNoKeyStuck == bpc = "idle" /\ held = <<>> => down = {}
=============================================================================

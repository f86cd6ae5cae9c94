-------------------------------- MODULE Xdo --------------------------------
(***************************************************************************)
(* The keyboard map side of internal/xdo: resolving keysyms to keycodes    *)
(* with scratch bindings for keysyms the server's map lacks, and undoing   *)
(* these when the connection is closed.                                    *)
(*                                                                         *)
(* The server's map is shared with every other X client and with the       *)
(* user's layout tools.  Each X request is one step, so that other clients *)
(* can change the map between any two requests of a call, and every        *)
(* request can fail: refused by the server, or unanswered because the      *)
(* connection broke, before or after the server had acted on it.           *)
(***************************************************************************)
EXTENDS KeyboardMap, Sequences

CONSTANTS
  Keys,         \* the keysyms of the configured sequence, in order
  ForeignRows,  \* rows other clients write
  Faults        \* kinds of request failures: "refused", "broken"

Wanted == {Keys[i] : i \in DOMAIN Keys}

ASSUME KeysAssumption == Keys \in Seq(Keysyms) /\ Keys # <<>>
ASSUME ForeignRowsAssumption == ForeignRows \subseteq Rows
ASSUME FaultsAssumption == Faults \subseteq {"refused", "broken"}

VARIABLES
  server,     \* the server's keyboard map
  local,      \* Xdo.keyMap
  scratches,  \* the undo table: the keycode bound to a keysym, or NoKeycode
  xpc,        \* where the current call is
  todo,       \* keysyms the current loop over the undo table has left
  out,        \* keycodes resolved so far by the current call
  result,     \* of the last call to Keycodes: "ok", "error", or "none" yet
  alive,      \* the connection works
  changed,    \* history: keycodes whose server row may differ from local
  mine,       \* history: keycodes whose server row is a scratch of this client
  unrestored  \* history: a request of Close's restore failed

mapVars == <<server, local, alive, changed, mine>>
xdoVars == <<mapVars, scratches, xpc, todo, out, result, unrestored>>

\* "new": before Open; "idle": between calls; "pass1", "pass2": in
\* ensureScratches; "resolve": in the loop over the key names; "restore": in
\* restoreScratches; "finalize": in the cleanup of a value that was dropped
\* without Close; "closed": after either or a failed Open.
Locations ==
  {"new", "idle", "pass1", "pass2", "resolve", "restore", "finalize", "closed"}

XdoTypeOK ==
  /\ server \in [Keycodes -> Rows]
  /\ local \in [Keycodes -> Rows]
  /\ scratches \in [Wanted -> Keycodes \cup {NoKeycode}]
  /\ xpc \in Locations
  /\ todo \subseteq Wanted
  /\ out \in Seq(Keycodes)
  /\ result \in {"none", "ok", "error"}
  /\ alive \in BOOLEAN
  /\ changed \subseteq Keycodes
  /\ mine \subseteq Keycodes
  /\ unrestored \in BOOLEAN

Recorded == {s \in Wanted : scratches[s] # NoKeycode}
Reserved == {scratches[s] : s \in Recorded}

XdoInit ==
  /\ server \in [Keycodes -> ForeignRows]
  /\ local = server
  /\ scratches = [s \in Wanted |-> NoKeycode]
  /\ xpc = "new"
  /\ todo = {}
  /\ out = <<>>
  /\ result = "none"
  /\ alive = TRUE
  /\ changed = {}
  /\ mine = {}
  /\ unrestored = FALSE

----------------------------------------------------------------------------
(* Requests *)

\* The server acts on ChangeKeyboardMapping of one keycode.
ServerWrites(k, row) ==
  /\ server' = [server EXCEPT ![k] = row]
  /\ mine' = IF row = Empty THEN mine \ {k} ELSE mine \cup {k}

\* Mutant of SetKeysyms: the local map is not written.
SetKeysymsServerOnly(k, row) ==
  /\ alive
  /\ ServerWrites(k, row)
  /\ changed' = changed \ {k}
  /\ UNCHANGED <<local, alive>>

\* setKeysyms succeeds: the server's map, then the local one, hold the row.
SetKeysyms(k, row) ==
  /\ alive
  /\ ServerWrites(k, row)
  /\ local' = [local EXCEPT ![k] = row]
  /\ changed' = changed \ {k}
  /\ UNCHANGED alive

\* A request fails without effect: refused, or sent on a broken connection.
Refused ==
  /\ alive => "refused" \in Faults
  /\ UNCHANGED mapVars

\* setKeysyms fails; if the connection breaks now, the server may have acted.
SetKeysymsFails(k, row) ==
  \/ Refused
  \/ /\ alive /\ "broken" \in Faults
     /\ alive' = FALSE
     /\ \/ UNCHANGED <<server, mine, changed>>
        \/ ServerWrites(k, row) /\ changed' = changed \cup {k}
     /\ UNCHANGED local

\* A call returns its keycodes, or none and an error.
Returns(r) ==
  /\ xpc' = "idle"
  /\ result' = r
  /\ out' = IF r = "ok" THEN out ELSE <<>>
  /\ todo' = {}

----------------------------------------------------------------------------
(* Open and the reload *)

\* Open: connect, initialize XTEST, load the map; no scratch exists yet.
Open ==
  /\ xpc = "new"
  /\ xpc' = "idle"
  /\ local' = server
  /\ changed' = {}
  /\ UNCHANGED <<server, scratches, todo, out, result, alive, mine, unrestored>>

OpenFails ==
  /\ xpc = "new"
  /\ xpc' = "closed"
  /\ UNCHANGED <<mapVars, scratches, todo, out, result, unrestored>>

\* Keycodes starts: the reply to GetKeyboardMapping replaces the local map,
\* and ensureScratches iterates over a copy of the undo table.
Refresh ==
  /\ xpc = "idle" /\ alive
  /\ local' = server
  /\ changed' = {}
  /\ xpc' = "pass1"
  /\ todo' = Recorded
  /\ out' = <<>>
  /\ result' = "none"
  /\ UNCHANGED <<server, scratches, alive, mine, unrestored>>

RefreshFails ==
  /\ xpc = "idle"
  /\ \/ Refused
     \/ /\ alive /\ "broken" \in Faults
        /\ alive' = FALSE
        /\ UNCHANGED <<server, local, changed, mine>>
  /\ Returns("error")
  /\ UNCHANGED <<scratches, unrestored>>

----------------------------------------------------------------------------
(* ensureScratches, pass 1: the iteration for sym, in any order of the map *)

\* Some keycode other than the scratch is found to have sym as its base.
Obsolete(sym) == FindBase(local, sym) \notin {NoKeycode, scratches[sym]}

InPass1(sym) == xpc = "pass1" /\ sym \in todo

\* A request of the loop: on success its entry of the table becomes k, on
\* failure the call returns and the entry stays.
Pass1Request(sym, row, k) ==
  \/ /\ SetKeysyms(scratches[sym], row)
     /\ scratches' = [scratches EXCEPT ![sym] = k]
     /\ todo' = todo \ {sym}
     /\ UNCHANGED <<xpc, result, out, unrestored>>
  \/ /\ SetKeysymsFails(scratches[sym], row)
     /\ Returns("error")
     /\ UNCHANGED <<scratches, unrestored>>

\* Mutant of Release: the slot is not emptied.
ReleaseForgets(sym) ==
  /\ InPass1(sym) /\ Obsolete(sym)
  /\ local[scratches[sym]].base = sym
  /\ scratches' = [scratches EXCEPT ![sym] = NoKeycode]
  /\ todo' = todo \ {sym}
  /\ UNCHANGED <<mapVars, xpc, result, out, unrestored>>

\* An obsolete scratch that still carries the keysym is emptied and dropped.
Release(sym) ==
  /\ InPass1(sym) /\ Obsolete(sym)
  /\ local[scratches[sym]].base = sym
  /\ Pass1Request(sym, Empty, NoKeycode)

\* An obsolete scratch that does not is only dropped.
Forget(sym) ==
  /\ InPass1(sym) /\ Obsolete(sym)
  /\ local[scratches[sym]].base # sym
  /\ scratches' = [scratches EXCEPT ![sym] = NoKeycode]
  /\ todo' = todo \ {sym}
  /\ UNCHANGED <<mapVars, xpc, result, out, unrestored>>

\* Mutant of Reapply: the slot is not looked at.
ReapplyAnyway(sym) ==
  /\ InPass1(sym)
  /\ FindBase(local, sym) = NoKeycode
  /\ Pass1Request(sym, ScratchRow(sym), scratches[sym])

\* The keysym is gone and its slot is still empty: bind it there again.
Reapply(sym) ==
  /\ InPass1(sym)
  /\ FindBase(local, sym) = NoKeycode
  /\ FullyEmpty(local, scratches[sym])
  /\ Pass1Request(sym, ScratchRow(sym), scratches[sym])

\* The scratch is in place, or its slot is taken and pass 2 looks at it.
Skip(sym) ==
  /\ InPass1(sym) /\ ~Obsolete(sym)
  /\ FindBase(local, sym) = NoKeycode => ~FullyEmpty(local, scratches[sym])
  /\ todo' = todo \ {sym}
  /\ UNCHANGED <<mapVars, scratches, xpc, result, out, unrestored>>

\* Mutant of Pass1Done: there is no second pass.
Pass1DoneResolves ==
  /\ xpc = "pass1" /\ todo = {}
  /\ xpc' = "resolve"
  /\ UNCHANGED <<mapVars, scratches, todo, out, result, unrestored>>

\* The second loop iterates over what the first has left in the table.
Pass1Done ==
  /\ xpc = "pass1" /\ todo = {}
  /\ xpc' = "pass2"
  /\ todo' = Recorded
  /\ UNCHANGED <<mapVars, scratches, out, result, unrestored>>

----------------------------------------------------------------------------
(* ensureScratches, pass 2, and bindScratch *)

\* Neither an empty keycode nor a request that succeeds: the call returns
\* with the table as it was.
BindFails(sym, free) ==
  /\ \/ free = NoKeycode /\ UNCHANGED mapVars
     \/ free # NoKeycode /\ SetKeysymsFails(free, ScratchRow(sym))
  /\ Returns("error")
  /\ UNCHANGED <<scratches, unrestored>>

\* Mutant of BindOk: a missing keycode is not noticed.
BindUnchecked(sym, free) ==
  /\ SetKeysyms(free, ScratchRow(sym))
  /\ scratches' = [scratches EXCEPT ![sym] = free]

\* The keysym is bound to an empty keycode and recorded.
BindOk(sym, free) ==
  /\ free # NoKeycode
  /\ SetKeysyms(free, ScratchRow(sym))
  /\ scratches' = [scratches EXCEPT ![sym] = free]

InPass2(sym) == xpc = "pass2" /\ sym \in todo

\* A scratch that has a base mapping is fine.
Bound(sym) ==
  /\ InPass2(sym)
  /\ FindBase(local, sym) # NoKeycode
  /\ todo' = todo \ {sym}
  /\ UNCHANGED <<mapVars, scratches, xpc, result, out, unrestored>>

\* Any other moves to an empty keycode that no other scratch has reserved.
Rebind(sym) ==
  /\ InPass2(sym)
  /\ FindBase(local, sym) = NoKeycode
  /\ LET free == FindEmpty(local, {scratches[s] : s \in Recorded \ {sym}})
     IN  \/ /\ BindOk(sym, free)
            /\ todo' = todo \ {sym}
            /\ UNCHANGED <<xpc, result, out, unrestored>>
         \/ BindFails(sym, free)

Pass2Done ==
  /\ xpc = "pass2" /\ todo = {}
  /\ xpc' = "resolve"
  /\ UNCHANGED <<mapVars, scratches, todo, out, result, unrestored>>

----------------------------------------------------------------------------
(* Keycodes: the loop over the key names.  The branch of keycodeForKeysym    *)
(* for a recorded scratch without a base mapping (line 404) is not reached:  *)
(* ScratchesBound below holds whenever the loop runs.                        *)

Resolving(sym) ==
  xpc = "resolve" /\ Len(out) < Len(Keys) /\ sym = Keys[Len(out) + 1]

ResolveBase(sym) ==
  /\ Resolving(sym)
  /\ FindBase(local, sym) # NoKeycode
  /\ out' = Append(out, FindBase(local, sym))
  /\ UNCHANGED <<mapVars, scratches, xpc, todo, result, unrestored>>

\* Only with modifiers: an error.
ResolveOnNonBase(sym) ==
  /\ Resolving(sym)
  /\ FindBase(local, sym) = NoKeycode /\ OnNonBase(local, sym)
  /\ Returns("error")
  /\ UNCHANGED <<mapVars, scratches, unrestored>>

ResolveScratch(sym) ==
  /\ Resolving(sym)
  /\ FindBase(local, sym) = NoKeycode /\ ~OnNonBase(local, sym)
  /\ LET free == FindEmpty(local, Reserved)
     IN  \/ /\ BindOk(sym, free)
            /\ out' = Append(out, free)
            /\ UNCHANGED <<xpc, todo, result, unrestored>>
         \/ BindFails(sym, free)

KeycodesReturns ==
  /\ xpc = "resolve" /\ Len(out) = Len(Keys)
  /\ Returns("ok")
  /\ UNCHANGED <<mapVars, scratches, unrestored>>

----------------------------------------------------------------------------
(* Close, and the garbage collector's cleanup *)

\* Mutant of CloseStarts: nothing is restored.
CloseForgets ==
  /\ xpc = "idle"
  /\ xpc' = "restore"
  /\ todo' = {}
  /\ out' = <<>>
  /\ result' = "none"
  /\ UNCHANGED <<mapVars, scratches, unrestored>>

CloseStarts ==
  /\ xpc = "idle"
  /\ xpc' = "restore"
  /\ todo' = Recorded
  /\ out' = <<>>
  /\ result' = "none"
  /\ UNCHANGED <<mapVars, scratches, unrestored>>

\* The slot gets its previous row back, whatever it holds; errors are ignored.
Restore(sym) ==
  /\ xpc = "restore" /\ sym \in todo
  /\ \/ SetKeysyms(scratches[sym], Empty) /\ UNCHANGED unrestored
     \/ SetKeysymsFails(scratches[sym], Empty) /\ unrestored' = TRUE
  /\ todo' = todo \ {sym}
  /\ UNCHANGED <<scratches, xpc, out, result>>

\* The value becomes unreachable, and its local map is gone: finalize runs over
\* the same undo table.
Drop ==
  /\ xpc = "idle"
  /\ xpc' = "finalize"
  /\ todo' = Recorded
  /\ local' = [k \in Keycodes |-> Empty]
  /\ changed' = Keycodes
  /\ out' = <<>>
  /\ result' = "none"
  /\ UNCHANGED <<server, scratches, alive, mine, unrestored>>

\* It writes to the server alone.
Finalize(sym) ==
  /\ xpc = "finalize" /\ sym \in todo
  /\ \/ /\ alive
        /\ ServerWrites(scratches[sym], Empty)
        /\ UNCHANGED <<local, alive, changed, unrestored>>
     \/ SetKeysymsFails(scratches[sym], Empty) /\ unrestored' = TRUE
  /\ todo' = todo \ {sym}
  /\ UNCHANGED <<scratches, xpc, out, result>>

\* The table is cleared and the connection closed.
CloseReturns ==
  /\ xpc \in {"restore", "finalize"} /\ todo = {}
  /\ xpc' = "closed"
  /\ scratches' = [s \in Wanted |-> NoKeycode]
  /\ UNCHANGED <<mapVars, todo, out, result, unrestored>>

----------------------------------------------------------------------------
(* Another client, or the user's layout tool, changes the row of a keycode. *)
Remap(k, row) ==
  /\ server[k] # row
  /\ server' = [server EXCEPT ![k] = row]
  /\ mine' = mine \ {k}
  /\ changed' = changed \cup {k}
  /\ UNCHANGED <<local, scratches, xpc, todo, out, result, alive, unrestored>>

\* Keycodes after its reload.
KeycodesNext ==
  \/ \E sym \in Wanted :
       \/ Release(sym) \/ Forget(sym) \/ Reapply(sym) \/ Skip(sym)
       \/ Bound(sym) \/ Rebind(sym)
       \/ ResolveBase(sym) \/ ResolveOnNonBase(sym) \/ ResolveScratch(sym)
  \/ Pass1Done \/ Pass2Done \/ KeycodesReturns

XdoNext ==
  \/ Open \/ OpenFails
  \/ Refresh \/ RefreshFails \/ KeycodesNext
  \/ CloseStarts \/ Drop \/ CloseReturns
  \/ \E sym \in Wanted : Restore(sym) \/ Finalize(sym)

\* Nothing is left to do once the connection is closed.
Closed == xpc = "closed" /\ UNCHANGED xdoVars

Next ==
  \/ XdoNext
  \/ xpc # "closed" /\ \E k \in Keycodes, row \in ForeignRows : Remap(k, row)
  \/ Closed

XdoSpec == XdoInit /\ [][Next]_xdoVars

----------------------------------------------------------------------------
(* Properties *)

\* The undo table is complete: while the connection works, every keycode that
\* still carries a scratch of this client is in it, whichever request of
\* whichever pass failed, so that Close can undo it.
UndoTableComplete == alive => mine \subseteq Reserved \/ xpc = "closed"

\* Neither Close nor the cleanup leaves a scratch on the server when its
\* requests succeed, whatever happened to the map and the table before.
CloseRestores ==
  xpc = "closed" /\ alive /\ ~unrestored => mine = {}

\* Between reloads the local map differs from the server only where another
\* client wrote: each setKeysyms updates both or, when refused, neither.
LocalMirrorsServer ==
  xpc \notin {"new", "closed"} =>
    \A k \in Keycodes \ changed : local[k] = server[k]

\* Key names are resolved only when every recorded scratch has a base mapping
\* in the local map: ensureScratches fails closed (xdo.go:604).
ScratchesBound ==
  xpc = "resolve" => \A s \in Recorded : FindBase(local, s) # NoKeycode

\* A keycode that Keycodes has resolved types its keysym without modifiers,
\* on the server too unless another client has changed the keycode since the
\* reload: no binding of a later name, and no scratch that is dropped, moved
\* or applied again, takes it away.
ResolvedTypesKeysym ==
  xpc = "resolve" \/ (xpc = "idle" /\ result = "ok") =>
    \A i \in DOMAIN out :
      /\ local[out[i]].base = Keys[i]
      /\ out[i] \notin changed => server[out[i]].base = Keys[i]

\* A call to Keycodes writes over a row that is neither empty nor a scratch of
\* its own only if another client put it there after the reload, or if the row
\* has the very keysym of the scratch recorded for that keycode.
OverwritesOnlyUnseen ==
  [][XdoNext /\ xpc \notin {"restore", "finalize"} =>
       \A k \in Keycodes \ (changed \cup mine) :
         server'[k] # server[k] =>
           \/ server[k] = Empty
           \/ \E s \in Recorded : scratches[s] = k /\ server[k].base = s]_xdoVars

\* xdo.go:26-27: "Only empty keycodes are used; real keys are never
\* overwritten", for the keys this client has seen in its last reload.
RealKeysNeverOverwritten ==
  [][XdoNext =>
       \A k \in Keycodes \ (changed \cup mine) :
         server'[k] # server[k] => server[k] = Empty]_xdoVars
=============================================================================

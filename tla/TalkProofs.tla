------------------------------ MODULE TalkProofs ------------------------------
(***************************************************************************)
(* Proofs about Talk, for every sequence of names, every keyboard map and  *)
(* every combination of failures: Down and Up over the requests of         *)
(* Keycodes implement those of KeyBinding, in whose specification they are *)
(* one step, and the keycodes that are pressed type the names.             *)
(***************************************************************************)
EXTENDS Talk, XdoProofs

\* KeyBinding and the proofs about it, with the variables of Talk.
BP == INSTANCE KeyBindingProofs WITH Names <- Len(Keys)

----------------------------------------------------------------------------
(* The inductive invariant: Xdo's, KeyBinding's, and how calls interlock   *)

\* Keycodes runs for one caller while the sender is idle, KeyDown and KeyUp
\* between two calls of it; Up resolves only when nothing is held, and a
\* complete resolution is remembered until it is handed over.
InterlockInv ==
  /\ call \in {"bind", "down", "up", "none"}
  /\ xpc \in {"pass1", "pass2", "resolve"} => bpc = "idle" /\ call # "none"
  /\ xpc \in {"new", "idle"} => call \in {"bind", "none"}
  /\ call = "up" => held = <<>>
  /\ bpc \in {"press", "unwind", "release"} => xpc = "idle" /\ call = "none"
  /\ xpc = "resolve" /\ Len(out) = Len(Keys) => assigned = out
  /\ xpc # "finalize"

\* The part of it that says nothing of the keycodes that are pressed.
CallsInv == XdoInv /\ BP!BindingTypeOK /\ BP!CallInv /\ InterlockInv

TalkInv == CallsInv /\ BP!BindingInv /\ PressTypesNames

----------------------------------------------------------------------------
(* The two instances of KeyBinding *)

\* The two instances are of one module.
LEMMA SameBinding ==
  /\ B!BindingInit <=> BP!BindingInit
  /\ B!BindingNext <=> BP!BindingNext
  /\ B!PressOk \/ B!PressFails \/ B!Unwind \/ B!Release
       <=> BP!PressOk \/ BP!PressFails \/ BP!Unwind \/ BP!Release
  /\ B!bindingVars = BP!bindingVars
<1>1. B!BindingInit <=> BP!BindingInit
  BY DEF B!BindingInit, BP!BindingInit, B!Resolutions, BP!Resolutions
<1>2. (B!PressOk <=> BP!PressOk) /\ (B!PressFails <=> BP!PressFails)
  BY DEF B!PressOk, B!PressFails, B!InputOk, B!InputFails, B!Returns, B!Fails,
     BP!PressOk, BP!PressFails, BP!InputOk, BP!InputFails, BP!Returns, BP!Fails
<1>3. (B!Unwind <=> BP!Unwind) /\ (B!Release <=> BP!Release)
  BY DEF B!Unwind, B!Release, B!InputOk, B!InputFails, B!Returns, B!Fails,
     BP!Unwind, BP!Release, BP!InputOk, BP!InputFails, BP!Returns, BP!Fails
<1>4. (B!Down <=> BP!Down) /\ (B!DownFails <=> BP!DownFails)
  BY DEF B!Down, B!DownFails, B!Fails, B!Survives, B!Breaks,
     BP!Down, BP!DownFails, BP!Fails, BP!Survives, BP!Breaks
<1>5. (B!Up <=> BP!Up) /\ (B!UpFails <=> BP!UpFails)
  BY DEF B!Up, B!UpFails, B!Fails, B!Survives, B!Breaks,
     BP!Up, BP!UpFails, BP!Fails, BP!Survives, BP!Breaks
<1>6. /\ B!Remap <=> BP!Remap
      /\ B!Disconnect <=> BP!Disconnect
      /\ B!Stopped <=> BP!Stopped
  BY DEF B!Remap, B!Disconnect, B!Stopped, B!Breaks, B!Resolutions, B!bindingVars,
     BP!Remap, BP!Disconnect, BP!Stopped, BP!Breaks, BP!Resolutions, BP!bindingVars
<1>7. B!bindingVars = BP!bindingVars
  BY DEF B!bindingVars, BP!bindingVars
<1>8. QED
  BY <1>1, <1>2, <1>3, <1>4, <1>5, <1>6, <1>7 DEF B!BindingNext, BP!BindingNext

\* What the proofs about KeyBinding assume holds here.
LEMMA BindingAssumptions == BP!NamesAssumption /\ BP!FaultsAssumption
BY KeysAssumption, FaultsAssumption, EmptySeq
   DEF BP!NamesAssumption, BP!FaultsAssumption

----------------------------------------------------------------------------
(* What a step of Talk is to Xdo *)

\* A request of KeyDown or KeyUp leaves Xdo alone but for the connection.
AliveOnly ==
  /\ UNCHANGED <<server, local, changed, mine, scratches, xpc, todo, out, result,
                 unrestored>>
  /\ alive' \in BOOLEAN
  /\ alive' => alive

LEMMA AliveOnlyKeepsXdo ==
  ASSUME XdoInv, AliveOnly
  PROVE  XdoInv'
<1> USE DEF AliveOnly
<1>1. XdoTypeOK'
  BY DEF XdoInv, XdoTypeOK
<1>2. LoopInv' /\ MirrorInv'
  BY DEF XdoInv, LoopInv, Recorded, MirrorInv, LocalMirrorsServer
<1>3. MineInv'
  BY DEF XdoInv, MineInv, CloseRestores, Recorded
<1>4. BoundInv' /\ TypesInv'
  BY DEF XdoInv, BoundInv, HasBase, Recorded, TypesInv
<1>5. QED
  BY <1>1, <1>2, <1>3, <1>4 DEF XdoInv

\* A request of KeyDown or KeyUp is no request about the map.
LEMMA InjectAlive ==
  ASSUME alive \in BOOLEAN, Inject
  PROVE  AliveOnly
<1>1. alive' = alive \/ alive' = FALSE
  BY DEF Inject, B!PressOk, B!PressFails, B!Unwind, B!Release, B!InputOk, B!InputFails
<1>2. CASE alive' = alive
  BY <1>2 DEF Inject, AliveOnly
<1>3. CASE alive' = FALSE
  <2>1. alive' \in BOOLEAN /\ ~alive'
    BY <1>3
  <2>2. QED
    BY <2>1 DEF Inject, AliveOnly
<1>4. QED
  BY <1>1, <1>2, <1>3

LEMMA TalkStepOfXdo ==
  ASSUME alive \in BOOLEAN, TalkStep
  PROVE  [Next]_xdoVars \/ AliveOnly
<1>1. CASE Connect
  BY <1>1 DEF Connect, Next, XdoNext
<1>2. ASSUME NEW c \in {"bind", "down", "up"}, Begin(c)
      PROVE  Next
  BY <1>2 DEF Begin, Next, XdoNext
<1>3. CASE Resolve
  BY <1>3 DEF Resolve, Next, XdoNext
<1>4. CASE Up
  BY <1>4 DEF Up
<1>5. CASE Inject
  BY <1>5, InjectAlive
<1>6. CASE Close
  BY <1>6 DEF Close, Next, XdoNext
<1>7. QED
  BY <1>1, <1>2, <1>3, <1>4, <1>5, <1>6 DEF TalkStep

LEMMA TalkKeepsXdo ==
  ASSUME XdoInv, [TalkNext]_talkVars
  PROVE  XdoInv'
<1>1. alive \in BOOLEAN
  BY DEF XdoInv, XdoTypeOK
<1>2. CASE TalkStep
  BY <1>1, <1>2, TalkStepOfXdo, AliveOnlyKeepsXdo, XdoInvNext
<1>3. CASE xpc # "closed" /\ OtherClient
  BY <1>3, XdoInvNext DEF OtherClient, Next
<1>4. CASE UNCHANGED talkVars
  BY <1>4, XdoInvNext DEF talkVars
<1>5. QED
  BY <1>2, <1>3, <1>4 DEF TalkNext

\* How a step of Keycodes ends: it goes on, it has failed, or it has resolved
\* the whole sequence.
LEMMA KeycodesOutcome ==
  ASSUME XdoInv, KeycodesNext
  PROVE  /\ xpc \in {"pass1", "pass2", "resolve"}
         /\ \/ xpc' \in {"pass1", "pass2", "resolve"} /\ UNCHANGED alive
            \/ /\ xpc' = "idle" /\ result' = "error" /\ out' = <<>>
               /\ \/ UNCHANGED alive
                  \/ alive /\ "broken" \in Faults /\ alive' = FALSE
            \/ /\ xpc = "resolve" /\ xpc' = "idle" /\ result' = "ok"
               /\ out' = out /\ Len(out) = Len(Keys) /\ UNCHANGED mapVars
<1>1. ASSUME NEW sym \in Wanted, Release(sym) \/ Reapply(sym)
      PROVE  /\ xpc = "pass1"
             /\ \/ xpc' = xpc /\ UNCHANGED alive
                \/ /\ xpc' = "idle" /\ result' = "error" /\ out' = <<>>
                   /\ \/ UNCHANGED alive
                      \/ alive /\ "broken" \in Faults /\ alive' = FALSE
  BY <1>1 DEF Release, Reapply, InPass1, Pass1Request, SetKeysyms, SetKeysymsFails,
     Refused, mapVars, Returns
<1>2. ASSUME NEW sym \in Wanted, Rebind(sym) \/ ResolveScratch(sym)
      PROVE  /\ xpc \in {"pass2", "resolve"}
             /\ \/ xpc' = xpc /\ UNCHANGED alive
                \/ /\ xpc' = "idle" /\ result' = "error" /\ out' = <<>>
                   /\ \/ UNCHANGED alive
                      \/ alive /\ "broken" \in Faults /\ alive' = FALSE
  BY <1>2 DEF Rebind, InPass2, ResolveScratch, Resolving, BindOk, BindFails, SetKeysyms,
     SetKeysymsFails, Refused, mapVars, Returns
<1>3. ASSUME NEW sym \in Wanted,
             Forget(sym) \/ Skip(sym) \/ Bound(sym) \/ ResolveBase(sym)
      PROVE  xpc \in {"pass1", "pass2", "resolve"} /\ xpc' = xpc /\ UNCHANGED alive
  BY <1>3 DEF Forget, Skip, InPass1, Bound, InPass2, ResolveBase, Resolving, mapVars
<1>4. ASSUME NEW sym \in Wanted, ResolveOnNonBase(sym)
      PROVE  /\ xpc = "resolve" /\ xpc' = "idle" /\ result' = "error"
             /\ out' = <<>> /\ UNCHANGED alive
  BY <1>4 DEF ResolveOnNonBase, Resolving, Returns, mapVars
<1>5. CASE Pass1Done \/ Pass2Done
  BY <1>5 DEF Pass1Done, Pass2Done, mapVars
<1>6. CASE KeycodesReturns
  BY <1>6 DEF KeycodesReturns, Returns
<1>7. QED
  BY <1>1, <1>2, <1>3, <1>4, <1>5, <1>6 DEF KeycodesNext

----------------------------------------------------------------------------
(* What a step of Talk is to KeyBinding *)

LEMMA SeqOfKeys ==
  /\ Len(Keys) \in Nat \ {0}
  /\ \A s \in Seq(Keycodes) : Len(s) = Len(Keys) => s \in BP!Resolutions
<1>1. Len(Keys) \in Nat \ {0}
  BY KeysAssumption, EmptySeq
<1>2. ASSUME NEW s \in Seq(Keycodes), Len(s) = Len(Keys)
      PROVE  s \in [1 .. Len(Keys) -> Keycodes]
  BY <1>2, LenProperties
<1>3. QED
  BY <1>1, <1>2 DEF BP!Resolutions

LEMMA BindingSteps ==
  ASSUME CallsInv, XdoInv', [TalkNext]_talkVars
  PROVE  [BP!BindingNext]_(BP!bindingVars)
<1> DEFINE binding == BP!bindingVars
<1>1. /\ out' \in Seq(Keycodes) /\ Len(<<>>) # Len(Keys)
      /\ assigned \in BP!Resolutions /\ held \in BP!Resolutions \cup {<<>>}
      /\ bpc \in {"idle", "stopped"} => kcs = <<>> /\ i = 0
  BY SeqOfKeys, EmptySeq
     DEF CallsInv, XdoInv, XdoTypeOK, BP!BindingTypeOK, BP!CallInv
<1>2. CASE UNCHANGED <<alive, assigned, senderVars>>
  BY <1>2 DEF senderVars, BP!bindingVars
<1>3. CASE Connect
  BY <1>2, <1>3 DEF Connect, Open, OpenFails, mapVars
<1>4. ASSUME NEW c \in {"bind", "down", "up"}, Begin(c)
      PROVE  [BP!BindingNext]_(BP!bindingVars)
  <2>1. CASE Refresh /\ UNCHANGED <<assigned, senderVars>>
    BY <1>2, <2>1 DEF Refresh
  <2>2. CASE RefreshFails /\ Stops /\ UNCHANGED assigned
    <3>1. UNCHANGED alive \/ (alive /\ "broken" \in Faults /\ alive' = FALSE)
      BY <2>2 DEF RefreshFails, Refused, mapVars
    <3>2. BP!DownFails
      BY <1>1, <1>4, <2>2, <3>1
         DEF Begin, Calls, Ready, Stops, BP!DownFails, BP!Fails, BP!Survives, BP!Breaks
    <3>3. QED
      BY <3>2 DEF BP!BindingNext
  <2>3. QED
    BY <1>4, <2>1, <2>2 DEF Begin
<1>5. CASE Resolve
  <2>1. bpc = "idle"
    BY <1>5, KeycodesOutcome DEF Resolve, CallsInv, InterlockInv
  <2>2. CASE xpc' # "idle" /\ UNCHANGED <<call, senderVars>>
    <3>1. UNCHANGED alive
      BY <1>5, <2>2, KeycodesOutcome DEF Resolve, CallsInv
    <3>2. assigned' \in BP!Resolutions
      BY <1>1, <1>5, SeqOfKeys DEF Resolve
    <3>3. CASE assigned' = assigned
      BY <1>2, <2>2, <3>1, <3>3
    <3>4. CASE assigned' # assigned
      BY <2>1, <2>2, <3>1, <3>2, <3>4 DEF BP!BindingNext, BP!Remap, senderVars
    <3>5. QED
      BY <3>3, <3>4
  <2>3. CASE xpc' = "idle" /\ result' = "error" /\ Stops
    <3>1. /\ out' = <<>>
          /\ UNCHANGED alive \/ (alive /\ "broken" \in Faults /\ alive' = FALSE)
      BY <1>5, <2>3, KeycodesOutcome DEF Resolve, CallsInv
    <3>2. UNCHANGED assigned
      BY <1>1, <1>5, <3>1 DEF Resolve
    <3>3. BP!DownFails
      BY <1>1, <2>1, <2>3, <3>1, <3>2
         DEF Stops, BP!DownFails, BP!Fails, BP!Survives, BP!Breaks
    <3>4. QED
      BY <3>3 DEF BP!BindingNext
  <2>4. CASE xpc' = "idle" /\ result' = "ok"
    <3>1. /\ xpc = "resolve" /\ out' = out /\ Len(out) = Len(Keys)
          /\ UNCHANGED alive
      BY <1>5, <2>4, KeycodesOutcome DEF Resolve, CallsInv, mapVars
    <3>2. assigned = out' /\ assigned' = assigned
      BY <1>5, <3>1 DEF Resolve, CallsInv, InterlockInv
    <3>3. CASE call = "bind" /\ UNCHANGED senderVars
      BY <1>2, <3>1, <3>2, <3>3
    <3>4. CASE call = "down" /\ Presses(out')
      <4>1. BP!Down
        BY <2>1, <3>1, <3>2, <3>4 DEF Presses, BP!Down
      <4>2. QED
        BY <4>1 DEF BP!BindingNext
    <3>5. CASE call = "up" /\ Releases(out')
      <4>1. BP!Up
        BY <2>1, <3>1, <3>2, <3>5 DEF Releases, BP!Up, CallsInv, InterlockInv
      <4>2. QED
        BY <4>1 DEF BP!BindingNext
    <3>6. QED
      BY <1>5, <2>4, <3>3, <3>4, <3>5 DEF Resolve
  <2>5. QED
    BY <1>5, <2>2, <2>3, <2>4 DEF Resolve
<1>6. CASE Up
  <2>1. Len(held) = Len(Keys)
    BY <1>1, <1>6, SeqOfKeys DEF Up, BP!Resolutions
  <2>2. BP!Up
    BY <1>6, <2>1 DEF Up, Ready, Releases, BP!Up, xdoVars, mapVars
  <2>3. QED
    BY <2>2 DEF BP!BindingNext
<1>7. CASE Inject
  BY <1>7, SameBinding DEF Inject, BP!BindingNext
<1>8. CASE Close
  <2>1. CASE CloseStarts \/ CloseReturns
    BY <1>2, <1>8, <2>1 DEF Close, CloseStarts, CloseReturns, mapVars
  <2>2. ASSUME NEW sym \in Wanted, Restore(sym)
        PROVE  [BP!BindingNext]_(BP!bindingVars)
    <3>1. bpc \in {"idle", "stopped"}
      BY <2>2 DEF Restore, CallsInv, InterlockInv, BP!BindingTypeOK
    <3>2. UNCHANGED alive \/ (alive /\ "broken" \in Faults /\ alive' = FALSE)
      BY <2>2 DEF Restore, SetKeysyms, SetKeysymsFails, Refused, mapVars
    <3>3. CASE UNCHANGED alive
      BY <1>2, <1>8, <3>3 DEF Close
    <3>4. CASE alive /\ "broken" \in Faults /\ alive' = FALSE
      BY <1>8, <3>1, <3>4
         DEF Close, BP!BindingNext, BP!Disconnect, BP!Breaks, senderVars
    <3>5. QED
      BY <3>2, <3>3, <3>4
  <2>3. QED
    BY <1>8, <2>1, <2>2 DEF Close
<1>9. CASE OtherClient
  BY <1>2, <1>9 DEF OtherClient, Remap
<1>10. CASE UNCHANGED talkVars
  BY <1>2, <1>10 DEF talkVars, xdoVars, mapVars
<1>11. QED
  BY <1>3, <1>4, <1>5, <1>6, <1>7, <1>8, <1>9, <1>10 DEF TalkNext, TalkStep

----------------------------------------------------------------------------
(* The interlock and what is pressed *)

LEMMA InterlockNext ==
  ASSUME CallsInv, XdoInv', BP!BindingTypeOK', [TalkNext]_talkVars
  PROVE  InterlockInv'
<1> USE DEF InterlockInv
<1>1. /\ InterlockInv
      /\ Len(Keys) \in Nat \ {0} /\ Len(<<>>) = 0
      /\ bpc \in {"idle", "press", "unwind", "release", "stopped"}
  BY SeqOfKeys, EmptySeq DEF CallsInv, BP!BindingTypeOK
<1>2. CASE UNCHANGED <<call, xpc, bpc, held, out, assigned>>
  BY <1>1, <1>2
<1>3. CASE Connect
  BY <1>1, <1>3 DEF Connect, Open, OpenFails, senderVars
<1>4. ASSUME NEW c \in {"bind", "down", "up"}, Begin(c)
      PROVE  InterlockInv'
  BY <1>1, <1>4
     DEF Begin, Calls, Ready, Refresh, RefreshFails, Returns, Stops, senderVars
<1>5. CASE Resolve
  <2>1. /\ xpc \in {"pass1", "pass2", "resolve"}
        /\ xpc' \in {"pass1", "pass2", "resolve", "idle"}
    BY <1>5, KeycodesOutcome DEF Resolve, CallsInv
  <2>2. CASE xpc' # "idle" /\ UNCHANGED <<call, senderVars>>
    BY <1>1, <1>5, <2>1, <2>2 DEF Resolve, senderVars
  <2>3. CASE xpc' = "idle" /\ result' = "error" /\ Stops
    BY <2>3 DEF Stops
  <2>4. CASE xpc' = "idle" /\ result' = "ok"
    BY <1>1, <1>5, <2>1, <2>4 DEF Resolve, Presses, Releases, senderVars
  <2>5. QED
    BY <1>5, <2>2, <2>3, <2>4 DEF Resolve
<1>6. CASE Up
  BY <1>1, <1>6 DEF Up, Ready, Releases, xdoVars, mapVars
<1>7. CASE Inject
  <2>1. bpc \in {"press", "unwind", "release"} /\ UNCHANGED assigned
    BY <1>7 DEF Inject, B!PressOk, B!PressFails, B!Unwind, B!Release
  <2>2. QED
    BY <1>1, <1>7, <2>1 DEF Inject
<1>8. CASE Close
  <2>1. /\ xpc \in {"idle", "restore"}
        /\ xpc = "idle" => bpc \in {"idle", "stopped"} 
        /\ xpc' \in {"restore", "closed"}
    BY <1>1, <1>8 DEF Close, CloseStarts, Restore, CloseReturns
  <2>2. QED
    BY <1>1, <1>8, <2>1 DEF Close, senderVars
<1>9. CASE OtherClient \/ UNCHANGED talkVars
  BY <1>2, <1>9 DEF OtherClient, Remap, talkVars, xdoVars, mapVars, senderVars
<1>10. QED
  BY <1>3, <1>4, <1>5, <1>6, <1>7, <1>8, <1>9 DEF TalkNext, TalkStep

LEMMA PressTypesNext ==
  ASSUME TalkInv, XdoInv', BP!BindingInv', [TalkNext]_talkVars
  PROVE  PressTypesNames'
<1>1. /\ PressTypesNames /\ InterlockInv
      /\ \A n \in DOMAIN kcs : bpc = "press" => kcs[n] \in Keycodes
  <2>1. bpc = "press" => kcs \in [1 .. Len(Keys) -> Keycodes]
    BY DEF TalkInv, CallsInv, BP!CallInv, BP!Resolutions
  <2>2. QED
    BY <2>1 DEF TalkInv, CallsInv
<1>2. CASE bpc' # "press"
  BY <1>2 DEF PressTypesNames
<1>3. CASE bpc = "press" /\ UNCHANGED <<kcs, server, changed>>
  BY <1>1, <1>3 DEF PressTypesNames
<1>4. CASE Connect
  BY <1>1, <1>2, <1>4 DEF Connect, Open, OpenFails, InterlockInv, senderVars
<1>5. ASSUME NEW c \in {"bind", "down", "up"}, Begin(c)
      PROVE  PressTypesNames'
  BY <1>2, <1>5 DEF Begin, Calls, Ready, Stops, senderVars
<1>6. CASE Resolve
  <2>1. bpc = "idle"
    BY <1>6, KeycodesOutcome DEF Resolve, TalkInv, CallsInv, InterlockInv
  <2>2. CASE bpc' = "press"
    <3>1. xpc' = "idle" /\ result' = "ok" /\ kcs' = out'
      BY <1>6, <2>1, <2>2 DEF Resolve, Stops, Presses, Releases, senderVars
    <3>2. \A n \in DOMAIN out' : out'[n] \in Keycodes /\ local'[out'[n]].base = Keys[n]
      BY <3>1, LenProperties, ElementOfSeq DEF XdoInv, XdoTypeOK, TypesInv
    <3>3. \A k \in Keycodes \ changed' : local'[k] = server'[k]
      BY <3>1 DEF XdoInv, MirrorInv, LocalMirrorsServer
    <3>4. QED
      BY <3>1, <3>2, <3>3 DEF PressTypesNames
  <2>3. QED
    BY <1>2, <2>2
<1>7. CASE Up
  BY <1>2, <1>7 DEF Up, Releases
<1>8. CASE Inject
  BY <1>2, <1>3, <1>8
     DEF Inject, B!PressOk, B!PressFails, B!Unwind, B!Release, B!Returns, B!Fails
<1>9. CASE Close
  <2>1. bpc # "press"
    BY <1>1, <1>9 DEF Close, CloseStarts, Restore, CloseReturns, InterlockInv
  <2>2. QED
    BY <1>2, <1>9, <2>1 DEF Close, senderVars
<1>10. CASE OtherClient
  BY <1>1, <1>10 DEF OtherClient, Remap, senderVars, PressTypesNames, TalkInv, CallsInv, XdoInv, XdoTypeOK
<1>11. CASE UNCHANGED talkVars
  BY <1>2, <1>3, <1>11 DEF talkVars, xdoVars, mapVars, senderVars
<1>12. QED
  BY <1>4, <1>5, <1>6, <1>7, <1>8, <1>9, <1>10, <1>11 DEF TalkNext, TalkStep

----------------------------------------------------------------------------
(* The theorems *)

LEMMA TalkInvInit == TalkInit => TalkInv
<1> SUFFICES ASSUME TalkInit PROVE TalkInv
  OBVIOUS
<1>1. XdoInv
  BY XdoInvInit DEF TalkInit
<1>2. BP!BindingInit
  BY SameBinding DEF TalkInit
<1>3. BP!BindingInv
  BY <1>2, BindingAssumptions, BP!BindingInvInit
<1>4. InterlockInv /\ PressTypesNames
  BY <1>2 DEF TalkInit, XdoInit, BP!BindingInit, InterlockInv, PressTypesNames
<1>5. QED
  BY <1>1, <1>3, <1>4 DEF TalkInv, CallsInv, BP!BindingInv

LEMMA CallsInvNext == CallsInv /\ [TalkNext]_talkVars => CallsInv'
<1> SUFFICES ASSUME CallsInv, [TalkNext]_talkVars PROVE CallsInv'
  OBVIOUS
<1>1. XdoInv'
  BY TalkKeepsXdo DEF CallsInv
<1>2. BP!BindingTypeOK' /\ BP!CallInv'
  BY <1>1, BindingSteps, BindingAssumptions, BP!CallInvNext DEF CallsInv
<1>3. InterlockInv'
  BY <1>1, <1>2, InterlockNext
<1>4. QED
  BY <1>1, <1>2, <1>3 DEF CallsInv

LEMMA TalkInvNext == TalkInv /\ [TalkNext]_talkVars => TalkInv'
<1> SUFFICES ASSUME TalkInv, [TalkNext]_talkVars PROVE TalkInv'
  OBVIOUS
<1>1. CallsInv' /\ XdoInv'
  BY CallsInvNext DEF TalkInv, CallsInv
<1>2. BP!BindingInv'
  BY <1>1, BindingSteps, BindingAssumptions, BP!BindingInvNext DEF TalkInv
<1>3. QED
  BY <1>1, <1>2, PressTypesNext DEF TalkInv

LEMMA TalkInvariant == TalkSpec => []TalkInv
BY TalkInvInit, TalkInvNext, PTL DEF TalkSpec

\* Keycodes, which Down and Up call, resolves every name again over many
\* requests; the keys that are pressed still type the names of the sequence
\* wherever no other client has written since the reload (xdo.go:242-255).
THEOREM PressTypesTheorem == TalkSpec => []PressTypesNames
<1>1. TalkInv => PressTypesNames
  BY DEF TalkInv, CallsInv
<1>2. QED
  BY <1>1, TalkInvariant, PTL

\* The refinement: every step of the composition, whichever request of
\* Keycodes, KeyDown, KeyUp or Close it is, is a step of KeyBinding or leaves
\* KeyBinding's variables alone.
THEOREM KeyBindingRefinement == TalkSpec => ImplementsKeyBinding
<1>1. TalkInit => B!BindingInit
  BY DEF TalkInit
<1>2. ASSUME TalkInv, TalkInv', [TalkNext]_talkVars
      PROVE  B!BindingNext \/ UNCHANGED B!bindingVars
  <2>1. BP!BindingNext \/ UNCHANGED BP!bindingVars
    BY <1>2, BindingSteps DEF TalkInv, CallsInv
  <2>2. CASE BP!BindingNext
    BY <2>2, SameBinding
  <2>3. CASE UNCHANGED BP!bindingVars
    BY <2>3 DEF B!bindingVars, BP!bindingVars
  <2>4. QED
    BY <2>1, <2>2, <2>3
<1>3. QED
  BY <1>1, <1>2, TalkInvariant, PTL DEF TalkSpec, B!BindingSpec, ImplementsKeyBinding

\* Hence what is proved of KeyBinding holds of the composition: between calls
\* exactly the keycodes in held are pressed, until a Down comes in while other
\* keycodes are held; those in held are pressed even then; and a Down that
\* fails leaves no key pressed, unless a release or the connection fails too.
THEOREM TalkBinding ==
  TalkSpec => [](B!HeldIsDown /\ B!HeldIsPressed /\ B!FailedDownLeavesNoKey)
<1>1. TalkInv => B!HeldIsDown /\ B!HeldIsPressed
  BY DEF TalkInv, BP!BindingInv, BP!IdleInv, B!HeldIsDown, B!HeldIsPressed, B!Range, BP!Range
<1>2. TalkInv => B!FailedDownLeavesNoKey
  BY DEF TalkInv, BP!BindingInv, B!FailedDownLeavesNoKey, BP!FailedDownLeavesNoKey
<1>3. QED
  BY <1>1, <1>2, TalkInvariant, PTL
=============================================================================

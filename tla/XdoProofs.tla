------------------------------ MODULE XdoProofs ------------------------------
(***************************************************************************)
(* Proofs about Xdo, for every range of keycodes, every sequence of names, *)
(* everything other clients write and every combination of failures.       *)
(***************************************************************************)
EXTENDS Xdo, Lemmas

----------------------------------------------------------------------------
(* Lemmas about keycodes, keysyms and rows *)

LEMMA MinOfKeycodes ==
  ASSUME NEW T, T \subseteq Keycodes, T # {}
  PROVE  Min(T) \in T
<1>1. T \subseteq Nat
  BY KeycodeAssumption DEF Keycodes
<1>2. QED
  BY <1>1, LeastOfSet DEF Min

LEMMA MaxOfKeycodes ==
  ASSUME NEW T, T \subseteq Keycodes, T # {}
  PROVE  Max(T) \in T /\ \A k \in T : k <= Max(T)
<1> DEFINE below == {MaxKeycode - k : k \in T}
<1>1. \A k \in T : k \in Nat /\ MaxKeycode - k \in Nat /\ MaxKeycode \in Nat
  BY KeycodeAssumption DEF Keycodes
<1>2. below \subseteq Nat /\ below # {}
  BY <1>1
<1>3. PICK b \in below : \A c \in below : b <= c
  BY <1>2, LeastOfSet
<1>4. PICK k \in T : b = MaxKeycode - k
  BY <1>3
<1>5. \A j \in T : k >= j
  <2>1. \A j \in T : MaxKeycode - j \in below
    OBVIOUS
  <2>2. \A j \in T : MaxKeycode - k <= MaxKeycode - j
    BY <1>3, <1>4, <2>1
  <2> HIDE DEF below
  <2>3. \A j \in T : j \in Int /\ k \in Int /\ MaxKeycode \in Int
    BY <1>1
  <2>4. QED
    BY <2>2, <2>3
<1>6. Max(T) \in T /\ \A j \in T : Max(T) >= j
  BY <1>5 DEF Max
<1>7. QED
  BY <1>1, <1>6

\* NoKeycode is no keycode, and NoSymbol is no keysym of the sequence.
LEMMA NoSuchKeycode ==
  /\ NoKeycode \notin Keycodes
  /\ Wanted \subseteq Keysyms /\ NoSymbol \notin Wanted
  /\ Empty \in Rows /\ ForeignRows \subseteq Rows
  /\ \A sym \in Wanted : ScratchRow(sym) \in Rows
<1>1. NoKeycode \notin Keycodes
  BY KeycodeAssumption DEF NoKeycode, Keycodes
<1>2. Wanted \subseteq Keysyms
  BY KeysAssumption, LenProperties, ElementOfSeq DEF Wanted
<1>3. QED
  BY <1>1, <1>2, KeysymAssumption, ForeignRowsAssumption
     DEF Empty, ScratchRow, Rows

\* findBaseKeycode finds a keycode with the keysym in its base column exactly
\* when there is one.
LEMMA FindBaseFinds ==
  ASSUME NEW map, NEW sym
  PROVE  /\ FindBase(map, sym) \in Keycodes \cup {NoKeycode}
         /\ FindBase(map, sym) # NoKeycode => map[FindBase(map, sym)].base = sym
         /\ FindBase(map, sym) # NoKeycode <=> \E k \in Keycodes : map[k].base = sym
<1> DEFINE found == {k \in Keycodes : map[k].base = sym}
<1>1. FindBase(map, sym) = IF found = {} THEN NoKeycode ELSE Min(found)
  BY DEF FindBase
<1>2. found # {} => Min(found) \in found
  BY MinOfKeycodes
<1>3. QED
  BY <1>1, <1>2, NoSuchKeycode

\* findEmptyKeycode finds an empty keycode that is not reserved, or none.
LEMMA FindEmptyFinds ==
  ASSUME NEW map, NEW reserved
  PROVE  /\ FindEmpty(map, reserved) \in Keycodes \cup {NoKeycode}
         /\ FindEmpty(map, reserved) # NoKeycode =>
              /\ map[FindEmpty(map, reserved)] = Empty
              /\ FindEmpty(map, reserved) \notin reserved
<1> DEFINE free == {k \in Keycodes \ reserved : FullyEmpty(map, k)}
<1>1. FindEmpty(map, reserved) = IF free = {} THEN NoKeycode ELSE Max(free)
  BY DEF FindEmpty
<1>2. free # {} => Max(free) \in free
  BY MaxOfKeycodes
<1>3. QED
  BY <1>1, <1>2, NoSuchKeycode DEF FullyEmpty

\* It finds the highest of them.
LEMMA FindEmptyHighest ==
  ASSUME NEW map, NEW reserved, NEW k \in Keycodes \ reserved, map[k] = Empty
  PROVE  FindEmpty(map, reserved) # NoKeycode /\ k <= FindEmpty(map, reserved)
<1> DEFINE free == {j \in Keycodes \ reserved : FullyEmpty(map, j)}
<1>1. k \in free
  BY DEF FullyEmpty
<1>2. FindEmpty(map, reserved) = IF free = {} THEN NoKeycode ELSE Max(free)
  BY DEF FindEmpty
<1>3. free \subseteq Keycodes
  OBVIOUS
<1> HIDE DEF free
<1>4. Max(free) \in free /\ \A j \in free : j <= Max(free)
  BY <1>1, <1>3, MaxOfKeycodes
<1>5. QED
  BY <1>1, <1>2, <1>3, <1>4, NoSuchKeycode

\* findBaseKeycode depends on the keycodes that have the keysym alone.
LEMMA FindBaseSame ==
  ASSUME NEW map, NEW other, NEW sym,
         \A k \in Keycodes : other[k].base = sym <=> map[k].base = sym
  PROVE  FindBase(other, sym) = FindBase(map, sym)
<1>1. {k \in Keycodes : other[k].base = sym} = {k \in Keycodes : map[k].base = sym}
  OBVIOUS
<1>2. QED
  BY <1>1 DEF FindBase

----------------------------------------------------------------------------
(* The inductive invariant *)

\* The loops over the undo table visit entries of it, and only Keycodes'
\* resolving loop and its result have keycodes.
LoopInv ==
  /\ todo \subseteq Recorded
  /\ xpc \notin {"pass1", "pass2", "restore", "finalize"} => todo = {}
  /\ Len(out) <= Len(Keys)
  /\ xpc \notin {"idle", "resolve"} => out = <<>>

\* What changed stands for: the local map is the server's elsewhere, and no
\* scratch of this client is among what others have changed.
MirrorInv ==
  /\ LocalMirrorsServer
  /\ xpc = "finalize" => changed = Keycodes
  /\ alive /\ xpc \notin {"finalize", "closed"} => changed \cap mine = {}

\* A scratch of this client is the row of a keysym whose entry names it; in
\* the restoring loops the entry is one that is left to do.
MineInv ==
  /\ xpc = "new" => mine = {}
  /\ alive /\ xpc # "closed" =>
       \A k \in mine : \E s \in Recorded :
         scratches[s] = k /\ server[k] = ScratchRow(s)
  /\ xpc \in {"restore", "finalize"} /\ alive /\ ~unrestored =>
       \A k \in mine : \E s \in todo : scratches[s] = k
  /\ CloseRestores

HasBase(s) == \E k \in Keycodes : local[k].base = s

\* The entries the second pass has seen have a base mapping.
BoundInv ==
  xpc \in {"pass2", "resolve"} => \A s \in Recorded \ todo : HasBase(s)

\* What has been resolved types its keysym in the local map.
TypesInv ==
  xpc = "resolve" \/ (xpc = "idle" /\ result = "ok") =>
    \A n \in DOMAIN out : local[out[n]].base = Keys[n]

XdoInv ==
  XdoTypeOK /\ LoopInv /\ MirrorInv /\ MineInv /\ BoundInv /\ TypesInv

----------------------------------------------------------------------------
(* Types and loops *)

MapTypeOK ==
  /\ server \in [Keycodes -> Rows]
  /\ local \in [Keycodes -> Rows]
  /\ alive \in BOOLEAN
  /\ changed \subseteq Keycodes
  /\ mine \subseteq Keycodes

CallTypeOK ==
  /\ scratches \in [Wanted -> Keycodes \cup {NoKeycode}]
  /\ xpc \in Locations
  /\ todo \subseteq Wanted
  /\ out \in Seq(Keycodes)
  /\ result \in {"none", "ok", "error"}
  /\ unrestored \in BOOLEAN

LEMMA XdoTypeParts == XdoTypeOK <=> MapTypeOK /\ CallTypeOK
BY DEF XdoTypeOK, MapTypeOK, CallTypeOK

\* A request for one keycode leaves the map's variables in their types.
LEMMA RequestTypes ==
  ASSUME MapTypeOK, NEW k \in Keycodes, NEW row \in Rows,
         SetKeysyms(k, row) \/ SetKeysymsFails(k, row)
  PROVE  MapTypeOK'
BY DEF MapTypeOK, SetKeysyms, SetKeysymsFails, ServerWrites, Refused, mapVars

\* An entry that a loop has left to do names a keycode.
LEMMA TodoEntry ==
  ASSUME CallTypeOK, LoopInv, NEW sym \in todo
  PROVE  sym \in Wanted /\ sym \in Recorded /\ scratches[sym] \in Keycodes
BY DEF CallTypeOK, LoopInv, Recorded

\* Which requests the loops over the table and over the names send.
LEMMA RequestSent ==
  ASSUME CallTypeOK, LoopInv, NEW sym \in Wanted,
         \/ Release(sym) \/ Reapply(sym) \/ Rebind(sym) \/ ResolveScratch(sym)
         \/ Restore(sym)
  PROVE  \/ UNCHANGED mapVars
         \/ \E k \in Keycodes, row \in Rows :
              SetKeysyms(k, row) \/ SetKeysymsFails(k, row)
<1>1. CASE Release(sym) \/ Reapply(sym) \/ Restore(sym)
  <2>1. scratches[sym] \in Keycodes
    BY <1>1, TodoEntry DEF Release, Reapply, Restore, InPass1
  <2>2. QED
    BY <1>1, <2>1, NoSuchKeycode DEF Release, Reapply, Restore, Pass1Request
<1>2. CASE Rebind(sym) \/ ResolveScratch(sym)
  <2>1. PICK free \in Keycodes \cup {NoKeycode} : BindOk(sym, free) \/ BindFails(sym, free)
    BY <1>2, FindEmptyFinds DEF Rebind, ResolveScratch
  <2>2. QED
    BY <2>1, NoSuchKeycode DEF BindOk, BindFails
<1>3. QED
  BY <1>1, <1>2

LEMMA MapTypesNext ==
  ASSUME MapTypeOK, CallTypeOK, LoopInv, [Next]_xdoVars
  PROVE  MapTypeOK'
<1> USE DEF MapTypeOK
<1>1. CASE UNCHANGED mapVars
  BY <1>1 DEF mapVars
<1>2. CASE Open \/ Refresh \/ RefreshFails \/ Drop
  BY <1>2, NoSuchKeycode DEF Open, Refresh, RefreshFails, Refused, Drop, mapVars
<1>3. ASSUME NEW sym \in Wanted,
             \/ Release(sym) \/ Reapply(sym) \/ Rebind(sym) \/ ResolveScratch(sym)
             \/ Restore(sym)
      PROVE  MapTypeOK'
  BY <1>1, <1>3, RequestSent, RequestTypes
<1>4. ASSUME NEW sym \in Wanted, Finalize(sym)
      PROVE  MapTypeOK'
  BY <1>4, TodoEntry, RequestTypes, NoSuchKeycode DEF Finalize, ServerWrites
<1>5. ASSUME NEW k \in Keycodes, NEW row \in ForeignRows, Remap(k, row)
      PROVE  MapTypeOK'
  BY <1>5, NoSuchKeycode DEF Remap
<1>6. ASSUME NEW sym \in Wanted,
             \/ Forget(sym) \/ Skip(sym) \/ Bound(sym)
             \/ ResolveBase(sym) \/ ResolveOnNonBase(sym)
      PROVE  UNCHANGED mapVars
  BY <1>6 DEF Forget, Skip, Bound, ResolveBase, ResolveOnNonBase
<1>7. ASSUME \/ OpenFails \/ Pass1Done \/ Pass2Done \/ KeycodesReturns
             \/ CloseStarts \/ CloseReturns \/ Closed \/ UNCHANGED xdoVars
      PROVE  UNCHANGED mapVars
  BY <1>7 DEF OpenFails, Pass1Done, Pass2Done, KeycodesReturns, CloseStarts,
     CloseReturns, Closed, xdoVars
<1>8. QED
  BY <1>1, <1>2, <1>3, <1>4, <1>5, <1>6, <1>7 DEF Next, XdoNext, KeycodesNext

\* Dropping an entry of the table that a loop has done leaves the rest of what
\* it has left to do in the table, as does giving it another keycode.
LEMMA EntryDone ==
  ASSUME CallTypeOK, LoopInv, NEW sym \in Wanted,
         NEW k \in Keycodes \cup {NoKeycode},
         scratches' = [scratches EXCEPT ![sym] = k],
         k # NoKeycode \/ todo' = todo \ {sym},
         todo' \subseteq todo
  PROVE  /\ scratches' \in [Wanted -> Keycodes \cup {NoKeycode}]
         /\ todo' \subseteq Recorded'
BY NoSuchKeycode DEF CallTypeOK, LoopInv, Recorded

\* A call that returns has no loop, and no keycodes after an error.
LEMMA ReturnLoops ==
  ASSUME CallTypeOK, LoopInv, NEW r \in {"ok", "error"}, Returns(r),
         UNCHANGED <<scratches, unrestored>>
  PROVE  CallTypeOK' /\ LoopInv'
<1>1. out' \in Seq(Keycodes) /\ Len(out') <= Len(Keys)
  BY KeysAssumption, EmptySeq, LenProperties DEF CallTypeOK, LoopInv, Returns
<1>2. QED
  BY <1>1 DEF CallTypeOK, LoopInv, Returns, Locations, Recorded

LEMMA LoopInvNext ==
  ASSUME MapTypeOK, CallTypeOK, LoopInv, [Next]_xdoVars
  PROVE  CallTypeOK' /\ LoopInv'
<1>0. /\ Len(Keys) \in Nat /\ Len(Keys) >= 0
      /\ <<>> \in Seq(Keycodes) /\ Len(<<>>) = 0
  BY KeysAssumption, EmptySeq, LenProperties
<1>1. CASE UNCHANGED <<scratches, xpc, todo, out, result, unrestored>>
  BY <1>1 DEF CallTypeOK, LoopInv, Recorded
<1>2. CASE Open \/ OpenFails
  BY <1>2 DEF Open, OpenFails, CallTypeOK, LoopInv, Recorded, Locations
<1>3. CASE Refresh \/ Drop \/ CloseStarts
  BY <1>0, <1>3
     DEF Refresh, Drop, CloseStarts, CallTypeOK, LoopInv, Recorded, Locations
<1>4. CASE RefreshFails \/ KeycodesReturns
  BY <1>4, ReturnLoops DEF RefreshFails, KeycodesReturns
<1>5. ASSUME NEW sym \in Wanted, Release(sym) \/ Reapply(sym)
      PROVE  CallTypeOK' /\ LoopInv'
  <2>1. xpc = "pass1" /\ sym \in todo /\ scratches[sym] \in Keycodes
    BY <1>5, TodoEntry DEF Release, Reapply, InPass1
  <2>2. PICK row \in Rows, k \in {NoKeycode, scratches[sym]} :
          Pass1Request(sym, row, k)
    BY <1>5, NoSuchKeycode DEF Release, Reapply
  <2>3. CASE Returns("error") /\ UNCHANGED <<scratches, unrestored>>
    BY <2>3, ReturnLoops
  <2>4. CASE /\ scratches' = [scratches EXCEPT ![sym] = k]
             /\ todo' = todo \ {sym}
             /\ UNCHANGED <<xpc, result, out, unrestored>>
    BY <2>1, <2>4, EntryDone DEF CallTypeOK, LoopInv
  <2>5. QED
    BY <2>2, <2>3, <2>4 DEF Pass1Request
<1>6. ASSUME NEW sym \in Wanted, Forget(sym)
      PROVE  CallTypeOK' /\ LoopInv'
  BY <1>6, EntryDone DEF Forget, InPass1, CallTypeOK, LoopInv
<1>7. ASSUME NEW sym \in Wanted,
             Skip(sym) \/ Bound(sym) \/ Restore(sym) \/ Finalize(sym)
      PROVE  CallTypeOK' /\ LoopInv'
  <2>1. /\ xpc \in {"pass1", "pass2", "restore", "finalize"}
        /\ todo' = todo \ {sym}
        /\ UNCHANGED <<scratches, xpc, out, result>>
        /\ unrestored' \in {unrestored, TRUE}
    BY <1>7 DEF Skip, InPass1, Bound, InPass2, Restore, Finalize
  <2>2. QED
    BY <2>1 DEF CallTypeOK, LoopInv, Recorded
<1>8. CASE Pass1Done \/ Pass2Done
  BY <1>8 DEF Pass1Done, Pass2Done, CallTypeOK, LoopInv, Recorded, Locations
<1>9. ASSUME NEW sym \in Wanted, Rebind(sym)
      PROVE  CallTypeOK' /\ LoopInv'
  <2>1. PICK free \in Keycodes \cup {NoKeycode} :
          \/ /\ BindOk(sym, free)
             /\ todo' = todo \ {sym}
             /\ UNCHANGED <<xpc, result, out, unrestored>>
          \/ BindFails(sym, free)
    BY <1>9, FindEmptyFinds DEF Rebind
  <2>2. CASE BindFails(sym, free)
    BY <2>2, ReturnLoops DEF BindFails
  <2>3. CASE /\ BindOk(sym, free)
             /\ todo' = todo \ {sym}
             /\ UNCHANGED <<xpc, result, out, unrestored>>
    BY <1>9, <2>3, EntryDone DEF BindOk, Rebind, InPass2, CallTypeOK, LoopInv
  <2>4. QED
    BY <2>1, <2>2, <2>3
<1>10. ASSUME NEW sym \in Wanted, ResolveBase(sym)
       PROVE  CallTypeOK' /\ LoopInv'
  <2>1. out' \in Seq(Keycodes) /\ Len(out') = Len(out) + 1 /\ Len(out) \in Nat
    BY <1>10, FindBaseFinds, AppendProperties, LenProperties
       DEF ResolveBase, CallTypeOK
  <2>2. Len(out') <= Len(Keys)
    BY <1>0, <1>10, <2>1 DEF ResolveBase, Resolving
  <2>3. QED
    BY <1>10, <2>1, <2>2 DEF ResolveBase, Resolving, CallTypeOK, LoopInv, Recorded
<1>11. ASSUME NEW sym \in Wanted, ResolveOnNonBase(sym)
       PROVE  CallTypeOK' /\ LoopInv'
  BY <1>11, ReturnLoops DEF ResolveOnNonBase
<1>12. ASSUME NEW sym \in Wanted, ResolveScratch(sym)
       PROVE  CallTypeOK' /\ LoopInv'
  <2>1. PICK free \in Keycodes \cup {NoKeycode} :
          \/ /\ BindOk(sym, free)
             /\ out' = Append(out, free)
             /\ UNCHANGED <<xpc, todo, result, unrestored>>
          \/ BindFails(sym, free)
    BY <1>12, FindEmptyFinds DEF ResolveScratch
  <2>2. CASE BindFails(sym, free)
    BY <2>2, ReturnLoops DEF BindFails
  <2>3. CASE /\ BindOk(sym, free)
             /\ out' = Append(out, free)
             /\ UNCHANGED <<xpc, todo, result, unrestored>>
    <3>1. free \in Keycodes
      BY <2>3 DEF BindOk
    <3>2. out' \in Seq(Keycodes) /\ Len(out') = Len(out) + 1 /\ Len(out) \in Nat
      BY <2>3, <3>1, AppendProperties, LenProperties DEF CallTypeOK
    <3>3. Len(out') <= Len(Keys)
      BY <1>0, <1>12, <3>2 DEF ResolveScratch, Resolving
    <3>4. xpc = "resolve" /\ scratches' = [scratches EXCEPT ![sym] = free]
      BY <1>12, <2>3 DEF ResolveScratch, Resolving, BindOk
    <3>5. scratches' \in [Wanted -> Keycodes \cup {NoKeycode}] /\ todo' \subseteq Recorded'
      BY <2>3, <3>1, <3>4, EntryDone, NoSuchKeycode
    <3>6. QED
      BY <2>3, <3>2, <3>3, <3>4, <3>5 DEF CallTypeOK, LoopInv
  <2>4. QED
    BY <2>1, <2>2, <2>3
<1>13. CASE CloseReturns
  BY <1>13 DEF CloseReturns, CallTypeOK, LoopInv, Recorded, Locations
<1>14. ASSUME NEW k \in Keycodes, NEW row \in ForeignRows, Remap(k, row)
       PROVE  CallTypeOK' /\ LoopInv'
  BY <1>1, <1>14 DEF Remap
<1>15. CASE Closed \/ UNCHANGED xdoVars
  BY <1>1, <1>15 DEF Closed, xdoVars
<1>16. QED
  BY <1>2, <1>3, <1>4, <1>5, <1>6, <1>7, <1>8, <1>9, <1>10, <1>11, <1>12,
     <1>13, <1>14, <1>15 DEF Next, XdoNext, KeycodesNext

LEMMA TypeInit == XdoInit => XdoTypeOK /\ LoopInv
<1>1. Len(Keys) \in Nat /\ <<>> \in Seq(Keycodes) /\ Len(<<>>) = 0
  BY KeysAssumption, EmptySeq, LenProperties
<1>2. XdoInit => MapTypeOK
  <2>1. TRUE \in BOOLEAN
    OBVIOUS
  <2>2. XdoInit => server \in [Keycodes -> Rows]
    BY NoSuchKeycode DEF XdoInit
  <2>3. QED
    BY <2>1, <2>2, Zenon DEF XdoInit, MapTypeOK
<1>3. XdoInit => CallTypeOK /\ LoopInv
  <2>1. XdoInit => unrestored \in BOOLEAN
    BY DEF XdoInit
  <2>2. QED
    BY <1>1, <2>1, NoSuchKeycode DEF XdoInit, CallTypeOK, LoopInv, Recorded, Locations
<1>4. QED
  BY <1>2, <1>3, XdoTypeParts

----------------------------------------------------------------------------
(* The local map *)

\* A request that succeeds is seen by both maps, one that fails by neither or
\* by a keycode in changed.
LEMMA RequestMirrors ==
  ASSUME MapTypeOK, NEW k \in Keycodes, NEW row \in Rows,
         SetKeysyms(k, row) \/ SetKeysymsFails(k, row)
  PROVE  /\ (\A j \in Keycodes \ changed : local[j] = server[j])
              => (\A j \in Keycodes \ changed' : local'[j] = server'[j])
         /\ alive' /\ changed \cap mine = {} => changed' \cap mine' = {}
BY DEF MapTypeOK, SetKeysyms, SetKeysymsFails, ServerWrites, Refused, mapVars

LEMMA MirrorInvNext ==
  ASSUME MapTypeOK, CallTypeOK, LoopInv, MirrorInv, [Next]_xdoVars
  PROVE  MirrorInv'
<1> USE DEF MirrorInv, LocalMirrorsServer
<1>1. CASE UNCHANGED <<mapVars, xpc>>
  BY <1>1 DEF mapVars
<1>2. CASE Open \/ Refresh \/ Drop
  BY <1>2 DEF Open, Refresh, Drop
<1>3. CASE OpenFails \/ CloseReturns
  BY <1>3 DEF OpenFails, CloseReturns, mapVars
<1>4. CASE RefreshFails
  BY <1>4 DEF RefreshFails, Refused, Returns, mapVars
<1>5. ASSUME NEW sym \in Wanted,
             \/ Release(sym) \/ Reapply(sym) \/ Rebind(sym) \/ ResolveScratch(sym)
             \/ Restore(sym)
      PROVE  MirrorInv'
  <2>1. /\ xpc \in {"pass1", "pass2", "resolve", "restore"}
        /\ xpc' \in {xpc, "idle"}
    BY <1>5 DEF Release, Reapply, InPass1, Rebind, InPass2, ResolveScratch, Resolving,
       Restore, Pass1Request, BindFails, Returns
  <2>2. CASE UNCHANGED mapVars
    BY <2>1, <2>2 DEF mapVars
  <2>3. ASSUME NEW k \in Keycodes, NEW row \in Rows,
               SetKeysyms(k, row) \/ SetKeysymsFails(k, row)
        PROVE  MirrorInv'
    <3>1. alive' => alive
      BY <2>3 DEF SetKeysyms, SetKeysymsFails, Refused, mapVars
    <3>2. QED
      BY <2>1, <2>3, <3>1, RequestMirrors
  <2>4. QED
    BY <1>5, <2>2, <2>3, RequestSent
<1>6. ASSUME NEW sym \in Wanted, Finalize(sym)
      PROVE  MirrorInv'
  BY <1>6, TodoEntry
     DEF Finalize, SetKeysymsFails, Refused, ServerWrites, mapVars, MapTypeOK
<1>7. ASSUME NEW sym \in Wanted,
             \/ Forget(sym) \/ Skip(sym) \/ Bound(sym)
             \/ ResolveBase(sym) \/ ResolveOnNonBase(sym)
      PROVE  MirrorInv'
  BY <1>7 DEF Forget, Skip, InPass1, Bound, InPass2, ResolveBase,
     ResolveOnNonBase, Resolving, Returns, mapVars
<1>8. CASE Pass1Done \/ Pass2Done \/ KeycodesReturns \/ CloseStarts
  BY <1>8 DEF Pass1Done, Pass2Done, KeycodesReturns, CloseStarts, Returns, mapVars
<1>9. ASSUME NEW k \in Keycodes, NEW row \in ForeignRows, Remap(k, row)
      PROVE  MirrorInv'
  BY <1>9 DEF Remap, MapTypeOK
<1>10. CASE Closed \/ UNCHANGED xdoVars
  BY <1>1, <1>10 DEF Closed, xdoVars
<1>11. QED
  BY <1>2, <1>3, <1>4, <1>5, <1>6, <1>7, <1>8, <1>9, <1>10
     DEF Next, XdoNext, KeycodesNext

----------------------------------------------------------------------------
(* The scratches *)

\* The first part of MineInv, in a state where it matters.
Witnessed == \A k \in mine : \E s \in Recorded :
               scratches[s] = k /\ server[k] = ScratchRow(s)

\* A scratch whose keysym the local map lacks is on no keycode of mine.
LEMMA LostScratch ==
  ASSUME MapTypeOK, Witnessed, changed \cap mine = {},
         \A k \in Keycodes \ changed : local[k] = server[k],
         NEW sym \in Wanted, NEW k \in mine, local[k].base # sym
  PROVE  \E s \in Recorded \ {sym} : scratches[s] = k /\ server[k] = ScratchRow(s)
<1>1. PICK s \in Recorded : scratches[s] = k /\ server[k] = ScratchRow(s)
  BY DEF Witnessed
<1>2. local[k].base = s
  BY <1>1 DEF MapTypeOK, ScratchRow
<1>3. QED
  BY <1>1, <1>2

\* A binding to an empty keycode is recorded, and nothing else is lost.
LEMMA BindWitnessed ==
  ASSUME MapTypeOK, CallTypeOK, Witnessed, changed \cap mine = {},
         \A k \in Keycodes \ changed : local[k] = server[k],
         NEW sym \in Wanted, FindBase(local, sym) = NoKeycode,
         NEW free \in Keycodes \cup {NoKeycode}, BindOk(sym, free)
  PROVE  Witnessed'
<1>1. /\ free \in Keycodes
      /\ server' = [server EXCEPT ![free] = ScratchRow(sym)]
      /\ mine' \subseteq mine \cup {free}
      /\ scratches' = [scratches EXCEPT ![sym] = free]
  BY DEF BindOk, SetKeysyms, ServerWrites
<1>2. \A k \in Keycodes : local[k].base # sym
  BY FindBaseFinds
<1>3. ASSUME NEW k \in mine', k # free
      PROVE  \E s \in Recorded' : scratches'[s] = k /\ server'[k] = ScratchRow(s)
  <2>1. k \in mine /\ k \in Keycodes /\ server'[k] = server[k]
    BY <1>1, <1>3 DEF MapTypeOK
  <2>2. PICK s \in Recorded \ {sym} : scratches[s] = k /\ server[k] = ScratchRow(s)
    BY <1>2, <2>1, LostScratch
  <2>3. scratches'[s] = scratches[s] /\ s \in Recorded'
    BY <1>1, <2>2 DEF Recorded
  <2>4. QED
    BY <2>1, <2>2, <2>3
<1>4. /\ sym \in Recorded' /\ scratches'[sym] = free
      /\ server'[free] = ScratchRow(sym)
  BY <1>1, NoSuchKeycode DEF MapTypeOK, CallTypeOK, Recorded
<1>5. QED
  BY <1>3, <1>4 DEF Witnessed

\* A request of the first pass keeps every other scratch and its entry.
LEMMA Pass1Witnessed ==
  ASSUME MapTypeOK, CallTypeOK, Witnessed,
         NEW sym \in Recorded, NEW row, NEW k,
         SetKeysyms(scratches[sym], row),
         scratches' = [scratches EXCEPT ![sym] = k],
         \/ row = Empty /\ k = NoKeycode
         \/ row = ScratchRow(sym) /\ k = scratches[sym]
  PROVE  Witnessed'
<1>1. sym \in Wanted /\ scratches[sym] \in Keycodes
  BY DEF Recorded, CallTypeOK
<1>2. /\ server' = [server EXCEPT ![scratches[sym]] = row]
      /\ mine' = IF row = Empty THEN mine \ {scratches[sym]} ELSE mine \cup {scratches[sym]}
  BY DEF SetKeysyms, ServerWrites
<1>3. ASSUME NEW j \in mine', j # scratches[sym]
      PROVE  \E s \in Recorded' : scratches'[s] = j /\ server'[j] = ScratchRow(s)
  <2>1. j \in mine /\ server'[j] = server[j]
    BY <1>2, <1>3 DEF MapTypeOK
  <2>2. PICK s \in Recorded : scratches[s] = j /\ server[j] = ScratchRow(s)
    BY <2>1 DEF Witnessed
  <2>3. s # sym /\ scratches'[s] = scratches[s] /\ s \in Recorded'
    BY <1>3, <2>2 DEF Recorded
  <2>4. QED
    BY <2>1, <2>2, <2>3
<1>4. CASE row = Empty
  BY <1>2, <1>3, <1>4 DEF Witnessed
<1>5. CASE row = ScratchRow(sym) /\ k = scratches[sym]
  <2>1. sym \in Recorded' /\ scratches'[sym] = scratches[sym]
        /\ server'[scratches[sym]] = ScratchRow(sym)
    BY <1>1, <1>2, <1>5 DEF Recorded, CallTypeOK, MapTypeOK
  <2>2. QED
    BY <1>3, <2>1 DEF Witnessed
<1>6. QED
  BY <1>4, <1>5

\* The connection never comes back.
LEMMA AliveStays ==
  ASSUME [Next]_xdoVars, alive'
  PROVE  alive
BY DEF Next, XdoNext, KeycodesNext, Open, OpenFails, Refresh, RefreshFails, Release,
   Forget, Reapply, Skip, Bound, Rebind, ResolveBase, ResolveOnNonBase, ResolveScratch,
   Pass1Done, Pass2Done, KeycodesReturns, CloseStarts, Drop, CloseReturns, Restore,
   Finalize, Remap, Closed, Pass1Request, BindOk, BindFails, SetKeysyms,
   SetKeysymsFails, Refused, xdoVars, mapVars

\* In the loops that restore, a request takes its keycode off the list and,
\* when it succeeds, the scratch off the keycode.
LEMMA RestoreKeepsMine ==
  ASSUME MapTypeOK, CallTypeOK, LoopInv, MineInv,
         NEW sym \in Wanted, Restore(sym) \/ Finalize(sym)
  PROVE  MineInv'
<1>1. /\ xpc \in {"restore", "finalize"} /\ xpc' = xpc
      /\ sym \in todo /\ todo' = todo \ {sym}
      /\ scratches' = scratches /\ Recorded' = Recorded
  BY DEF Restore, Finalize, Recorded
<1>2. scratches[sym] \in Keycodes
  BY <1>1, TodoEntry
<1>3. alive' => /\ alive
                /\ \/ /\ server' = [server EXCEPT ![scratches[sym]] = Empty]
                      /\ mine' = mine \ {scratches[sym]}
                   \/ UNCHANGED <<server, mine>> /\ unrestored' = TRUE
  BY DEF Restore, Finalize, SetKeysyms, SetKeysymsFails, ServerWrites, Refused, mapVars
<1>4. alive' => \A k \in mine' : \E s \in Recorded' :
                  scratches'[s] = k /\ server'[k] = ScratchRow(s)
  BY <1>1, <1>3 DEF MineInv, MapTypeOK
<1>5. unrestored => unrestored'
  BY DEF Restore, Finalize
<1>6. alive' /\ ~unrestored' => \A k \in mine' : \E s \in todo' : scratches'[s] = k
  BY <1>1, <1>3, <1>5 DEF MineInv
<1>7. QED
  BY <1>1, <1>4, <1>6 DEF MineInv, CloseRestores

\* What the loops of Keycodes do to the scratches.
LEMMA KeycodesKeepMine ==
  ASSUME MapTypeOK, CallTypeOK, LoopInv, MirrorInv, MineInv,
         [Next]_xdoVars, KeycodesNext
  PROVE  MineInv'
<1>1. xpc \in {"pass1", "pass2", "resolve"} /\ xpc' \in {"pass1", "pass2", "resolve", "idle"}
  BY DEF KeycodesNext, Release, Forget, Reapply, Skip, InPass1, Bound, Rebind, InPass2,
     ResolveBase, ResolveOnNonBase, ResolveScratch, Resolving, Pass1Done, Pass2Done,
     KeycodesReturns, Pass1Request, BindFails, Returns
<1>2. SUFFICES ASSUME alive' PROVE Witnessed'
  BY <1>1 DEF MineInv, CloseRestores, Witnessed
<1>3. /\ alive /\ Witnessed /\ changed \cap mine = {}
      /\ \A k \in Keycodes \ changed : local[k] = server[k]
  BY <1>1, <1>2, AliveStays DEF MineInv, MirrorInv, LocalMirrorsServer, Witnessed
<1>4. CASE UNCHANGED <<server, mine, scratches>>
  BY <1>3, <1>4 DEF Witnessed, Recorded
<1>5. ASSUME NEW sym \in Wanted, Release(sym) \/ Reapply(sym)
      PROVE  Witnessed'
  <2>1. sym \in Recorded
    BY <1>5, TodoEntry DEF Release, Reapply, InPass1
  <2>2. CASE UNCHANGED <<server, mine, scratches>>
    BY <1>4, <2>2
  <2>3. PICK row, k : /\ \/ row = Empty /\ k = NoKeycode
                         \/ row = ScratchRow(sym) /\ k = scratches[sym]
                      /\ Pass1Request(sym, row, k)
    BY <1>5 DEF Release, Reapply
  <2>4. CASE /\ SetKeysyms(scratches[sym], row)
             /\ scratches' = [scratches EXCEPT ![sym] = k]
    BY <1>3, <2>1, <2>3, <2>4, Pass1Witnessed
  <2>5. QED
    BY <1>2, <2>2, <2>3, <2>4 DEF Pass1Request, SetKeysymsFails, Refused, mapVars
<1>6. ASSUME NEW sym \in Wanted, Forget(sym)
      PROVE  Witnessed'
  <2>1. /\ scratches' = [scratches EXCEPT ![sym] = NoKeycode]
        /\ UNCHANGED <<server, mine>>
        /\ local[scratches[sym]].base # sym
    BY <1>6 DEF Forget, mapVars
  <2>2. ASSUME NEW k \in mine
        PROVE  \E s \in Recorded \ {sym} : scratches[s] = k /\ server[k] = ScratchRow(s)
    <3>1. CASE k = scratches[sym]
      BY <1>3, <2>1, <3>1, LostScratch
    <3>2. CASE k # scratches[sym]
      BY <1>3, <3>2 DEF Witnessed
    <3>3. QED
      BY <3>1, <3>2
  <2>3. \A s \in Recorded \ {sym} : s \in Recorded' /\ scratches'[s] = scratches[s]
    BY <2>1 DEF Recorded
  <2>4. QED
    BY <2>1, <2>2, <2>3 DEF Witnessed
<1>7. ASSUME NEW sym \in Wanted, Rebind(sym) \/ ResolveScratch(sym)
      PROVE  Witnessed'
  <2>1. FindBase(local, sym) = NoKeycode
    BY <1>7 DEF Rebind, ResolveScratch
  <2>2. PICK free \in Keycodes \cup {NoKeycode} : BindOk(sym, free) \/ BindFails(sym, free)
    BY <1>7, FindEmptyFinds DEF Rebind, ResolveScratch
  <2>3. CASE BindOk(sym, free)
    BY <1>3, <2>1, <2>3, BindWitnessed
  <2>4. CASE BindFails(sym, free)
    BY <1>2, <1>4, <2>4 DEF BindFails, SetKeysymsFails, Refused, mapVars
  <2>5. QED
    BY <2>2, <2>3, <2>4
<1>8. ASSUME NEW sym \in Wanted,
             Skip(sym) \/ Bound(sym) \/ ResolveBase(sym) \/ ResolveOnNonBase(sym)
      PROVE  Witnessed'
  BY <1>4, <1>8 DEF Skip, Bound, ResolveBase, ResolveOnNonBase, mapVars
<1>9. CASE Pass1Done \/ Pass2Done \/ KeycodesReturns
  BY <1>4, <1>9 DEF Pass1Done, Pass2Done, KeycodesReturns, mapVars
<1>10. QED
  BY <1>5, <1>6, <1>7, <1>8, <1>9 DEF KeycodesNext

LEMMA MineInvNext ==
  ASSUME MapTypeOK, CallTypeOK, LoopInv, MirrorInv, MineInv, [Next]_xdoVars
  PROVE  MineInv'
<1>1. CASE KeycodesNext
  BY <1>1, KeycodesKeepMine
<1>2. ASSUME NEW sym \in Wanted, Restore(sym) \/ Finalize(sym)
      PROVE  MineInv'
  BY <1>2, RestoreKeepsMine
<1>3. CASE Open \/ OpenFails \/ Refresh \/ RefreshFails
  BY <1>3 DEF Open, OpenFails, Refresh, RefreshFails, Refused, Returns, mapVars,
     MineInv, CloseRestores, Recorded
<1>4. CASE CloseStarts \/ Drop
  BY <1>4 DEF CloseStarts, Drop, mapVars, MineInv, CloseRestores, Recorded
<1>5. CASE CloseReturns
  BY <1>5 DEF CloseReturns, mapVars, MineInv, CloseRestores
<1>6. ASSUME xpc # "closed", NEW k \in Keycodes, NEW row \in ForeignRows, Remap(k, row)
      PROVE  MineInv'
  BY <1>6 DEF Remap, MineInv, CloseRestores, Recorded, MapTypeOK
<1>7. CASE Closed \/ UNCHANGED xdoVars
  BY <1>7 DEF Closed, xdoVars, mapVars, MineInv, CloseRestores, Recorded
<1>8. QED
  BY <1>1, <1>2, <1>3, <1>4, <1>5, <1>6, <1>7 DEF Next, XdoNext

----------------------------------------------------------------------------
(* What has been resolved *)

\* A binding leaves every row that has a keysym in its base column alone.
LEMMA BindKeepsBases ==
  ASSUME MapTypeOK, NEW sym \in Wanted, NEW reserved,
         BindOk(sym, FindEmpty(local, reserved))
  PROVE  /\ \A k \in Keycodes : local[k].base # NoSymbol => local'[k] = local[k]
         /\ FindEmpty(local, reserved) \in Keycodes
         /\ local'[FindEmpty(local, reserved)].base = sym
<1> DEFINE free == FindEmpty(local, reserved)
<1>1. free \in Keycodes /\ local[free] = Empty
  BY FindEmptyFinds DEF BindOk
<1>2. local' = [local EXCEPT ![free] = ScratchRow(sym)]
  BY DEF BindOk, SetKeysyms
<1> HIDE DEF free
<1>3. /\ \A k \in Keycodes : local[k].base # NoSymbol => local'[k] = local[k]
      /\ local'[free].base = sym
  BY <1>1, <1>2 DEF MapTypeOK, Empty, ScratchRow
<1>4. QED
  BY <1>1, <1>3 DEF free

LEMMA BoundInvNext ==
  ASSUME MapTypeOK, CallTypeOK, LoopInv, BoundInv, [Next]_xdoVars
  PROVE  BoundInv'
<1>1. CASE xpc' \notin {"pass2", "resolve"}
  BY <1>1 DEF BoundInv
<1>2. CASE UNCHANGED <<local, scratches, xpc, todo>>
  BY <1>2 DEF BoundInv, HasBase, Recorded
<1>3. CASE Pass1Done \/ Pass2Done
  BY <1>3 DEF Pass1Done, Pass2Done, BoundInv, HasBase, Recorded, mapVars
<1>4. ASSUME NEW sym \in Wanted, Bound(sym)
      PROVE  BoundInv'
  <2>1. HasBase(sym)
    BY <1>4, FindBaseFinds DEF Bound, HasBase
  <2>2. QED
    BY <1>4, <2>1 DEF Bound, InPass2, BoundInv, HasBase, Recorded, mapVars
<1>5. ASSUME NEW sym \in Wanted, Rebind(sym) \/ ResolveScratch(sym)
      PROVE  BoundInv'
  <2>1. PICK reserved : \/ BindOk(sym, FindEmpty(local, reserved))
                        \/ BindFails(sym, FindEmpty(local, reserved))
    BY <1>5 DEF Rebind, ResolveScratch
  <2>2. CASE xpc' = "idle"
    BY <1>1, <2>2
  <2>3. CASE BindOk(sym, FindEmpty(local, reserved)) /\ xpc' # "idle"
    <3>1. /\ xpc \in {"pass2", "resolve"} /\ todo' \in {todo, todo \ {sym}}
          /\ xpc = "resolve" => todo = {}
          /\ sym \notin todo \/ todo' = todo \ {sym}
      BY <1>5, <2>3
         DEF Rebind, InPass2, ResolveScratch, Resolving, BindFails, Returns, LoopInv
    <3>2. \A s \in Recorded' \ {sym} : s \in Recorded
      BY <2>3 DEF BindOk, Recorded
    <3>3. \A s \in Recorded \ todo : HasBase(s) => HasBase(s)'
      BY <2>3, BindKeepsBases, NoSuchKeycode DEF HasBase, Recorded
    <3>4. HasBase(sym)'
      BY <2>3, BindKeepsBases DEF HasBase
    <3>5. QED
      BY <3>1, <3>2, <3>3, <3>4 DEF BoundInv
  <2>4. QED
    BY <2>1, <2>2, <2>3 DEF BindFails, Returns
<1>6. ASSUME NEW sym \in Wanted, ResolveBase(sym) \/ ResolveOnNonBase(sym)
      PROVE  BoundInv'
  BY <1>1, <1>2, <1>6 DEF ResolveBase, ResolveOnNonBase, Returns, mapVars
<1>7. ASSUME NEW sym \in Wanted,
             \/ Release(sym) \/ Reapply(sym) \/ Forget(sym) \/ Skip(sym)
             \/ Restore(sym) \/ Finalize(sym)
      PROVE  BoundInv'
  BY <1>1, <1>7 DEF Release, Reapply, Pass1Request, Returns, Forget, Skip, InPass1,
     Restore, Finalize
<1>8. CASE \/ Open \/ OpenFails \/ Refresh \/ RefreshFails \/ KeycodesReturns
           \/ CloseStarts \/ Drop \/ CloseReturns
  BY <1>1, <1>8 DEF Open, OpenFails, Refresh, RefreshFails, KeycodesReturns, Returns,
     CloseStarts, Drop, CloseReturns
<1>9. ASSUME NEW k \in Keycodes, NEW row \in ForeignRows, Remap(k, row)
      PROVE  BoundInv'
  BY <1>2, <1>9 DEF Remap
<1>10. CASE Closed \/ UNCHANGED xdoVars
  BY <1>2, <1>10 DEF Closed, xdoVars, mapVars
<1>11. QED
  BY <1>3, <1>4, <1>5, <1>6, <1>7, <1>8, <1>9, <1>10 DEF Next, XdoNext, KeycodesNext

\* One more keycode that types its keysym.
LEMMA ResolvedOneMore ==
  ASSUME CallTypeOK, TypesInv, NEW sym \in Wanted, Resolving(sym),
         NEW k \in Keycodes, out' = Append(out, k), local'[k].base = sym,
         \A j \in Keycodes : local[j].base # NoSymbol => local'[j] = local[j]
  PROVE  TypesInv'
<1>1. /\ Len(out) \in Nat /\ DOMAIN out = 1 .. Len(out)
      /\ DOMAIN out' = 1 .. Len(out) + 1
      /\ out'[Len(out) + 1] = k
      /\ \A n \in 1 .. Len(out) : out'[n] = out[n] /\ out[n] \in Keycodes
  BY AppendProperties, LenProperties, ElementOfSeq DEF CallTypeOK
<1>2. xpc = "resolve" /\ Len(out) + 1 <= Len(Keys) /\ sym = Keys[Len(out) + 1]
  BY <1>1, KeysAssumption, LenProperties DEF Resolving
<1>3. ASSUME NEW n \in 1 .. Len(out)
      PROVE  local'[out'[n]].base = Keys[n]
  <2>1. local[out[n]].base = Keys[n] /\ out'[n] = out[n] /\ out[n] \in Keycodes
    BY <1>1, <1>2 DEF TypesInv
  <2>2. n \in 1 .. Len(Keys)
    BY <1>1, <1>2, KeysAssumption, LenProperties
  <2>3. Keys[n] # NoSymbol
    BY <2>2, KeysAssumption, KeysymAssumption, ElementOfSeq
  <2>4. QED
    BY <2>1, <2>3
<1>4. \A n \in 1 .. Len(out) + 1 : n \in 1 .. Len(out) \/ n = Len(out) + 1
  BY <1>1
<1>5. QED
  BY <1>1, <1>2, <1>3, <1>4 DEF TypesInv

LEMMA TypesInvNext ==
  ASSUME MapTypeOK, CallTypeOK, LoopInv, TypesInv, [Next]_xdoVars
  PROVE  TypesInv'
<1>1. CASE out' = <<>>
  <2>1. DOMAIN out' = {}
    BY <1>1
  <2>2. QED
    BY <2>1 DEF TypesInv
<1>2. CASE xpc' \notin {"idle", "resolve"}
  BY <1>2 DEF TypesInv
<1>3. CASE UNCHANGED <<local, out, xpc, result>>
  BY <1>3 DEF TypesInv
<1>4. ASSUME NEW sym \in Wanted, ResolveBase(sym)
      PROVE  TypesInv'
  BY <1>4, FindBaseFinds, ResolvedOneMore DEF ResolveBase, mapVars
<1>5. ASSUME NEW sym \in Wanted, ResolveScratch(sym)
      PROVE  TypesInv'
  <2>1. CASE BindFails(sym, FindEmpty(local, Reserved))
    BY <1>1, <2>1 DEF BindFails, Returns
  <2>2. CASE /\ BindOk(sym, FindEmpty(local, Reserved))
             /\ out' = Append(out, FindEmpty(local, Reserved))
    BY <1>5, <2>2, BindKeepsBases, ResolvedOneMore DEF ResolveScratch
  <2>3. QED
    BY <1>5, <2>1, <2>2 DEF ResolveScratch
<1>6. CASE KeycodesReturns
  BY <1>6 DEF KeycodesReturns, Returns, TypesInv, mapVars
<1>7. ASSUME NEW sym \in Wanted,
             \/ Release(sym) \/ Reapply(sym) \/ Rebind(sym) \/ ResolveOnNonBase(sym)
             \/ Forget(sym) \/ Skip(sym) \/ Bound(sym) \/ Restore(sym) \/ Finalize(sym)
      PROVE  TypesInv'
  BY <1>1, <1>2, <1>7 DEF Release, Reapply, Pass1Request, Rebind, BindFails, ResolveOnNonBase,
     Returns, Forget, Skip, InPass1, Bound, InPass2, Restore, Finalize
<1>8. CASE Pass1Done \/ Pass2Done
  BY <1>1, <1>2, <1>8 DEF Pass1Done, Pass2Done, LoopInv
<1>9. CASE \/ Open \/ OpenFails \/ Refresh \/ RefreshFails
           \/ CloseStarts \/ Drop \/ CloseReturns
  BY <1>1, <1>2, <1>9 DEF Open, OpenFails, Refresh, RefreshFails, Returns, CloseStarts,
     Drop, CloseReturns, LoopInv
<1>10. ASSUME NEW k \in Keycodes, NEW row \in ForeignRows, Remap(k, row)
       PROVE  TypesInv'
  BY <1>3, <1>10 DEF Remap
<1>11. CASE Closed \/ UNCHANGED xdoVars
  BY <1>3, <1>11 DEF Closed, xdoVars, mapVars
<1>12. QED
  BY <1>4, <1>5, <1>6, <1>7, <1>8, <1>9, <1>10, <1>11 DEF Next, XdoNext, KeycodesNext

----------------------------------------------------------------------------
(* The theorems *)

LEMMA XdoInvInit == XdoInit => XdoInv
<1>1. XdoInit => MirrorInv /\ MineInv
  BY DEF XdoInit, MirrorInv, LocalMirrorsServer, MineInv, CloseRestores
<1>2. XdoInit => BoundInv /\ TypesInv
  BY DEF XdoInit, BoundInv, TypesInv
<1>3. QED
  BY <1>1, <1>2, TypeInit DEF XdoInv

LEMMA XdoInvNext == XdoInv /\ [Next]_xdoVars => XdoInv'
<1>1. MapTypeOK' /\ CallTypeOK' => XdoTypeOK'
  BY DEF XdoTypeOK, MapTypeOK, CallTypeOK
<1>2. QED
  BY <1>1, XdoTypeParts, MapTypesNext, LoopInvNext, MirrorInvNext, MineInvNext,
     BoundInvNext, TypesInvNext DEF XdoInv

LEMMA XdoInvariant == XdoSpec => []XdoInv
BY XdoInvInit, XdoInvNext, PTL DEF XdoSpec

\* The variables keep their types: what is recorded or resolved is a keycode
\* of the setup, and requests write rows.
THEOREM XdoTypeCorrect == XdoSpec => []XdoTypeOK
<1>1. XdoInv => XdoTypeOK
  BY DEF XdoInv
<1>2. QED
  BY <1>1, XdoInvariant, PTL

\* The cached map (Xdo.keyMap) differs from the server's only where another
\* client, or a request that was never answered, may have written.
THEOREM LocalMirrorsTheorem == XdoSpec => []LocalMirrorsServer
<1>1. XdoInv => LocalMirrorsServer
  BY DEF XdoInv, MirrorInv
<1>2. QED
  BY <1>1, XdoInvariant, PTL

\* Every scratch the server has from this client is in the undo table while
\* the connection works, whichever of its requests have failed.
THEOREM UndoTableTheorem == XdoSpec => []UndoTableComplete
<1>1. XdoInv => UndoTableComplete
  BY DEF XdoInv, MineInv, UndoTableComplete, Reserved
<1>2. QED
  BY <1>1, XdoInvariant, PTL

\* Close and the finalizer leave no scratch of this client on the server when
\* their requests succeed.
THEOREM CloseRestoresTheorem == XdoSpec => []CloseRestores
<1>1. XdoInv => CloseRestores
  BY DEF XdoInv, MineInv
<1>2. QED
  BY <1>1, XdoInvariant, PTL

\* ensureScratches fails closed: no name is resolved while a recorded scratch
\* has no base mapping, so that the branch for it is dead code (xdo.go:404).
THEOREM ScratchesBoundTheorem == XdoSpec => []ScratchesBound
<1>1. XdoInv => ScratchesBound
  BY FindBaseFinds DEF XdoInv, BoundInv, HasBase, LoopInv, ScratchesBound
<1>2. QED
  BY <1>1, XdoInvariant, PTL

\* The keycodes of a resolved prefix of the sequence type their keysyms, on the
\* server too where nobody else has written since the reload.
THEOREM ResolvedTypesTheorem == XdoSpec => []ResolvedTypesKeysym
<1>1. ASSUME XdoInv, xpc = "resolve" \/ (xpc = "idle" /\ result = "ok"),
             NEW n \in DOMAIN out
      PROVE  /\ local[out[n]].base = Keys[n]
             /\ out[n] \notin changed => server[out[n]].base = Keys[n]
  <2>1. out[n] \in Keycodes
    BY <1>1, LenProperties, ElementOfSeq DEF XdoInv, XdoTypeOK
  <2>2. QED
    BY <1>1, <2>1 DEF XdoInv, TypesInv, MirrorInv, LocalMirrorsServer
<1>2. XdoInv => ResolvedTypesKeysym
  BY <1>1 DEF ResolvedTypesKeysym
<1>3. QED
  BY <1>2, XdoInvariant, PTL

\* Which rows a call writes over: one that is empty, or one that has the keysym
\* of the scratch recorded for it, as far as the last reload can tell.
LEMMA OverwriteStep ==
  ASSUME XdoInv, XdoNext, xpc \notin {"restore", "finalize"},
         NEW k \in Keycodes \ (changed \cup mine), server'[k] # server[k]
  PROVE  \/ server[k] = Empty
         \/ \E s \in Recorded : scratches[s] = k /\ server[k].base = s
<1>1. xpc \notin {"new", "closed"} => local[k] = server[k]
  BY DEF XdoInv, MirrorInv, LocalMirrorsServer
<1>2. \A j, row : server' = [server EXCEPT ![j] = row] => j = k
  BY DEF XdoInv, XdoTypeOK
<1>3. ASSUME NEW sym \in Wanted, Release(sym) \/ Reapply(sym)
      PROVE  \/ server[k] = Empty
             \/ \E s \in Recorded : scratches[s] = k /\ server[k].base = s
  <2>1. scratches[sym] = k /\ sym \in todo /\ todo \subseteq Recorded
    BY <1>2, <1>3
       DEF Release, Reapply, InPass1, Pass1Request, SetKeysyms, SetKeysymsFails, ServerWrites,
           Refused, mapVars, XdoInv, LoopInv
  <2>2. QED
    BY <1>1, <1>3, <2>1 DEF Release, Reapply, InPass1, FullyEmpty
<1>4. ASSUME NEW sym \in Wanted, Rebind(sym) \/ ResolveScratch(sym)
      PROVE  server[k] = Empty
  <2>1. PICK reserved : \/ BindOk(sym, FindEmpty(local, reserved))
                        \/ BindFails(sym, FindEmpty(local, reserved))
    BY <1>4 DEF Rebind, ResolveScratch
  <2>2. FindEmpty(local, reserved) = k /\ k # NoKeycode
    BY <1>2, <2>1, NoSuchKeycode
       DEF BindOk, BindFails, SetKeysyms, SetKeysymsFails, ServerWrites, Refused, mapVars
  <2>3. xpc \in {"pass2", "resolve"}
    BY <1>4 DEF Rebind, InPass2, ResolveScratch, Resolving
  <2>4. QED
    BY <1>1, <2>2, <2>3, FindEmptyFinds
<1>5. ASSUME NEW sym \in Wanted,
             \/ Forget(sym) \/ Skip(sym) \/ Bound(sym)
             \/ ResolveBase(sym) \/ ResolveOnNonBase(sym)
             \/ Restore(sym) \/ Finalize(sym)
      PROVE  FALSE
  BY <1>5 DEF Forget, Skip, Bound, ResolveBase, ResolveOnNonBase, Restore, Finalize, mapVars
<1>6. CASE \/ Open \/ OpenFails \/ Refresh \/ RefreshFails \/ Pass1Done \/ Pass2Done
           \/ KeycodesReturns \/ CloseStarts \/ Drop \/ CloseReturns
  BY <1>6 DEF Open, OpenFails, Refresh, RefreshFails, Refused, Pass1Done, Pass2Done,
     KeycodesReturns, CloseStarts, Drop, CloseReturns, mapVars
<1>7. QED
  BY <1>3, <1>4, <1>5, <1>6 DEF XdoNext, KeycodesNext

\* Real keys the client has seen are never overwritten, but for one that has
\* the keysym of the scratch recorded on its keycode (xdo.go:26-27).
THEOREM OverwritesTheorem == XdoSpec => OverwritesOnlyUnseen
<1>1. XdoInv /\ [Next]_xdoVars =>
        [XdoNext /\ xpc \notin {"restore", "finalize"} =>
           \A k \in Keycodes \ (changed \cup mine) :
             server'[k] # server[k] =>
               \/ server[k] = Empty
               \/ \E s \in Recorded : scratches[s] = k /\ server[k].base = s]_xdoVars
  BY OverwriteStep
<1>2. QED
  BY <1>1, XdoInvariant, PTL DEF XdoSpec, OverwritesOnlyUnseen
=============================================================================

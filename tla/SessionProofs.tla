----------------------------- MODULE SessionProofs -----------------------------
(***************************************************************************)
(* Proofs about Session: what killed, failed and restarted processes leave *)
(* on the X server does not add up, for every keyboard map, every sequence *)
(* of names and every number of restarts.                                  *)
(***************************************************************************)
EXTENDS Session, TalkProofs

----------------------------------------------------------------------------
(* The inductive invariant *)

\* A leftover is known to the process that runs: its row is not among those
\* that others have written since the reload.
LeftoverInv ==
  /\ leftover \subseteq Keycodes
  /\ alive /\ xpc \notin {"finalize", "closed"} => changed \cap leftover = {}

SessionInv == XdoInv /\ LeftoverInv /\ RestartsDoNotLeak

----------------------------------------------------------------------------
(* What a step writes *)

Ending == xpc \in {"finalize", "closed"}

\* A request that empties a row or writes the scratch of a name that the local
\* map lacks.
Writes(k, row) ==
  /\ SetKeysyms(k, row) \/ SetKeysymsFails(k, row)
  /\ \/ row = Empty
     \/ /\ xpc \in {"pass1", "pass2", "resolve"}
        /\ \E sym \in Wanted : row = ScratchRow(sym) /\ FindBase(local, sym) = NoKeycode

\* Every step of Xdo but a reload, a step of another client and the cleanup of
\* a dropped value is such a request, or leaves the map alone.
LEMMA StepWrites ==
  ASSUME XdoInv, [Next]_xdoVars
  PROVE  \/ UNCHANGED mapVars /\ (Ending => Ending')
         \/ Open \/ Refresh \/ RefreshFails \/ Drop
         \/ \E sym \in Wanted : Finalize(sym)
         \/ \E k \in Keycodes, row \in ForeignRows : Remap(k, row)
         \/ \E k \in Keycodes, row \in Rows : Writes(k, row) /\ ~Ending
<1>1. CASE UNCHANGED xdoVars
  BY <1>1 DEF xdoVars, Ending
<1>2. CASE Closed \/ OpenFails \/ Pass1Done \/ Pass2Done \/ KeycodesReturns
           \/ CloseStarts \/ CloseReturns
  BY <1>2 DEF Closed, xdoVars, OpenFails, Pass1Done, Pass2Done, KeycodesReturns,
     CloseStarts, CloseReturns, Ending
<1>3. ASSUME NEW sym \in Wanted,
             \/ Forget(sym) \/ Skip(sym) \/ Bound(sym)
             \/ ResolveBase(sym) \/ ResolveOnNonBase(sym)
      PROVE  UNCHANGED mapVars /\ ~Ending
  BY <1>3 DEF Forget, Skip, InPass1, Bound, InPass2, ResolveBase, ResolveOnNonBase,
     Resolving, Ending
<1>4. ASSUME NEW sym \in Wanted, Release(sym) \/ Reapply(sym) \/ Restore(sym)
      PROVE  \E k \in Keycodes, row \in Rows : Writes(k, row) /\ ~Ending
  <2>1. scratches[sym] \in Keycodes
    BY <1>4, TodoEntry, XdoTypeParts DEF XdoInv, Release, Reapply, Restore, InPass1
  <2>2. Empty \in Rows /\ ScratchRow(sym) \in Rows
    BY NoSuchKeycode
  <2>3. ~Ending
    BY <1>4 DEF Release, Reapply, Restore, InPass1, Ending
  <2>4. CASE Reapply(sym)
    <3>1. Writes(scratches[sym], ScratchRow(sym))
      BY <2>4 DEF Reapply, InPass1, Pass1Request, Writes
    <3>2. QED
      BY <2>1, <2>2, <2>3, <3>1
  <2>5. CASE Release(sym) \/ Restore(sym)
    <3>1. Writes(scratches[sym], Empty)
      BY <2>5 DEF Release, Restore, Pass1Request, Writes
    <3>2. QED
      BY <2>1, <2>2, <2>3, <3>1
  <2>6. QED
    BY <1>4, <2>4, <2>5
<1>5. ASSUME NEW sym \in Wanted, Rebind(sym) \/ ResolveScratch(sym)
      PROVE  \/ UNCHANGED mapVars /\ ~Ending
             \/ \E k \in Keycodes, row \in Rows : Writes(k, row) /\ ~Ending
  <2>1. PICK free \in Keycodes \cup {NoKeycode} : BindOk(sym, free) \/ BindFails(sym, free)
    BY <1>5, FindEmptyFinds DEF Rebind, ResolveScratch
  <2>2. /\ xpc \in {"pass2", "resolve"} /\ ~Ending
        /\ FindBase(local, sym) = NoKeycode
    BY <1>5 DEF Ending, Rebind, InPass2, ResolveScratch, Resolving
  <2>3. CASE free = NoKeycode /\ UNCHANGED mapVars
    BY <2>2, <2>3
  <2>4. CASE /\ free # NoKeycode
             /\ SetKeysyms(free, ScratchRow(sym)) \/ SetKeysymsFails(free, ScratchRow(sym))
    <3>1. free \in Keycodes /\ ScratchRow(sym) \in Rows /\ Writes(free, ScratchRow(sym))
      BY <2>2, <2>4, NoSuchKeycode DEF Writes
    <3>2. QED
      BY <2>2, <3>1
  <2>5. QED
    BY <2>1, <2>3, <2>4 DEF BindOk, BindFails
<1>6. QED
  BY <1>1, <1>2, <1>3, <1>4, <1>5 DEF Next, XdoNext, KeycodesNext

\* A keycode that is emptied is no scratch any more; a keycode that is bound
\* gets a base that no scratch of this or an earlier process has.
LEMMA WriteLeaksNothing ==
  ASSUME XdoInv, LeftoverInv, RestartsDoNotLeak,
         NEW k \in Keycodes, NEW row \in Rows, Writes(k, row), ~Ending,
         leftover' = Remains(leftover)
  PROVE  /\ RestartsDoNotLeak'
         /\ leftover' \subseteq leftover
         /\ alive' => alive /\ changed' \subseteq changed
<1>1. server \in [Keycodes -> Rows] /\ mine \subseteq Keycodes /\ leftover \subseteq Keycodes
  BY DEF XdoInv, XdoTypeOK, LeftoverInv
<1>2. leftover' \subseteq leftover
  BY DEF Remains
<1>3. alive' => alive /\ changed' \subseteq changed
  BY DEF Writes, SetKeysyms, SetKeysymsFails, Refused, mapVars
<1>4. CASE UNCHANGED <<server, mine>>
  BY <1>2, <1>3, <1>4 DEF RestartsDoNotLeak
<1>5. CASE ServerWrites(k, row) /\ alive
  <2>1. server' = [server EXCEPT ![k] = row] /\ mine' \subseteq mine \cup {k}
    BY <1>5 DEF ServerWrites
  <2>2. \A j \in Keycodes \ {k} : server'[j] = server[j]
    BY <1>1, <2>1
  <2>3. server'[k] = row
    BY <1>1, <2>1
  <2>4. CASE row = Empty
    <3>1. k \notin mine'
      BY <1>5, <2>4 DEF ServerWrites
    <3>2. k \in leftover' => server'[k] = server[k]
      BY DEF Remains
    <3>3. QED
      BY <1>1, <1>2, <1>3, <2>1, <2>2, <3>1, <3>2 DEF RestartsDoNotLeak
  <2>5. ASSUME NEW sym \in Wanted, row = ScratchRow(sym), FindBase(local, sym) = NoKeycode,
               xpc \in {"pass1", "pass2", "resolve"}
        PROVE  RestartsDoNotLeak'
    <3>1. \A j \in (mine \cup leftover) : j \in Keycodes /\ local[j] = server[j]
      BY <1>1, <1>5, <2>5 DEF XdoInv, MirrorInv, LocalMirrorsServer, LeftoverInv
    <3>2. \A j \in Keycodes : local[j].base # sym
      BY <2>5, FindBaseFinds
    <3>3. \A j \in (mine \cup leftover) \ {k} : server'[j].base # sym
      BY <2>2, <3>1, <3>2
    <3>4. server'[k].base = sym
      BY <2>3, <2>5 DEF ScratchRow
    <3>5. QED
      BY <1>1, <1>2, <2>1, <2>2, <3>3, <3>4 DEF RestartsDoNotLeak
  <2>6. QED
    BY <1>2, <1>3, <2>4, <2>5 DEF Writes
<1>6. UNCHANGED <<server, mine>> \/ (ServerWrites(k, row) /\ alive)
  BY DEF Writes, SetKeysyms, SetKeysymsFails, Refused, mapVars
<1>7. QED
  BY <1>2, <1>3, <1>4, <1>5, <1>6

----------------------------------------------------------------------------
(* The invariant is kept *)

\* A step of the process that runs, or of another client.
LEMMA XdoStepLeaksNothing ==
  ASSUME SessionInv, [Next]_xdoVars \/ AliveOnly, leftover' = Remains(leftover)
  PROVE  LeftoverInv' /\ RestartsDoNotLeak'
<1> USE DEF SessionInv
<1>1. leftover' \subseteq leftover /\ leftover' \subseteq Keycodes
  BY DEF Remains, LeftoverInv
<1>2. ASSUME UNCHANGED <<server, mine>> PROVE RestartsDoNotLeak'
  BY <1>1, <1>2 DEF RestartsDoNotLeak
<1>3. CASE AliveOnly
  BY <1>1, <1>2, <1>3 DEF AliveOnly, LeftoverInv
<1>4. CASE UNCHANGED mapVars /\ (Ending => Ending')
  BY <1>1, <1>2, <1>4 DEF LeftoverInv, Ending, mapVars
<1>5. CASE Open \/ Refresh
  BY <1>1, <1>2, <1>5 DEF Open, Refresh, LeftoverInv
<1>6. CASE RefreshFails
  BY <1>1, <1>2, <1>6 DEF RefreshFails, Refused, Returns, mapVars, LeftoverInv
<1>7. CASE Drop
  BY <1>1, <1>2, <1>7 DEF Drop, LeftoverInv
<1>8. ASSUME NEW sym \in Wanted, Finalize(sym)
      PROVE  LeftoverInv' /\ RestartsDoNotLeak'
  <2>1. xpc' = "finalize"
    BY <1>8 DEF Finalize
  <2>2. PICK k \in Keycodes :
           UNCHANGED <<server, mine>> \/ ServerWrites(k, Empty)
    BY <1>8, TodoEntry, XdoTypeParts
       DEF XdoInv, Finalize, SetKeysymsFails, Refused, mapVars
  <2>3. RestartsDoNotLeak'
    <3>1. CASE ServerWrites(k, Empty)
      <4>1. /\ server' = [server EXCEPT ![k] = Empty] /\ mine' = mine \ {k}
            /\ server \in [Keycodes -> Rows] /\ mine \subseteq Keycodes
            /\ leftover \subseteq Keycodes
        BY <3>1 DEF ServerWrites, XdoInv, XdoTypeOK, LeftoverInv
      <4>2. \A j \in Keycodes \ {k} : server'[j] = server[j]
        BY <4>1
      <4>3. \A j \in leftover' : server'[j] = server[j]
        BY DEF Remains
      <4>4. QED
        BY <1>1, <4>1, <4>2, <4>3 DEF RestartsDoNotLeak
    <3>2. QED
      BY <1>2, <2>2, <3>1
  <2>4. QED
    BY <1>1, <2>1, <2>3 DEF LeftoverInv
<1>9. ASSUME NEW k \in Keycodes, NEW row \in ForeignRows, Remap(k, row)
      PROVE  LeftoverInv' /\ RestartsDoNotLeak'
  <2>1. /\ server \in [Keycodes -> Rows] /\ server[k] # row
        /\ server' = [server EXCEPT ![k] = row] /\ mine' = mine \ {k}
        /\ changed' = changed \cup {k} /\ UNCHANGED <<alive, xpc>>
        /\ mine \subseteq Keycodes
    BY <1>9 DEF Remap, XdoInv, XdoTypeOK
  <2>2. k \notin leftover'
    BY <2>1 DEF Remains
  <2>3. \A j \in Keycodes \ {k} : server'[j] = server[j]
    BY <2>1
  <2>4. LeftoverInv'
    BY <1>1, <2>1, <2>2 DEF LeftoverInv
  <2>5. RestartsDoNotLeak'
    BY <1>1, <2>1, <2>2, <2>3 DEF RestartsDoNotLeak
  <2>6. QED
    BY <2>4, <2>5
<1>10. ASSUME NEW k \in Keycodes, NEW row \in Rows, Writes(k, row), ~Ending
       PROVE  LeftoverInv' /\ RestartsDoNotLeak'
  BY <1>1, <1>10, WriteLeaksNothing DEF LeftoverInv, Ending
<1>11. QED
  BY <1>3, <1>4, <1>5, <1>6, <1>7, <1>8, <1>9, <1>10, StepWrites

\* The next process starts with the invariant of a process that has bound
\* nothing, and takes its predecessor's scratches for leftovers.
LEMMA NewProcessLeaksNothing ==
  ASSUME SessionInv, NewProcess
  PROVE  SessionInv'
<1> USE DEF SessionInv
<1>1. /\ UNCHANGED server /\ server \in [Keycodes -> Rows] /\ local' = server
      /\ mine \cup leftover \subseteq Keycodes
      /\ mine' = {} /\ changed' = {} /\ leftover' = leftover \cup mine
  BY DEF NewProcess, XdoInv, XdoTypeOK, LeftoverInv
<1>2. /\ scratches' = [s \in Wanted |-> NoKeycode]
      /\ xpc' = "new" /\ todo' = {} /\ out' = <<>> /\ result' = "none"
  BY DEF NewProcess
<1>3. alive' \in BOOLEAN /\ unrestored' \in BOOLEAN
  <2>1. alive' = TRUE /\ unrestored' = FALSE
    BY DEF NewProcess
  <2>2. QED
    BY <2>1, Zenon
<1>4. XdoTypeOK'
  BY <1>1, <1>2, <1>3, EmptySeq DEF XdoTypeOK, Locations
<1>5. LoopInv'
  BY <1>2, KeysAssumption, EmptySeq, LenProperties DEF LoopInv
<1>6. MirrorInv' /\ MineInv'
  BY <1>1, <1>2 DEF MirrorInv, LocalMirrorsServer, MineInv, CloseRestores
<1>7. BoundInv' /\ TypesInv'
  BY <1>2 DEF BoundInv, TypesInv
<1>8. LeftoverInv' /\ RestartsDoNotLeak'
  BY <1>1 DEF LeftoverInv, RestartsDoNotLeak
<1>9. QED
  BY <1>4, <1>5, <1>6, <1>7, <1>8 DEF XdoInv

LEMMA SessionInvInit == SessionInit => SessionInv
BY XdoInvInit DEF SessionInit, TalkInit, XdoInit, SessionInv, LeftoverInv, RestartsDoNotLeak

LEMMA SessionInvNext == SessionInv /\ [SessionNext]_sessionVars => SessionInv'
<1> SUFFICES ASSUME SessionInv, [SessionNext]_sessionVars PROVE SessionInv'
  OBVIOUS
<1>1. XdoInv /\ alive \in BOOLEAN
  BY DEF SessionInv, XdoInv, XdoTypeOK
<1>2. CASE ProcessStep
  <2>1. [Next]_xdoVars \/ AliveOnly
    BY <1>1, <1>2, TalkStepOfXdo DEF ProcessStep
  <2>2. XdoInv'
    BY <1>1, <2>1, AliveOnlyKeepsXdo, XdoInvNext
  <2>3. QED
    BY <1>2, <2>1, <2>2, XdoStepLeaksNothing DEF ProcessStep, SessionInv
<1>3. CASE OtherClientStep
  <2>1. Next
    BY <1>3 DEF OtherClientStep, OtherClient, Next
  <2>2. XdoInv'
    BY <1>1, <2>1, XdoInvNext
  <2>3. QED
    BY <1>3, <2>1, <2>2, XdoStepLeaksNothing DEF OtherClientStep, SessionInv
<1>4. CASE Kill \/ Restart
  BY <1>4, NewProcessLeaksNothing DEF Kill, Restart
<1>5. CASE UNCHANGED sessionVars
  <2>1. UNCHANGED xdoVars /\ UNCHANGED leftover
    BY <1>5 DEF sessionVars, talkVars
  <2>2. XdoInv'
    BY <1>1, <2>1, XdoInvNext
  <2>3. LeftoverInv' /\ RestartsDoNotLeak'
    BY <2>1 DEF SessionInv, LeftoverInv, RestartsDoNotLeak, xdoVars, mapVars
  <2>4. QED
    BY <2>2, <2>3 DEF SessionInv
<1>6. QED
  BY <1>2, <1>3, <1>4, <1>5 DEF SessionNext

----------------------------------------------------------------------------
(* Where the names of the sequence are, while no other client writes        *)

\* s comes before every occurrence of t in the sequence.
Earlier(s, t) == \E n \in DOMAIN Keys : Keys[n] = s /\ \A m \in 1 .. n : Keys[m] # t

Mapped(s) == \E k \in Keycodes : server[k].base = s

\* The names in D live on keycodes of their own, A: there is a scratch, or an
\* empty row once Close has taken it away, and nowhere else are they mapped.
\* Names got their slots in the order of the sequence, from the highest empty
\* keycode downwards, so that the next process assigns the same ones again.
Slots(D, A) ==
  /\ \A s, t \in D : A[s] = A[t] => s = t
  /\ \A s, t \in D : A[s] < A[t] => Earlier(t, s)
  /\ \A s \in D : /\ server[A[s]] \in {Empty, ScratchRow(s)}
                  /\ \A k \in Keycodes \ {A[s]} : server[k].base # s
                  /\ \A k \in Keycodes : server[k].other # s
  /\ \A k \in Keycodes : server[k] = Empty /\ (\A t \in D : A[t] # k)
                           => \A s \in D : k < A[s]
  /\ \A t \in D, s \in Wanted \ D : Earlier(t, s) \/ Mapped(s)

\* The keycode of s now and in every later process.
Place(D, A, s) == IF s \in D THEN A[s] ELSE FindBase(server, s)

Places(D, A, seq) ==
  \A n \in DOMAIN Keys : n \in DOMAIN seq => seq[n] = Place(D, A, Keys[n])

\* The undo table has slots alone, filled ones until Close empties them.
Table(D, A) ==
  \A s \in Recorded :
    /\ s \in D /\ scratches[s] = A[s]
    /\ xpc \notin {"restore", "closed"} => server[A[s]] = ScratchRow(s)

\* A process uses no other keycodes than these.
Uses(D, A) ==
  /\ Table(D, A)
  /\ Places(D, A, out) /\ Places(D, A, kcs) /\ Places(D, A, held)
  /\ \A k \in down : \E s \in Wanted : Place(D, A, s) = k

\* Calls are made over a connection that works, and none follows a failure.
AliveInv ==
  /\ bpc \in {"idle", "press"} => ~failed
  /\ bpc \in {"idle", "press"} /\ xpc \notin {"restore", "closed"} => alive
  /\ xpc = "new" => /\ Recorded = {} /\ held = <<>> /\ bpc = "idle"

\* The loop of KeyUp has released every key after index i.
ReleasedInv ==
  bpc = "release" /\ ~failed => \A k \in down : \E n \in 1 .. i : kcs[n] = k

PlacesInv ==
  ~foreign =>
    /\ alive /\ xpc # "closed" => changed = {}
    /\ \E D \in SUBSET Wanted : \E A \in [D -> Keycodes] : Slots(D, A) /\ Uses(D, A)
    /\ ReleasedInv

----------------------------------------------------------------------------
(* What the requests of a process do to the places of the names *)

\* Slots depend on the server's map alone.
LEMMA SameSlots ==
  ASSUME UNCHANGED server, NEW D, NEW A, Slots(D, A)
  PROVE  Slots(D, A)' /\ \A s \in Wanted : Place(D, A, s)' = Place(D, A, s)
BY DEF Slots, Mapped, Place

\* A slot is filled or emptied.
LEMMA WriteSlot ==
  ASSUME server \in [Keycodes -> Rows],
         NEW D \in SUBSET Wanted, NEW A \in [D -> Keycodes], Slots(D, A),
         NEW sym \in D, NEW row \in {Empty, ScratchRow(sym)},
         server' = [server EXCEPT ![A[sym]] = row]
  PROVE  Slots(D, A)' /\ \A s \in Wanted : Place(D, A, s)' = Place(D, A, s)
<1>1. /\ A[sym] \in Keycodes /\ server'[A[sym]] = row
      /\ \A k \in Keycodes \ {A[sym]} : server'[k] = server[k]
      /\ \A s \in D : A[s] \in Keycodes
  OBVIOUS
<1>2. /\ \A s \in Wanted \ {sym} : row.base # s /\ server[A[sym]].base # s
      /\ \A s \in Wanted : row.other # s
  BY NoSuchKeycode DEF Slots, Empty, ScratchRow
<1>3. \A s \in Wanted \ {sym}, k \in Keycodes : server'[k].base = s <=> server[k].base = s
  BY <1>1, <1>2
<1>4. ASSUME NEW s \in Wanted \ D
      PROVE  FindBase(server', s) = FindBase(server, s)
  <2>1. \A k \in Keycodes : server'[k].base = s <=> server[k].base = s
    BY <1>3
  <2> DEFINE later == server'
  <2>2. \A k \in Keycodes : later[k].base = s <=> server[k].base = s
    BY <2>1
  <2> HIDE DEF later
  <2>3. FindBase(later, s) = FindBase(server, s)
    BY <2>2, FindBaseSame
  <2>4. QED
    BY <2>3 DEF later
<1>5. \A s \in Wanted \ D : Mapped(s)' <=> Mapped(s)
  BY <1>3 DEF Mapped
<1>6. \A s \in D : /\ server'[A[s]] \in {Empty, ScratchRow(s)}
                   /\ \A k \in Keycodes \ {A[s]} : server'[k].base # s
                   /\ \A k \in Keycodes : server'[k].other # s
  <2>1. ASSUME NEW s \in D
        PROVE  /\ server'[A[s]] \in {Empty, ScratchRow(s)}
               /\ \A k \in Keycodes \ {A[s]} : server'[k].base # s
    BY <1>1, <1>2 DEF Slots
  <2>2. \A s \in D, k \in Keycodes : server'[k].other # s
    BY <1>1, <1>2 DEF Slots
  <2>3. QED
    BY <2>1, <2>2
<1>7. \A k \in Keycodes : server'[k] = Empty /\ (\A t \in D : A[t] # k)
                            => \A s \in D : k < A[s]
  BY <1>1 DEF Slots
<1>8. QED
  BY <1>4, <1>5, <1>6, <1>7 DEF Slots, Place

\* While Keycodes resolves sym, the names before it are mapped, and a name that
\* is not comes after it.
LEMMA ResolvedAreMapped ==
  ASSUME CallTypeOK, TypesInv, local = server, NEW sym, Resolving(sym)
  PROVE  /\ \A t : Earlier(t, sym) => Mapped(t)
         /\ \A s \in Wanted \ {sym} : Mapped(s) \/ Earlier(sym, s)
<1>1. /\ Len(out) \in Nat /\ DOMAIN out = 1 .. Len(out)
      /\ Len(Keys) \in Nat /\ DOMAIN Keys = 1 .. Len(Keys)
      /\ Len(out) + 1 \in DOMAIN Keys /\ sym = Keys[Len(out) + 1]
      /\ \A n \in 1 .. Len(out) : out[n] \in Keycodes
  BY KeysAssumption, LenProperties, ElementOfSeq DEF CallTypeOK, Resolving
<1>2. \A n \in 1 .. Len(out) : Mapped(Keys[n])
  BY <1>1 DEF TypesInv, Resolving, Mapped
<1>3. ASSUME NEW t, Earlier(t, sym) PROVE Mapped(t)
  <2>1. PICK n \in DOMAIN Keys : Keys[n] = t /\ \A m \in 1 .. n : Keys[m] # sym
    BY <1>3 DEF Earlier
  <2>2. n \in 1 .. Len(out)
    BY <1>1, <2>1
  <2>3. QED
    BY <1>2, <2>1, <2>2
<1>4. ASSUME NEW s \in Wanted \ {sym}, ~Mapped(s) PROVE Earlier(sym, s)
  <2>1. \A m \in 1 .. Len(out) + 1 : Keys[m] # s
    BY <1>1, <1>2, <1>4
  <2>2. QED
    BY <1>1, <2>1 DEF Earlier
<1>5. QED
  BY <1>3, <1>4

\* A step assigns the slot k to sym, a new one or the one it has had before,
\* and leaves every name that has a keycode where it is.
Assigns(D, A, sym, k) ==
  \E D2 \in SUBSET Wanted : \E A2 \in [D2 -> Keycodes] :
    /\ Slots(D2, A2)'
    /\ sym \in D2 /\ A2[sym] = k
    /\ \A s \in D : s \in D2 /\ A2[s] = A[s]
    /\ \A s \in Wanted :
         Place(D, A, s) \in Keycodes => Place(D2, A2, s)' = Place(D, A, s)

\* A name that is not mapped gets its old slot if it has one, and else a new one
\* below all others.
LEMMA ResolveSlot ==
  ASSUME server \in [Keycodes -> Rows], CallTypeOK, TypesInv, local = server,
         NEW D \in SUBSET Wanted, NEW A \in [D -> Keycodes], Slots(D, A), Uses(D, A),
         NEW sym \in Wanted, Resolving(sym),
         FindBase(server, sym) = NoKeycode, ~OnNonBase(server, sym),
         NEW free \in Keycodes, free = FindEmpty(server, Reserved),
         server' = [server EXCEPT ![free] = ScratchRow(sym)]
  PROVE  Assigns(D, A, sym, free)
<1>1. ~Mapped(sym) /\ \A k \in Keycodes : server[k].other # sym
  BY FindBaseFinds DEF Mapped, OnNonBase
<1>2. server[free] = Empty /\ free \notin Reserved
  BY FindEmptyFinds, NoSuchKeycode
<1>3. \A s \in Recorded : server[A[s]] = ScratchRow(s)
  BY DEF Uses, Table, Resolving
<1>4. \A s \in Wanted : ScratchRow(s) # Empty
  BY NoSuchKeycode DEF ScratchRow, Empty
<1>5. \A k \in Keycodes : server[k] = Empty => k \notin Reserved /\ k <= free
  <2>1. ASSUME NEW k \in Keycodes, server[k] = Empty PROVE k \notin Reserved
    BY <1>3, <1>4, <2>1 DEF Uses, Table, Reserved, Recorded
  <2>2. QED
    BY <2>1, FindEmptyHighest
<1>6. \A t \in D : A[t] = free => ~Mapped(t)
  <2>1. ASSUME NEW t \in D, A[t] = free, NEW k \in Keycodes PROVE server[k].base # t
    <3>1. CASE k = A[t]
      BY <1>2, <2>1, <3>1, NoSuchKeycode DEF Empty
    <3>2. CASE k # A[t]
      BY <3>2 DEF Slots
    <3>3. QED
      BY <3>1, <3>2
  <2>2. QED
    BY <2>1 DEF Mapped
<1>7. /\ \A t : Earlier(t, sym) => Mapped(t)
      /\ \A s \in Wanted \ {sym} : Mapped(s) \/ Earlier(sym, s)
  BY ResolvedAreMapped
<1>8. CASE sym \in D
  <2>1. server[A[sym]] = Empty
    BY <1>1, <1>8 DEF Slots, Mapped, ScratchRow
  <2>2. A[sym] <= free
    BY <1>5, <1>8, <2>1
  <2>3. PICK t \in D : A[t] = free
    <3>1. ASSUME \A t \in D : A[t] # free PROVE FALSE
      <4>1. free < A[sym]
        BY <1>2, <1>8, <3>1 DEF Slots
      <4>2. A[sym] \in Nat /\ free \in Nat
        BY <1>8, KeycodeAssumption DEF Keycodes
      <4>3. QED
        BY <2>2, <4>1, <4>2
    <3>2. QED
      BY <3>1
  <2>4. A[sym] = free
    <3>1. CASE A[sym] < A[t]
      BY <1>6, <1>7, <1>8, <2>3, <3>1 DEF Slots
    <3>2. A[sym] \in Nat /\ free \in Nat
      BY <1>8, KeycodeAssumption DEF Keycodes
    <3>3. QED
      BY <2>2, <2>3, <3>1, <3>2
  <2>5. Slots(D, A)' /\ \A s \in Wanted : Place(D, A, s)' = Place(D, A, s)
    BY <1>8, <2>4, WriteSlot
  <2>6. QED
    BY <1>8, <2>4, <2>5 DEF Assigns
<1>9. CASE sym \notin D
  <2>1. \A t \in D : A[t] # free
    BY <1>1, <1>6, <1>7, <1>9 DEF Slots
  <2>2. \A t \in D : free < A[t] /\ Earlier(t, sym)
    BY <1>1, <1>2, <1>9, <2>1 DEF Slots
  <2> DEFINE D2 == D \cup {sym}
             A2 == [s \in D2 |-> IF s = sym THEN free ELSE A[s]]
  <2>3. /\ D2 \in SUBSET Wanted /\ A2 \in [D2 -> Keycodes]
        /\ A2[sym] = free /\ \A s \in D : s # sym /\ A2[s] = A[s]
    BY <1>9
  <2>4. /\ server'[free] = ScratchRow(sym)
        /\ \A k \in Keycodes \ {free} : server'[k] = server[k]
    OBVIOUS
  <2>5. \A s \in Wanted \ {sym}, k \in Keycodes : server'[k].base = s <=> server[k].base = s
    BY <1>2, <2>4, NoSuchKeycode DEF Empty, ScratchRow
  <2>6. ASSUME NEW s \in Wanted \ D2
        PROVE  FindBase(server', s) = FindBase(server, s) /\ (Mapped(s) => Mapped(s)')
    <3> DEFINE later == server'
    <3>1. \A k \in Keycodes : later[k].base = s <=> server[k].base = s
      BY <2>5
    <3> HIDE DEF later
    <3>2. FindBase(later, s) = FindBase(server, s)
      BY <3>1, FindBaseSame
    <3>3. Mapped(s) => Mapped(s)'
      BY <2>5 DEF Mapped
    <3>4. QED
      BY <3>2, <3>3 DEF later
  <2>7. \A s, t \in D2 : A2[s] = A2[t] => s = t
    BY <2>1, <2>3 DEF Slots
  <2>8. \A s, t \in D2 : A2[s] < A2[t] => Earlier(t, s)
    <3>1. ASSUME NEW s \in D2, NEW t \in D2, A2[s] < A2[t] PROVE Earlier(t, s)
      <4>1. free \in Nat /\ \A d \in D : A[d] \in Nat
        BY KeycodeAssumption DEF Keycodes
      <4>2. CASE s = sym
        BY <2>2, <2>3, <3>1, <4>1, <4>2
      <4>3. CASE s # sym /\ t = sym
        BY <2>2, <2>3, <3>1, <4>1, <4>3
      <4>4. CASE s # sym /\ t # sym
        BY <2>3, <3>1, <4>4 DEF Slots
      <4>5. QED
        BY <4>2, <4>3, <4>4
    <3>2. QED
      BY <3>1
  <2>9. \A s \in D2 : /\ server'[A2[s]] \in {Empty, ScratchRow(s)}
                      /\ \A k \in Keycodes \ {A2[s]} : server'[k].base # s
                      /\ \A k \in Keycodes : server'[k].other # s
    <3>1. \A s \in D2, k \in Keycodes : server'[k].other # s
      BY <1>1, <2>3, <2>4, NoSuchKeycode DEF Slots, ScratchRow
    <3>2. \A s \in D : /\ server'[A2[s]] \in {Empty, ScratchRow(s)}
                       /\ \A k \in Keycodes \ {A2[s]} : server'[k].base # s
      BY <2>1, <2>3, <2>4, <2>5 DEF Slots
    <3>3. \A k \in Keycodes \ {free} : server'[k].base # sym
      BY <1>1, <2>4 DEF Mapped
    <3>4. QED
      BY <2>3, <2>4, <3>1, <3>2, <3>3
  <2>10. \A k \in Keycodes : server'[k] = Empty /\ (\A t \in D2 : A2[t] # k)
                               => \A s \in D2 : k < A2[s]
    <3>1. ASSUME NEW k \in Keycodes, server'[k] = Empty, \A t \in D2 : A2[t] # k
          PROVE  k < free /\ \A s \in D : k < A[s]
      <4>1. k # free /\ server[k] = Empty
        BY <1>4, <2>4, <3>1
      <4>2. \A t \in D : A[t] # k
        BY <2>3, <3>1
      <4>3. k <= free /\ k \in Nat /\ free \in Nat
        BY <1>5, <4>1, KeycodeAssumption DEF Keycodes
      <4>4. QED
        BY <4>1, <4>2, <4>3 DEF Slots
    <3>2. QED
      BY <2>3, <3>1
  <2>11. \A t \in D2, s \in Wanted \ D2 : Earlier(t, s) \/ Mapped(s)'
    BY <1>7, <2>6 DEF Slots
  <2>12. \A s \in Wanted :
           Place(D, A, s) \in Keycodes => Place(D2, A2, s)' = Place(D, A, s)
    <3>1. ASSUME NEW s \in Wanted, Place(D, A, s) \in Keycodes
          PROVE  Place(D2, A2, s)' = Place(D, A, s)
      <4>1. s # sym
        BY <1>9, <3>1, NoSuchKeycode DEF Place
      <4>2. QED
        BY <2>3, <2>6, <3>1, <4>1 DEF Place
    <3>2. QED
      BY <3>1
  <2> HIDE DEF D2, A2
  <2>13. Slots(D2, A2)'
    BY <2>7, <2>8, <2>9, <2>10, <2>11 DEF Slots
  <2>14. sym \in D2 /\ D \subseteq D2
    BY DEF D2
  <2>15. QED
    BY <2>3, <2>12, <2>13, <2>14 DEF Assigns
<1>10. QED
  BY <1>8, <1>9

\* What a step may do to the keycodes in use when it moves no name.
LEMMA UsesKept ==
  ASSUME CallsInv, NEW D, NEW A, NEW D2, NEW A2, Uses(D, A),
         \A s \in Wanted :
           Place(D, A, s) \in Keycodes => Place(D2, A2, s)' = Place(D, A, s),
         Table(D2, A2)', Places(D2, A2, out)',
         kcs' \in {kcs, held, out', <<>>}, held' \in {held, kcs, <<>>},
         \A k \in down' : k \in down \/ \E n \in DOMAIN kcs : kcs[n] = k
  PROVE  Uses(D2, A2)'
<1>1. /\ kcs = <<>> \/ kcs \in [DOMAIN Keys -> Keycodes]
      /\ held = <<>> \/ held \in [DOMAIN Keys -> Keycodes]
      /\ down \subseteq Keycodes
      /\ \A n \in DOMAIN Keys : Keys[n] \in Wanted
      /\ DOMAIN <<>> = {}
  BY KeysAssumption, LenProperties
     DEF CallsInv, BP!BindingTypeOK, BP!Resolutions, Wanted
<1>2. ASSUME NEW n \in DOMAIN Keys, n \in DOMAIN kcs
      PROVE  kcs[n] = Place(D, A, Keys[n]) /\ kcs[n] = Place(D2, A2, Keys[n])'
  <2>1. kcs[n] = Place(D, A, Keys[n]) /\ kcs[n] \in Keycodes
    BY <1>1, <1>2 DEF Uses, Places
  <2>2. QED
    BY <1>1, <2>1
<1>3. ASSUME NEW n \in DOMAIN Keys, n \in DOMAIN held
      PROVE  held[n] = Place(D2, A2, Keys[n])'
  <2>1. held[n] = Place(D, A, Keys[n]) /\ held[n] \in Keycodes
    BY <1>1, <1>3 DEF Uses, Places
  <2>2. QED
    BY <1>1, <2>1
<1>4. Places(D2, A2, kcs)' /\ Places(D2, A2, held)'
  BY <1>1, <1>2, <1>3 DEF Places
<1>5. ASSUME NEW k \in down' PROVE \E s \in Wanted : Place(D2, A2, s)' = k
  <2>1. CASE k \in down
    BY <1>1, <2>1 DEF Uses
  <2>2. CASE \E n \in DOMAIN kcs : kcs[n] = k
    <3>1. PICK n \in DOMAIN kcs : kcs[n] = k
      BY <2>2
    <3>2. n \in DOMAIN Keys
      BY <1>1
    <3>3. QED
      BY <1>1, <1>2, <3>1, <3>2
  <2>3. QED
    BY <1>5, <2>1, <2>2
<1>6. QED
  BY <1>4, <1>5 DEF Uses

\* Such a step, when it leaves the map and the undo table alone.
LEMMA QuietKeepsUses ==
  ASSUME CallsInv, NEW D, NEW A, Slots(D, A), Uses(D, A),
         UNCHANGED <<server, scratches>>,
         xpc' \notin {"restore", "closed"} => xpc \notin {"restore", "closed"},
         out' \in {out, <<>>},
         kcs' \in {kcs, held, out', <<>>}, held' \in {held, kcs, <<>>},
         \A k \in down' : k \in down \/ \E n \in DOMAIN kcs : kcs[n] = k
  PROVE  Slots(D, A)' /\ Uses(D, A)'
<1>1. Slots(D, A)' /\ \A s \in Wanted : Place(D, A, s)' = Place(D, A, s)
  BY SameSlots
<1>2. Table(D, A)'
  BY DEF Uses, Table, Recorded
<1>3. \A n \in DOMAIN Keys : Keys[n] \in Wanted
  BY DEF Wanted
<1>4. Places(D, A, out)'
  <2>1. CASE out' = out
    BY <1>1, <1>3, <2>1 DEF Uses, Places
  <2>2. CASE out' = <<>>
    <3>1. DOMAIN out' = {}
      BY <2>2
    <3>2. QED
      BY <3>1 DEF Places
  <2>3. QED
    BY <2>1, <2>2
<1>5. QED
  BY <1>1, <1>2, <1>4, UsesKept

\* A recorded scratch is found where the table says.
LEMMA ScratchIsFound ==
  ASSUME XdoInv, NEW D, NEW A, Slots(D, A), Uses(D, A),
         local = server, xpc \notin {"restore", "closed"}, NEW sym \in Recorded
  PROVE  FindBase(local, sym) = scratches[sym] /\ FindBase(local, sym) # NoKeycode
<1>1. /\ sym \in D /\ scratches[sym] = A[sym] /\ server[A[sym]] = ScratchRow(sym)
      /\ scratches[sym] \in Keycodes
  BY DEF Uses, Table, Recorded, XdoInv, XdoTypeOK
<1>2. \A k \in Keycodes \ {A[sym]} : server[k].base # sym
  BY <1>1 DEF Slots
<1>3. QED
  BY <1>1, <1>2, FindBaseFinds DEF ScratchRow

\* A step of Keycodes leaves every name where it is; a name without a keycode
\* may get one.
LEMMA KeycodesKeepSlots ==
  ASSUME XdoInv, local = server, KeycodesNext,
         NEW D \in SUBSET Wanted, NEW A \in [D -> Keycodes], Slots(D, A), Uses(D, A)
  PROVE  \E D2 \in SUBSET Wanted : \E A2 \in [D2 -> Keycodes] :
           /\ Slots(D2, A2)' /\ Table(D2, A2)' /\ Places(D2, A2, out)'
           /\ \A s \in Wanted :
                Place(D, A, s) \in Keycodes => Place(D2, A2, s)' = Place(D, A, s)
<1> DEFINE Kept ==
      \E D2 \in SUBSET Wanted : \E A2 \in [D2 -> Keycodes] :
        /\ Slots(D2, A2)' /\ Table(D2, A2)' /\ Places(D2, A2, out)'
        /\ \A s \in Wanted :
             Place(D, A, s) \in Keycodes => Place(D2, A2, s)' = Place(D, A, s)
<1>1. /\ server \in [Keycodes -> Rows] /\ CallTypeOK /\ TypesInv /\ todo \subseteq Recorded
      /\ xpc \in {"pass1", "pass2", "resolve"}
      /\ Len(out) \in Nat /\ DOMAIN out = 1 .. Len(out)
      /\ \A n \in DOMAIN Keys : Keys[n] \in Wanted
  <2>1. xpc \in {"pass1", "pass2", "resolve"}
    BY KeycodesOutcome
  <2>2. CallTypeOK /\ server \in [Keycodes -> Rows]
    BY XdoTypeParts DEF XdoInv, MapTypeOK
  <2>3. QED
    BY <2>1, <2>2, LenProperties DEF XdoInv, LoopInv, CallTypeOK, Wanted
<1>2. /\ xpc' \notin {"restore", "closed"}
      /\ Places(D, A, out) /\ Table(D, A)
  BY KeycodesOutcome DEF Uses
<1>3. CASE UNCHANGED server /\ UNCHANGED scratches /\ Places(D, A, out')
  <2>1. Slots(D, A)' /\ \A s \in Wanted : Place(D, A, s)' = Place(D, A, s)
    BY <1>3, SameSlots
  <2>2. Table(D, A)'
    BY <1>1, <1>2, <1>3 DEF Table, Recorded
  <2>3. Places(D, A, out)'
    BY <1>1, <1>3, <2>1 DEF Places
  <2>4. QED
    BY <2>1, <2>2, <2>3
<1>4. Places(D, A, <<>>)
  <2>1. DOMAIN <<>> = {}
    OBVIOUS
  <2>2. QED
    BY <2>1 DEF Places
<1>5. ASSUME NEW sym \in Wanted, Release(sym) \/ Forget(sym) \/ Reapply(sym) \/ Rebind(sym)
      PROVE  FALSE
  <2>1. sym \in Recorded
    BY <1>1, <1>5 DEF Release, Forget, Reapply, InPass1, Rebind, InPass2
  <2>2. FindBase(local, sym) = scratches[sym] /\ FindBase(local, sym) # NoKeycode
    BY <1>1, <2>1, ScratchIsFound
  <2>3. QED
    BY <1>5, <2>2 DEF Release, Forget, Reapply, Rebind, Obsolete
<1>6. ASSUME NEW sym \in Wanted, Skip(sym) \/ Bound(sym) \/ ResolveOnNonBase(sym)
      PROVE  Kept
  BY <1>2, <1>3, <1>4, <1>6 DEF Skip, Bound, ResolveOnNonBase, Returns, mapVars
<1>7. CASE Pass1Done \/ Pass2Done \/ KeycodesReturns
  BY <1>2, <1>3, <1>7 DEF Pass1Done, Pass2Done, KeycodesReturns, Returns, mapVars
<1>8. ASSUME NEW sym \in Wanted, NEW k \in Keycodes, Resolving(sym),
             out' = Append(out, k), NEW D2, NEW A2, k = Place(D2, A2, sym)',
             \A n \in DOMAIN Keys :
               n \in DOMAIN out => out[n] = Place(D2, A2, Keys[n])'
      PROVE  Places(D2, A2, out)'
  <2>1. /\ DOMAIN out' = 1 .. Len(out) + 1
        /\ out'[Len(out) + 1] = k
        /\ \A n \in 1 .. Len(out) : out'[n] = out[n]
    BY <1>1, <1>8, AppendProperties, LenProperties DEF CallTypeOK
  <2>2. sym = Keys[Len(out) + 1]
    BY <1>8 DEF Resolving
  <2>3. \A n \in 1 .. Len(out) + 1 : n \in 1 .. Len(out) \/ n = Len(out) + 1
    BY <1>1
  <2>4. QED
    BY <1>1, <1>8, <2>1, <2>2, <2>3 DEF Places
<1>9. ASSUME NEW sym \in Wanted, ResolveBase(sym)
      PROVE  Kept
  <2>1. /\ FindBase(server, sym) # NoKeycode /\ FindBase(server, sym) \in Keycodes
        /\ UNCHANGED <<server, scratches>> /\ Resolving(sym)
        /\ out' = Append(out, FindBase(server, sym))
    BY <1>9, FindBaseFinds DEF ResolveBase, mapVars
  <2>2. FindBase(server, sym) = Place(D, A, sym)
    <3>1. server[FindBase(server, sym)].base = sym
      BY <2>1, FindBaseFinds
    <3>2. QED
      BY <2>1, <3>1 DEF Place, Slots
  <2>3. Slots(D, A)' /\ \A s \in Wanted : Place(D, A, s)' = Place(D, A, s)
    BY <2>1, SameSlots
  <2>4. Places(D, A, out)'
    BY <1>1, <1>2, <1>8, <2>1, <2>2, <2>3 DEF Places
  <2>5. Table(D, A)'
    BY <1>1, <1>2, <2>1 DEF Table, Recorded
  <2>6. QED
    BY <2>3, <2>4, <2>5
<1>10. ASSUME NEW sym \in Wanted, ResolveScratch(sym)
       PROVE  Kept
  <2>0. PICK free \in Keycodes \cup {NoKeycode} : free = FindEmpty(local, Reserved)
    BY FindEmptyFinds
  <2>1. /\ FindBase(server, sym) = NoKeycode /\ ~OnNonBase(server, sym)
        /\ Resolving(sym) /\ free \in Keycodes \cup {NoKeycode}
        /\ free = FindEmpty(server, Reserved)
    BY <1>10, <2>0 DEF ResolveScratch
  <2>2. \/ BindOk(sym, free) /\ out' = Append(out, free)
        \/ BindFails(sym, free)
    BY <1>10, <2>0 DEF ResolveScratch
  <2>3. CASE UNCHANGED server /\ UNCHANGED scratches /\ out' = <<>>
    BY <1>3, <1>4, <2>3
  <2>4. CASE free \in Keycodes /\ server' = [server EXCEPT ![free] = ScratchRow(sym)]
    <3>0. Assigns(D, A, sym, free)
      BY <1>1, <2>1, <2>4, ResolveSlot
    <3> PICK D2 \in SUBSET Wanted :
         \E A2 \in [D2 -> Keycodes] :
            /\ Slots(D2, A2)'
            /\ sym \in D2 /\ A2[sym] = free
            /\ \A s \in D : s \in D2 /\ A2[s] = A[s]
            /\ \A s \in Wanted :
                 Place(D, A, s) \in Keycodes => Place(D2, A2, s)' = Place(D, A, s)
      BY <3>0 DEF Assigns
    <3>1. PICK A2 \in [D2 -> Keycodes] :
            /\ Slots(D2, A2)'
            /\ sym \in D2 /\ A2[sym] = free
            /\ \A s \in D : s \in D2 /\ A2[s] = A[s]
            /\ \A s \in Wanted :
                 Place(D, A, s) \in Keycodes => Place(D2, A2, s)' = Place(D, A, s)
      OBVIOUS
    <3>2. /\ server'[free] = ScratchRow(sym)
          /\ \A k \in Keycodes \ {free} : server'[k] = server[k]
          /\ server[free] = Empty /\ ScratchRow(sym) # Empty
      BY <1>1, <2>1, <2>4, FindEmptyFinds, NoSuchKeycode DEF ScratchRow, Empty
    <3>3. \A s \in Recorded : s \in D2 /\ scratches[s] = A2[s] /\ server'[A2[s]] = ScratchRow(s)
      <4>1. ASSUME NEW s \in Recorded
            PROVE  s \in D2 /\ scratches[s] = A2[s] /\ server'[A2[s]] = ScratchRow(s)
        <5>1. /\ s \in D /\ scratches[s] = A[s] /\ server[A[s]] = ScratchRow(s)
              /\ A[s] \in Keycodes /\ s \in Wanted
          BY <1>1, <1>2 DEF Table, Recorded
        <5>2. A[s] # free
          BY <3>2, <5>1, NoSuchKeycode DEF ScratchRow, Empty
        <5>3. QED
          BY <3>1, <3>2, <5>1, <5>2
      <4>2. QED
        BY <4>1
    <3>4. CASE BindOk(sym, free) /\ out' = Append(out, free)
      <4>1. scratches' = [scratches EXCEPT ![sym] = free]
        BY <3>4 DEF BindOk
      <4>2. \A s \in Recorded' : s = sym \/ (s \in Recorded /\ scratches'[s] = scratches[s])
        BY <1>1, <4>1 DEF CallTypeOK, Recorded
      <4>3. scratches'[sym] = free
        BY <1>1, <4>1 DEF CallTypeOK
      <4>4. Table(D2, A2)'
        BY <3>1, <3>2, <3>3, <4>2, <4>3 DEF Table
      <4>5. \A n \in DOMAIN Keys :
              n \in DOMAIN out => out[n] = Place(D2, A2, Keys[n])'
        <5>1. \A n \in DOMAIN out : out[n] \in Keycodes
          BY <1>1, ElementOfSeq DEF CallTypeOK
        <5>2. QED
          BY <1>1, <1>2, <3>1, <5>1 DEF Places
      <4>6. free = Place(D2, A2, sym)'
        BY <3>1 DEF Place
      <4>7. Places(D2, A2, out)'
        BY <1>8, <2>1, <2>4, <3>4, <4>5, <4>6
      <4>8. QED
        BY <3>1, <4>4, <4>7
    <3>5. CASE UNCHANGED scratches /\ out' = <<>>
      <4>1. Table(D2, A2)'
        BY <3>3, <3>5 DEF Table, Recorded
      <4>2. DOMAIN out' = {}
        BY <3>5
      <4>3. Places(D2, A2, out)'
        BY <4>2 DEF Places
      <4>4. QED
        BY <3>1, <4>1, <4>3
    <3>6. QED
      BY <2>2, <3>4, <3>5 DEF BindFails, Returns
  <2>5. \/ UNCHANGED server /\ UNCHANGED scratches /\ out' = <<>>
        \/ free \in Keycodes /\ server' = [server EXCEPT ![free] = ScratchRow(sym)]
    BY <2>1, <2>2
       DEF BindOk, BindFails, SetKeysyms, SetKeysymsFails, ServerWrites, Refused,
           Returns, mapVars
  <2>6. QED
    BY <2>3, <2>4, <2>5
<1>11. QED
  BY <1>5, <1>6, <1>7, <1>9, <1>10 DEF KeycodesNext

----------------------------------------------------------------------------
(* The steps of a process *)

\* A request that is answered leaves no doubt about a keycode, and once the
\* connection has broken it stays so.
LEMMA AnswersLeaveNoDoubt ==
  ASSUME CallsInv, TalkStep, alive', xpc' # "closed"
  PROVE  alive /\ xpc # "closed" /\ changed' \subseteq changed
<1>1. CASE Connect
  BY <1>1 DEF Connect, Open, OpenFails
<1>2. ASSUME NEW c \in {"bind", "down", "up"}, Begin(c)
      PROVE  alive /\ xpc # "closed" /\ changed' \subseteq changed
  BY <1>2 DEF Begin, Refresh, RefreshFails, Refused, mapVars
<1>3. CASE Resolve
  <2>1. alive /\ xpc # "closed"
    BY <1>3, KeycodesOutcome DEF Resolve, CallsInv, mapVars
  <2>2. changed' \subseteq changed
    BY <1>3
       DEF Resolve, KeycodesNext, Release, Reapply, Forget, Skip, Pass1Request, Bound,
           Rebind, BindOk, BindFails, ResolveBase, ResolveOnNonBase, ResolveScratch,
           SetKeysyms, SetKeysymsFails, Refused, Pass1Done, Pass2Done, KeycodesReturns,
           mapVars
  <2>3. QED
    BY <2>1, <2>2
<1>4. CASE Up
  BY <1>4 DEF Up, Ready, xdoVars, mapVars
<1>5. CASE Inject
  <2>1. AliveOnly
    BY <1>5, InjectAlive DEF CallsInv, XdoInv, XdoTypeOK
  <2>2. QED
    BY <2>1 DEF AliveOnly
<1>6. CASE Close
  BY <1>6
     DEF Close, CloseStarts, CloseReturns, Restore, SetKeysyms, SetKeysymsFails, Refused,
         mapVars
<1>7. QED
  BY <1>1, <1>2, <1>3, <1>4, <1>5, <1>6 DEF TalkStep

LEMMA AliveInvNext ==
  ASSUME CallsInv, AliveInv, TalkStep
  PROVE  AliveInv'
<1> USE DEF AliveInv
<1>1. CASE Connect
  BY <1>1 DEF Connect, Open, OpenFails, senderVars
<1>2. ASSUME NEW c \in {"bind", "down", "up"}, Begin(c)
      PROVE  AliveInv'
  <2>1. CASE RefreshFails /\ Stops
    BY <2>1 DEF RefreshFails, Returns, Stops
  <2>2. CASE Refresh /\ UNCHANGED senderVars
    <3>1. xpc' = "pass1" /\ alive' /\ UNCHANGED <<bpc, failed>>
      BY <2>2 DEF Refresh, senderVars
    <3>2. QED
      BY <1>2, <3>1 DEF Begin, Calls, Ready
  <2>3. QED
    BY <1>2, <2>1, <2>2 DEF Begin
<1>3. CASE Resolve
  <2>1. /\ bpc = "idle" /\ ~failed /\ alive
        /\ xpc' \in {"pass1", "pass2", "resolve", "idle"}
    BY <1>3, KeycodesOutcome DEF Resolve, CallsInv, InterlockInv
  <2>2. CASE result' = "error" /\ xpc' = "idle"
    BY <1>3, <2>1, <2>2 DEF Resolve, Stops
  <2>3. CASE xpc' # "idle" \/ result' = "ok"
    <3>1. alive' /\ failed' = failed
      BY <1>3, <2>1, <2>3, KeycodesOutcome
         DEF Resolve, CallsInv, Presses, Releases, Stops, senderVars, mapVars
    <3>2. QED
      BY <2>1, <3>1
  <2>4. QED
    BY <1>3, <2>2, <2>3 DEF Resolve
<1>4. CASE Up
  BY <1>4 DEF Up, Ready, Releases, xdoVars, mapVars
<1>5. CASE Inject
  <2>1. /\ xpc' = xpc /\ xpc = "idle"
        /\ bpc' \in {"idle", "press"} => alive' /\ ~failed'
    <3>1. CASE B!PressOk
      BY <1>5, <3>1 DEF Inject, CallsInv, InterlockInv, B!PressOk, B!InputOk
    <3>2. CASE B!PressFails \/ B!Unwind
      BY <1>5, <3>2
         DEF Inject, CallsInv, InterlockInv, B!PressFails, B!Unwind, B!Fails
    <3>3. CASE B!Release
      BY <1>5, <3>3
         DEF Inject, CallsInv, InterlockInv, B!Release, B!Fails, B!Returns, B!InputOk
    <3>4. QED
      BY <1>5, <3>1, <3>2, <3>3 DEF Inject
  <2>2. QED
    BY <2>1
<1>6. CASE Close
  <2>1. xpc' \in {"restore", "closed"} /\ UNCHANGED <<bpc, failed>>
    BY <1>6 DEF Close, CloseStarts, Restore, CloseReturns, senderVars
  <2>2. QED
    BY <2>1
<1>7. QED
  BY <1>1, <1>2, <1>3, <1>4, <1>5, <1>6 DEF TalkStep

\* The places are kept by the process that runs.
LEMMA TalkKeepsPlaces ==
  ASSUME CallsInv, AliveInv, alive /\ xpc # "closed" => changed = {}, TalkStep,
         NEW D \in SUBSET Wanted, NEW A \in [D -> Keycodes], Slots(D, A), Uses(D, A)
  PROVE  \E D2 \in SUBSET Wanted : \E A2 \in [D2 -> Keycodes] :
           Slots(D2, A2)' /\ Uses(D2, A2)'
<1>1. CASE Connect
  <2>1. Slots(D, A)' /\ Uses(D, A)'
    BY <1>1, QuietKeepsUses DEF Connect, Open, OpenFails, senderVars, mapVars
  <2>2. QED
    BY <2>1
<1>2. ASSUME NEW c \in {"bind", "down", "up"}, Begin(c)
      PROVE  Slots(D, A)' /\ Uses(D, A)'
  BY <1>2, QuietKeepsUses
     DEF Begin, Refresh, RefreshFails, Refused, Returns, Stops, senderVars, mapVars
<1>3. CASE Resolve
  <2>1. KeycodesNext /\ XdoInv /\ local = server
    <3>1. KeycodesNext /\ XdoInv
      BY <1>3 DEF Resolve, CallsInv
    <3>2. xpc \in {"pass1", "pass2", "resolve"} /\ bpc = "idle"
      BY <3>1, KeycodesOutcome DEF CallsInv, InterlockInv
    <3>3. changed = {}
      BY <3>2 DEF AliveInv
    <3>4. \A k \in Keycodes : local[k] = server[k]
      BY <3>1, <3>2, <3>3 DEF XdoInv, MirrorInv, LocalMirrorsServer
    <3>5. server \in [Keycodes -> Rows] /\ local \in [Keycodes -> Rows]
      BY <3>1 DEF XdoInv, XdoTypeOK
    <3>6. QED
      BY <3>1, <3>4, <3>5
  <2>2. PICK D2 \in SUBSET Wanted : \E A2 \in [D2 -> Keycodes] :
          /\ Slots(D2, A2)' /\ Table(D2, A2)' /\ Places(D2, A2, out)'
          /\ \A s \in Wanted :
               Place(D, A, s) \in Keycodes => Place(D2, A2, s)' = Place(D, A, s)
    BY <2>1, KeycodesKeepSlots
  <2>3. PICK A2 \in [D2 -> Keycodes] :
          /\ Slots(D2, A2)' /\ Table(D2, A2)' /\ Places(D2, A2, out)'
          /\ \A s \in Wanted :
               Place(D, A, s) \in Keycodes => Place(D2, A2, s)' = Place(D, A, s)
    BY <2>2
  <2>4. kcs' \in {kcs, out'} /\ held' = held /\ down' = down
    BY <1>3 DEF Resolve, Stops, Presses, Releases, senderVars
  <2>5. Uses(D2, A2)'
    BY <2>3, <2>4, UsesKept
  <2>6. QED
    BY <2>3, <2>5
<1>4. CASE Up
  BY <1>4, QuietKeepsUses DEF Up, Releases, xdoVars, mapVars
<1>5. CASE Inject
  <2>1. /\ UNCHANGED <<server, scratches, xpc, out>>
        /\ bpc \in {"press", "unwind", "release"}
    BY <1>5 DEF Inject, B!PressOk, B!PressFails, B!Unwind, B!Release
  <2>2. i \in DOMAIN kcs
    BY <2>1 DEF CallsInv, BP!CallInv, BP!Resolutions
  <2>3. \A k \in down' : k \in down \/ k = kcs[i]
    BY <1>5 DEF Inject, B!PressOk, B!PressFails, B!Unwind, B!Release, B!InputOk, B!InputFails
  <2>4. kcs' \in {kcs, <<>>} /\ held' \in {held, kcs, <<>>}
    BY <1>5 DEF Inject, B!PressOk, B!PressFails, B!Unwind, B!Release, B!Returns, B!Fails
  <2>5. QED
    BY <2>1, <2>2, <2>3, <2>4, QuietKeepsUses
<1>6. CASE Close
  <2>1. /\ UNCHANGED <<kcs, held, down>>
        /\ CloseStarts \/ CloseReturns \/ \E sym \in Wanted : Restore(sym)
    BY <1>6 DEF Close, senderVars
  <2>2. CASE CloseStarts
    BY <2>1, <2>2, QuietKeepsUses DEF CloseStarts, mapVars
  <2>3. ASSUME UNCHANGED out, Table(D, A)', Slots(D, A)',
               \A s \in Wanted : Place(D, A, s)' = Place(D, A, s)
        PROVE  Slots(D, A)' /\ Uses(D, A)'
    <3>1. \A n \in DOMAIN Keys : Keys[n] \in Wanted
      BY DEF Wanted
    <3>2. Places(D, A, out)'
      BY <2>3, <3>1 DEF Uses, Places
    <3>3. QED
      BY <2>1, <2>3, <3>2, UsesKept
  <2>4. CASE CloseReturns
    <3>1. Table(D, A)'
      BY <2>4 DEF CloseReturns, Table, Recorded
    <3>2. UNCHANGED <<server, out>>
      BY <2>4 DEF CloseReturns, mapVars
    <3>3. Slots(D, A)' /\ \A s \in Wanted : Place(D, A, s)' = Place(D, A, s)
      BY <3>2, SameSlots
    <3>4. QED
      BY <2>3, <3>1, <3>2, <3>3
  <2>5. ASSUME NEW sym \in Wanted, Restore(sym)
        PROVE  Slots(D, A)' /\ Uses(D, A)'
    <3>1. /\ UNCHANGED <<scratches, xpc, out>> /\ xpc = "restore"
          /\ sym \in Recorded /\ server \in [Keycodes -> Rows]
      BY <2>5 DEF Restore, CallsInv, XdoInv, LoopInv, XdoTypeOK
    <3>2. sym \in D /\ scratches[sym] = A[sym]
      BY <3>1 DEF Uses, Table
    <3>3. UNCHANGED server \/ server' = [server EXCEPT ![A[sym]] = Empty]
      BY <2>5, <3>2
         DEF Restore, SetKeysyms, SetKeysymsFails, ServerWrites, Refused, mapVars
    <3>4. Slots(D, A)' /\ \A s \in Wanted : Place(D, A, s)' = Place(D, A, s)
      <4>1. CASE UNCHANGED server
        BY <4>1, SameSlots
      <4>2. CASE server' = [server EXCEPT ![A[sym]] = Empty]
        BY <3>1, <3>2, <4>2, WriteSlot
      <4>3. QED
        BY <3>3, <4>1, <4>2
    <3>5. Table(D, A)'
      BY <3>1 DEF Uses, Table, Recorded
    <3>6. QED
      BY <2>3, <3>1, <3>4, <3>5
  <2>6. QED
    BY <2>1, <2>2, <2>4, <2>5
<1>7. QED
  BY <1>1, <1>2, <1>3, <1>4, <1>5, <1>6 DEF TalkStep

\* A call of KeyUp goes through all the keycodes that are pressed.
LEMMA ReleasedInvNext ==
  ASSUME CallsInv, AliveInv, ReleasedInv, TalkStep,
         NEW D, NEW A, Uses(D, A)
  PROVE  ReleasedInv'
<1>1. CASE bpc' # "release"
  BY <1>1 DEF ReleasedInv
<1>2. /\ Len(Keys) \in Nat /\ DOMAIN Keys = 1 .. Len(Keys)
      /\ Wanted = {Keys[n] : n \in 1 .. Len(Keys)}
      /\ Places(D, A, out) /\ Places(D, A, held)
      /\ \A k \in down : \E s \in Wanted : Place(D, A, s) = k
  BY KeysAssumption, LenProperties DEF Wanted, Uses
<1>3. \A k \in down : \E n \in 1 .. Len(Keys) : Place(D, A, Keys[n]) = k
  BY <1>2
<1>4. CASE Connect
  BY <1>1, <1>4 DEF Connect, Open, OpenFails, AliveInv, senderVars
<1>5. ASSUME NEW c \in {"bind", "down", "up"}, Begin(c)
      PROVE  ReleasedInv'
  BY <1>1, <1>5 DEF Begin, Calls, Ready, Stops, senderVars
<1>6. CASE Resolve
  <2>1. bpc = "idle"
    BY <1>6, KeycodesOutcome DEF Resolve, CallsInv, InterlockInv
  <2>2. CASE bpc' = "release"
    <3>1. Releases(out') /\ xpc' = "idle" /\ result' = "ok"
      BY <1>6, <2>1, <2>2 DEF Resolve, Stops, Presses, Releases, senderVars
    <3>2. out' = out /\ Len(out) = Len(Keys) /\ out \in Seq(Keycodes)
      BY <1>6, <3>1, KeycodesOutcome DEF Resolve, CallsInv, XdoInv, XdoTypeOK
    <3>3. /\ kcs' = out /\ i' = Len(Keys) /\ down' = down
          /\ DOMAIN out = 1 .. Len(Keys)
      BY <3>1, <3>2, LenProperties DEF Releases
    <3>4. QED
      BY <1>2, <1>3, <3>3 DEF ReleasedInv, Places
  <2>3. QED
    BY <1>1, <2>2
<1>7. CASE Up
  <2>1. held \in BP!Resolutions
    BY <1>7 DEF Up, CallsInv, BP!BindingTypeOK
  <2>2. DOMAIN held = 1 .. Len(Keys) /\ Len(held) = Len(Keys)
    BY <2>1, BindingAssumptions, BP!ResolutionSeq
  <2>3. kcs' = held /\ i' = Len(Keys) /\ down' = down
    BY <1>7, <2>2 DEF Up, Releases
  <2>4. QED
    BY <1>2, <1>3, <2>2, <2>3 DEF ReleasedInv, Places
<1>8. CASE Inject
  <2>1. CASE B!Release /\ bpc' = "release" /\ ~failed'
    <3>1. /\ down' = down \ {kcs[i]} /\ kcs' = kcs /\ i' = i - 1
          /\ bpc = "release" /\ ~failed
      BY <2>1 DEF B!Release, B!InputOk, B!InputFails, B!Returns, B!Fails
    <3>2. i \in 1 .. Len(Keys)
      BY <3>1 DEF CallsInv, BP!CallInv
    <3>3. \A k \in down' : \E n \in 1 .. i : kcs[n] = k /\ n # i
      BY <3>1 DEF ReleasedInv
    <3>4. \A n \in 1 .. i : n # i => n \in 1 .. i - 1
      BY <1>2, <3>2
    <3>5. QED
      BY <3>1, <3>3, <3>4 DEF ReleasedInv
  <2>2. CASE bpc' # "release" \/ failed'
    BY <2>2 DEF ReleasedInv
  <2>3. QED
    BY <1>8, <2>1, <2>2
       DEF Inject, B!PressOk, B!PressFails, B!Unwind, B!Returns, B!Fails
<1>9. CASE Close
  <2>1. bpc # "release" /\ bpc' = bpc
    BY <1>9
       DEF Close, CloseStarts, Restore, CloseReturns, CallsInv, InterlockInv, senderVars
  <2>2. QED
    BY <1>1, <2>1
<1>10. QED
  BY <1>4, <1>5, <1>6, <1>7, <1>8, <1>9 DEF TalkStep

----------------------------------------------------------------------------
(* The places over the lives of several processes *)

PlacesTotal == CallsInv /\ AliveInv /\ PlacesInv

\* A process that has bound nothing yet, with no key pressed.
LEMMA NothingPlaced ==
  ASSUME Recorded = {}, out = <<>>, kcs = <<>>, held = <<>>, down = {},
         NEW A
  PROVE  Slots({}, A) /\ Uses({}, A)
<1>1. DOMAIN <<>> = {}
  OBVIOUS
<1>2. QED
  BY <1>1 DEF Slots, Uses, Table, Places

LEMMA ProcessKeepsPlaces ==
  ASSUME PlacesTotal, ProcessStep
  PROVE  PlacesTotal'
<1> USE DEF PlacesTotal
<1>1. TalkStep /\ foreign' = (foreign /\ ~(xpc = "new" /\ down = {}))
  BY DEF ProcessStep
<1>2. CallsInv' /\ AliveInv'
  BY <1>1, CallsInvNext, AliveInvNext DEF TalkNext
<1>3. CASE foreign'
  BY <1>2, <1>3 DEF PlacesInv
<1>4. CASE ~foreign
  <2>1. /\ alive /\ xpc # "closed" => changed = {}
        /\ ReleasedInv
        /\ \E D \in SUBSET Wanted : \E A \in [D -> Keycodes] : Slots(D, A) /\ Uses(D, A)
    BY <1>4 DEF PlacesInv
  <2>2. PICK D \in SUBSET Wanted : \E A \in [D -> Keycodes] : Slots(D, A) /\ Uses(D, A)
    BY <2>1
  <2>3. PICK A \in [D -> Keycodes] : Slots(D, A) /\ Uses(D, A)
    BY <2>2
  <2>4. \E D2 \in SUBSET Wanted : \E A2 \in [D2 -> Keycodes] :
          Slots(D2, A2)' /\ Uses(D2, A2)'
    BY <1>1, <2>1, <2>3, TalkKeepsPlaces
  <2>5. ReleasedInv'
    BY <1>1, <2>1, <2>3, ReleasedInvNext
  <2>6. alive' /\ xpc' # "closed" => changed' = {}
    BY <1>1, <2>1, AnswersLeaveNoDoubt
  <2>7. QED
    BY <1>2, <2>4, <2>5, <2>6 DEF PlacesInv
<1>5. CASE xpc = "new" /\ down = {}
  <2>1. Connect
    BY <1>1, <1>5
       DEF TalkStep, Begin, Calls, Ready, Resolve, Up, Inject, Close, CloseStarts,
           CloseReturns, Restore, KeycodesNext, Release, Reapply, Forget, Skip, InPass1,
           Bound, Rebind, InPass2, ResolveBase, ResolveOnNonBase, ResolveScratch,
           Resolving, Pass1Done, Pass2Done, KeycodesReturns, AliveInv,
           B!PressOk, B!PressFails, B!Unwind, B!Release
  <2>2. /\ Recorded = {} /\ held = <<>> /\ bpc = "idle" /\ kcs = <<>> /\ out = <<>>
    BY <1>5 DEF AliveInv, CallsInv, BP!CallInv, XdoInv, LoopInv
  <2> DEFINE A == [s \in {} |-> MinKeycode]
  <2>3. A \in [{} -> Keycodes] /\ {} \in SUBSET Wanted
    OBVIOUS
  <2> HIDE DEF A
  <2>4. Slots({}, A) /\ Uses({}, A)
    BY <1>5, <2>2, NothingPlaced
  <2>5. Slots({}, A)' /\ Uses({}, A)'
    BY <2>1, <2>4, QuietKeepsUses DEF Connect, Open, OpenFails, senderVars, mapVars
  <2>6. /\ bpc' = "idle"
        /\ alive' /\ xpc' # "closed" => changed' = {}
    BY <2>1, <2>2 DEF Connect, Open, OpenFails, senderVars
  <2>7. QED
    BY <1>2, <2>3, <2>5, <2>6 DEF PlacesInv, ReleasedInv
<1>6. QED
  BY <1>1, <1>3, <1>4, <1>5

\* The next process finds its names where its predecessor's were.
LEMMA NewProcessKeepsPlaces ==
  ASSUME PlacesTotal, SessionInv', NewProcess
  PROVE  PlacesTotal'
<1>1. /\ xpc' = "new" /\ bpc' = "idle" /\ call' = "bind"
      /\ out' = <<>> /\ kcs' = <<>> /\ held' = <<>> /\ i' = 0
      /\ before' = {} /\ changed' = {}
      /\ UNCHANGED <<server, down, foreign>>
      /\ assigned' = [n \in DOMAIN Keys |-> MinKeycode]
      /\ scratches' = [s \in Wanted |-> NoKeycode]
  BY DEF NewProcess
<1>2. Recorded' = {}
  BY <1>1 DEF Recorded
<1>3. alive' = TRUE /\ failed' = FALSE /\ repressed' = FALSE
  BY DEF NewProcess
<1>4. /\ alive' \in BOOLEAN /\ failed' \in BOOLEAN /\ repressed' \in BOOLEAN
      /\ alive' /\ ~failed'
  BY <1>3, Zenon
<1>5. BP!BindingTypeOK'
  <2>1. assigned' \in BP!Resolutions
    BY <1>1, KeysAssumption, LenProperties, KeycodeAssumption
       DEF BP!Resolutions, Keycodes
  <2>2. down \subseteq Keycodes /\ 0 \in 0 .. Len(Keys)
    BY SeqOfKeys DEF PlacesTotal, CallsInv, BP!BindingTypeOK
  <2>3. QED
    BY <1>1, <1>4, <2>1, <2>2 DEF BP!BindingTypeOK
<1>6. CallsInv'
  BY <1>1, <1>5 DEF CallsInv, SessionInv, BP!CallInv, InterlockInv
<1>7. AliveInv'
  BY <1>1, <1>2, <1>4 DEF AliveInv
<1>8. PlacesInv'
  <2>1. CASE foreign'
    BY <2>1 DEF PlacesInv
  <2>2. CASE ~foreign'
    <3>1. PICK D \in SUBSET Wanted : \E A \in [D -> Keycodes] : Slots(D, A) /\ Uses(D, A)
      BY <1>1, <2>2 DEF PlacesTotal, PlacesInv
    <3>2. PICK A \in [D -> Keycodes] : Slots(D, A) /\ Uses(D, A)
      BY <3>1
    <3>3. Slots(D, A)' /\ \A s \in Wanted : Place(D, A, s)' = Place(D, A, s)
      BY <1>1, <3>2, SameSlots
    <3>4. Uses(D, A)'
      <4>1. DOMAIN <<>> = {}
        OBVIOUS
      <4>2. Table(D, A)'
        BY <1>2 DEF Table
      <4>3. Places(D, A, out)' /\ Places(D, A, kcs)' /\ Places(D, A, held)'
        BY <1>1, <4>1 DEF Places
      <4>4. \A k \in down' : \E s \in Wanted : Place(D, A, s)' = k
        BY <1>1, <3>2, <3>3 DEF Uses
      <4>5. QED
        BY <4>2, <4>3, <4>4 DEF Uses
    <3>5. QED
      BY <1>1, <3>3, <3>4 DEF PlacesInv, ReleasedInv
  <2>3. QED
    BY <2>1, <2>2
<1>9. QED
  BY <1>6, <1>7, <1>8 DEF PlacesTotal

LEMMA PlacesTotalInit == SessionInit => PlacesTotal
<1> SUFFICES ASSUME SessionInit PROVE PlacesTotal
  OBVIOUS
<1>1. TalkInit /\ TalkInv /\ foreign = FALSE
  BY TalkInvInit DEF SessionInit
<1>2. /\ Recorded = {} /\ out = <<>> /\ kcs = <<>> /\ held = <<>> /\ down = {}
      /\ changed = {} /\ xpc = "new" /\ bpc = "idle"
  BY <1>1 DEF TalkInit, XdoInit, Recorded, B!BindingInit
<1>3. alive = TRUE /\ failed = FALSE
  BY <1>1 DEF TalkInit, XdoInit, B!BindingInit
<1>4. alive /\ ~failed
  BY <1>3, Zenon
<1> DEFINE A == [s \in {} |-> MinKeycode]
<1>5. A \in [{} -> Keycodes] /\ {} \in SUBSET Wanted
  OBVIOUS
<1> HIDE DEF A
<1>6. Slots({}, A) /\ Uses({}, A)
  BY <1>2, NothingPlaced
<1>7. PlacesInv
  BY <1>2, <1>5, <1>6 DEF PlacesInv, ReleasedInv
<1>8. QED
  BY <1>1, <1>2, <1>4, <1>7 DEF PlacesTotal, TalkInv, AliveInv

LEMMA PlacesTotalNext ==
  PlacesTotal /\ SessionInv' /\ [SessionNext]_sessionVars => PlacesTotal'
<1> SUFFICES ASSUME PlacesTotal, SessionInv', [SessionNext]_sessionVars
             PROVE  PlacesTotal'
  OBVIOUS
<1>1. CASE ProcessStep
  BY <1>1, ProcessKeepsPlaces
<1>2. CASE OtherClientStep
  <2>1. CallsInv'
    BY <1>2, CallsInvNext DEF OtherClientStep, TalkNext, PlacesTotal
  <2>2. AliveInv'
    BY <1>2
       DEF OtherClientStep, OtherClient, Remap, senderVars, PlacesTotal, AliveInv, Recorded
  <2>3. foreign' = TRUE
    BY <1>2 DEF OtherClientStep
  <2>4. foreign'
    BY <2>3, Zenon
  <2>5. QED
    BY <2>1, <2>2, <2>4 DEF PlacesTotal, PlacesInv
<1>3. CASE Kill \/ Restart
  BY <1>3, NewProcessKeepsPlaces DEF Kill, Restart
<1>4. CASE UNCHANGED sessionVars
  <2>1. CallsInv'
    BY <1>4, CallsInvNext DEF sessionVars, PlacesTotal
  <2>2. AliveInv'
    BY <1>4
       DEF sessionVars, talkVars, xdoVars, mapVars, senderVars, PlacesTotal, AliveInv, Recorded
  <2>3. PlacesInv'
    BY <1>4
       DEF sessionVars, talkVars, xdoVars, mapVars, senderVars, PlacesTotal, PlacesInv,
           ReleasedInv, Slots, Uses, Table, Places, Place, Mapped, Recorded
  <2>4. QED
    BY <2>1, <2>2, <2>3 DEF PlacesTotal
<1>5. QED
  BY <1>1, <1>2, <1>3, <1>4 DEF SessionNext

----------------------------------------------------------------------------
(* The theorems *)

LEMMA SessionInvariant == SessionSpec => []SessionInv
BY SessionInvInit, SessionInvNext, PTL DEF SessionSpec

\* However often processes are killed, fail, lose their connection or restart,
\* and whatever other clients do to the map, no name of the sequence occupies
\* a second keycode.
THEOREM RestartsTheorem == SessionSpec => []RestartsDoNotLeak
<1>1. SessionInv => RestartsDoNotLeak
  BY DEF SessionInv
<1>2. QED
  BY <1>1, SessionInvariant, PTL

LEMMA PlacesInvariant == SessionSpec => []PlacesTotal
BY PlacesTotalInit, PlacesTotalNext, SessionInvariant, PTL DEF SessionSpec

\* The last release of an Up that succeeds.
LEMMA LastRelease ==
  ASSUME PlacesTotal, [SessionNext]_sessionVars,
         bpc = "release", bpc' = "idle", xpc' = "idle", ~foreign
  PROVE  down' = {}
<1>1. xpc = "idle" /\ ReleasedInv
  BY DEF PlacesTotal, CallsInv, InterlockInv, PlacesInv
<1>2. TalkStep
  BY DEF SessionNext, ProcessStep, OtherClientStep, OtherClient, Kill, Restart,
     NewProcess, sessionVars, talkVars, senderVars
<1>3. B!Release
  <2>1. ASSUME Resolve PROVE FALSE
    BY <1>1, <2>1, KeycodesOutcome DEF Resolve, PlacesTotal, CallsInv
  <2>2. Inject
    BY <1>1, <1>2, <2>1
       DEF TalkStep, Connect, Open, OpenFails, Begin, Calls, Ready, Up, Close,
           CloseStarts, Restore, CloseReturns
  <2>3. QED
    BY <2>2 DEF Inject, B!PressOk, B!PressFails, B!Unwind
<1>4. /\ down' = down \ {kcs[i]} /\ ~(i > 1) /\ ~failed
      /\ i \in 1 .. Len(Keys)
  <2>1. ~(i > 1) /\ ~failed'
    BY <1>3 DEF B!Release, B!Returns, B!Fails
  <2>2. B!InputOk(down \ {kcs[i]}) /\ UNCHANGED failed
    <3>1. CASE failed' = TRUE
      BY <2>1, <3>1, Zenon
    <3>2. QED
      BY <1>3, <3>1 DEF B!Release
  <2>3. i \in 1 .. Len(Keys)
    BY DEF PlacesTotal, CallsInv, BP!CallInv
  <2>4. QED
    BY <2>1, <2>2, <2>3 DEF B!InputOk
<1>5. i = 1
  BY <1>4, SeqOfKeys
<1>6. \A k \in down : \E n \in 1 .. 1 : kcs[n] = k
  BY <1>1, <1>4, <1>5 DEF ReleasedInv
<1>7. QED
  BY <1>4, <1>5, <1>6

\* A key that a killed, failed or disconnected process has left pressed is
\* released by the first Up of a later one that succeeds: the names still are,
\* or come back to, the keycodes they had, unless another client has changed
\* the map (xdo.go:257-268).
THEOREM UpReleasesTheorem == SessionSpec => UpReleasesForPredecessors
<1>1. PlacesTotal /\ [SessionNext]_sessionVars =>
        [bpc = "release" /\ bpc' = "idle" /\ xpc' = "idle" /\ ~foreign
           => down' = {}]_sessionVars
  BY LastRelease
<1>2. QED
  BY <1>1, PlacesInvariant, PTL DEF SessionSpec, UpReleasesForPredecessors
=============================================================================

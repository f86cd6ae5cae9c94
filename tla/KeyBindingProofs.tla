--------------------------- MODULE KeyBindingProofs ---------------------------
(***************************************************************************)
(* Proofs about KeyBinding for every set of keycodes, every length of the  *)
(* sequence and every combination of failures: between calls the X server  *)
(* sees pressed what held names, and a failed Down leaves no key behind.   *)
(***************************************************************************)
EXTENDS KeyBinding, SequenceTheorems, TLAPS

----------------------------------------------------------------------------
(* The inductive invariant: where each loop of KeyDown and KeyUp is, and   *)
(* what the keycodes of the call have done to the pressed ones so far.     *)

\* The keycodes of kcs at the indices in set.
Part(set) == {kcs[n] : n \in set}

\* A call in progress has keycodes and an index into them, no other has.
CallInv ==
  /\ bpc \in {"idle", "stopped"} => kcs = <<>> /\ i = 0
  /\ bpc \in {"press", "unwind", "release"} => kcs \in Resolutions /\ i \in 1 .. Names

\* Between calls; without an earlier Down that pressed other keycodes, held
\* names all that is pressed.
IdleInv ==
  bpc = "idle" =>
    /\ ~failed
    /\ Range(held) \subseteq down
    /\ ~repressed => down = Range(held)

\* The loop of KeyDown has added the keycodes before index i.
PressInv ==
  bpc = "press" =>
    /\ ~failed
    /\ down = before \cup Part(1 .. i - 1)
    /\ ~repressed => before = Range(held) /\ held \in {<<>>, kcs}

\* Its error path has released the keycodes after index i.
UnwindInv ==
  bpc = "unwind" /\ alive /\ ~failed => down \subseteq before \cup Part(1 .. i)

\* The loop of KeyUp has released the keycodes after index i.
ReleaseInv ==
  bpc = "release" =>
    /\ ~failed => down = before \ Part(i + 1 .. Names)
    /\ ~repressed => before = Range(held)
    /\ held \in {<<>>, kcs}

BindingInv ==
  /\ BindingTypeOK
  /\ CallInv /\ IdleInv /\ PressInv /\ UnwindInv /\ ReleaseInv
  /\ FailedDownLeavesNoKey

----------------------------------------------------------------------------
(* Lemmas about sequences of keycodes *)

\* A resolution is a sequence of Names keycodes, none of them missing.
LEMMA ResolutionSeq ==
  ASSUME NEW s \in Resolutions
  PROVE  /\ Len(s) = Names
         /\ s # <<>>
         /\ DOMAIN s = 1 .. Names
         /\ Range(s) = {s[n] : n \in 1 .. Names}
         /\ \A n \in 1 .. Names : s[n] \in Keycodes
<1>1. s \in [1 .. Names -> Keycodes] /\ Names \in Nat /\ Names > 0
  BY NamesAssumption DEF Resolutions
<1>2. s \in Seq(Keycodes)
  BY <1>1, SeqDef
<1>3. DOMAIN s = 1 .. Names /\ Len(s) \in Nat /\ DOMAIN s = 1 .. Len(s)
  BY <1>1, <1>2, LenProperties
<1>4. Len(s) = Names
  BY <1>1, <1>3
<1>5. s # <<>>
  BY <1>1, <1>4, EmptySeq
<1>6. QED
  BY <1>1, <1>3, <1>4, <1>5 DEF Range

\* nil holds nothing.
LEMMA NilRange == Range(<<>>) = {} /\ <<>> \notin Resolutions
<1>1. DOMAIN <<>> = {}
  OBVIOUS
<1>2. <<>> \notin Resolutions
  BY ResolutionSeq
<1>3. QED
  BY <1>1, <1>2 DEF Range

\* What one turn of a loop adds to a part of the sequence.
LEMMA PartStep ==
  ASSUME i \in 1 .. Names
  PROVE  /\ Part(1 .. i) = Part(1 .. i - 1) \cup {kcs[i]}
         /\ Part(i .. Names) = Part(i + 1 .. Names) \cup {kcs[i]}
<1>1. 1 .. i = (1 .. i - 1) \cup {i} /\ i .. Names = (i + 1 .. Names) \cup {i}
  BY NamesAssumption
<1>2. QED
  BY <1>1 DEF Part

----------------------------------------------------------------------------
(* The invariant holds at first and is kept by every action *)

LEMMA BindingInvInit == BindingInit => BindingInv
<1>1. BindingInit => BindingTypeOK
  <2>1. 0 \in 0 .. Names
    BY NamesAssumption
  <2>2. QED
    BY <2>1, Zenon DEF BindingInit, BindingTypeOK
<1>2. BindingInit => IdleInv
  BY NilRange DEF BindingInit, IdleInv
<1>3. QED
  BY <1>1, <1>2
     DEF BindingInit, BindingInv, CallInv, PressInv, UnwindInv, ReleaseInv,
         FailedDownLeavesNoKey

\* Down and Up begin.
LEMMA CallsKeepInv ==
  ASSUME BindingInv, Down \/ Up
  PROVE  BindingInv'
<1> USE NamesAssumption
<1>1. bpc = "idle" /\ assigned \in Resolutions /\ held \in Resolutions \cup {<<>>}
  BY DEF BindingInv, BindingTypeOK, Down, Up
<1>2. CASE Down
  <2>1. kcs' \in Resolutions /\ i' = 1 /\ bpc' = "press"
    BY <1>1, <1>2 DEF Down
  <2>2. BindingTypeOK' /\ CallInv'
    BY <1>2, <2>1 DEF BindingInv, BindingTypeOK, Down, CallInv
  <2>3. Part(1 .. i - 1)' = {}
    BY <2>1 DEF Part
  <2>4. PressInv'
    BY <1>1, <1>2, <2>1, <2>3 DEF BindingInv, IdleInv, PressInv, Down
  <2>5. QED
    BY <2>1, <2>2, <2>4
       DEF BindingInv, IdleInv, UnwindInv, ReleaseInv, FailedDownLeavesNoKey
<1>3. CASE Up
  <2>1. kcs' \in Resolutions /\ i' = Names /\ bpc' = "release"
    BY <1>1, <1>3 DEF Up
  <2>2. BindingTypeOK' /\ CallInv'
    BY <1>3, <2>1 DEF BindingInv, BindingTypeOK, Up, CallInv
  <2>3. Part(i + 1 .. Names)' = {}
    BY <2>1 DEF Part
  <2>4. ReleaseInv'
    BY <1>1, <1>3, <2>1, <2>3 DEF BindingInv, IdleInv, ReleaseInv, Up
  <2>5. QED
    BY <2>1, <2>2, <2>4
       DEF BindingInv, IdleInv, UnwindInv, PressInv, FailedDownLeavesNoKey
<1>4. QED
  BY <1>2, <1>3

\* A call whose Keycodes fails stops before it has sent a key.
LEMMA FailedResolutionsKeepInv ==
  ASSUME BindingInv, DownFails \/ UpFails
  PROVE  BindingInv'
BY NamesAssumption
   DEF BindingInv, BindingTypeOK, CallInv, IdleInv, PressInv, UnwindInv,
       ReleaseInv, FailedDownLeavesNoKey, DownFails, UpFails, Fails, Survives, Breaks

LEMMA PressKeepsInv ==
  ASSUME BindingInv, PressOk
  PROVE  BindingInv'
<1> USE NamesAssumption
<1>1. /\ bpc = "press" /\ ~failed
      /\ kcs \in Resolutions /\ i \in 1 .. Names
      /\ down = before \cup Part(1 .. i - 1)
      /\ ~repressed => before = Range(held) /\ held \in {<<>>, kcs}
  BY DEF BindingInv, CallInv, PressInv, PressOk
<1>2. Len(kcs) = Names /\ kcs[i] \in Keycodes /\ Range(kcs) = Part(1 .. Names)
  BY <1>1, ResolutionSeq DEF Part
<1>3. down' = before \cup Part(1 .. i)
  BY <1>1, PartStep DEF PressOk, InputOk
<1>4. BindingTypeOK' /\ ~failed'
  BY <1>1, <1>2 DEF BindingInv, BindingTypeOK, PressOk, InputOk, Returns
<1>5. CASE i = Names
  <2>1. bpc' = "idle" /\ held' = kcs /\ kcs' = <<>> /\ i' = 0
    BY <1>2, <1>5 DEF PressOk, Returns
  <2>2. down' = before \cup Range(kcs)
    BY <1>2, <1>3, <1>5
  <2>3. ~repressed => before \subseteq Range(kcs)
    BY <1>1, NilRange
  <2>4. repressed' = repressed
    BY DEF PressOk
  <2>5. IdleInv'
    BY <1>4, <2>1, <2>2, <2>3, <2>4 DEF IdleInv
  <2>6. QED
    BY <1>4, <2>1, <2>5
       DEF BindingInv, CallInv, PressInv, UnwindInv, ReleaseInv, FailedDownLeavesNoKey
<1>6. CASE i # Names
  <2>1. bpc' = "press" /\ i' = i + 1 /\ i' - 1 = i
        /\ UNCHANGED <<kcs, held, before, repressed>>
    BY <1>1, <1>2, <1>6 DEF PressOk
  <2>2. Part(1 .. i - 1)' = Part(1 .. i)
    BY <2>1 DEF Part
  <2>3. PressInv'
    BY <1>1, <1>3, <1>4, <2>1, <2>2 DEF PressInv
  <2>4. CallInv'
    BY <1>1, <1>6, <2>1 DEF CallInv
  <2>5. QED
    BY <1>4, <2>1, <2>3, <2>4
       DEF BindingInv, IdleInv, UnwindInv, ReleaseInv, FailedDownLeavesNoKey
<1>7. QED
  BY <1>5, <1>6

LEMMA FailedPressKeepsInv ==
  ASSUME BindingInv, PressFails
  PROVE  BindingInv'
<1> USE NamesAssumption
<1>1. /\ bpc = "press" /\ ~failed
      /\ kcs \in Resolutions /\ i \in 1 .. Names
      /\ down = before \cup Part(1 .. i - 1)
  BY DEF BindingInv, CallInv, PressInv, PressFails
<1>2. kcs[i] \in Keycodes
  BY <1>1, ResolutionSeq
<1>3. alive' => down' = before \cup Part(1 .. i - 1)
  BY <1>1 DEF PressFails, InputFails
<1>4. BindingTypeOK'
  <2>1. down' \subseteq Keycodes /\ alive' \in BOOLEAN
    BY <1>2 DEF BindingInv, BindingTypeOK, PressFails, InputFails
  <2>2. i' \in 0 .. Names
    BY <1>1 DEF PressFails, Fails
  <2>3. QED
    BY <1>1, <2>1, <2>2 DEF BindingInv, BindingTypeOK, PressFails, Fails
<1>5. CASE i = 1
  <2>1. bpc' = "stopped" /\ kcs' = <<>> /\ i' = 0 /\ before' = before
    BY <1>5 DEF PressFails, Fails
  <2>2. Part(1 .. i - 1) = {}
    BY <1>5 DEF Part
  <2>3. QED
    BY <1>3, <1>4, <2>1, <2>2
       DEF BindingInv, CallInv, IdleInv, PressInv, UnwindInv, ReleaseInv,
           FailedDownLeavesNoKey
<1>6. CASE i # 1
  <2>1. bpc' = "unwind" /\ i' = i - 1 /\ kcs' = kcs /\ before' = before
    BY <1>6 DEF PressFails
  <2>2. Part(1 .. i)' = Part(1 .. i - 1)
    BY <2>1 DEF Part
  <2>3. UnwindInv' /\ CallInv'
    BY <1>1, <1>3, <1>6, <2>1, <2>2 DEF UnwindInv, CallInv
  <2>4. QED
    BY <1>4, <2>1, <2>3
       DEF BindingInv, IdleInv, PressInv, ReleaseInv, FailedDownLeavesNoKey
<1>7. QED
  BY <1>5, <1>6

LEMMA UnwindKeepsInv ==
  ASSUME BindingInv, Unwind
  PROVE  BindingInv'
<1> USE NamesAssumption
<1>1. /\ bpc = "unwind"
      /\ kcs \in Resolutions /\ i \in 1 .. Names
      /\ alive /\ ~failed => down \subseteq before \cup Part(1 .. i)
  BY DEF BindingInv, CallInv, UnwindInv, Unwind
<1>2. alive' /\ ~failed' => down' \subseteq before \cup Part(1 .. i - 1)
  BY <1>1, PartStep DEF Unwind, InputOk, InputFails
<1>3. BindingTypeOK'
  <2>1. down' \subseteq Keycodes /\ alive' \in BOOLEAN /\ failed' \in BOOLEAN
    BY DEF BindingInv, BindingTypeOK, Unwind, InputOk, InputFails
  <2>2. QED
    BY <1>1, <2>1 DEF BindingInv, BindingTypeOK, Unwind, Fails
<1>4. CASE i = 1
  <2>1. bpc' = "stopped" /\ kcs' = <<>> /\ i' = 0 /\ before' = before
    BY <1>4 DEF Unwind, Fails
  <2>2. Part(1 .. i - 1) = {}
    BY <1>4 DEF Part
  <2>3. QED
    BY <1>2, <1>3, <2>1, <2>2
       DEF BindingInv, CallInv, IdleInv, PressInv, UnwindInv, ReleaseInv,
           FailedDownLeavesNoKey
<1>5. CASE i # 1
  <2>1. bpc' = "unwind" /\ i' = i - 1 /\ kcs' = kcs /\ before' = before
    BY <1>1, <1>5 DEF Unwind
  <2>2. Part(1 .. i)' = Part(1 .. i - 1)
    BY <2>1 DEF Part
  <2>3. UnwindInv' /\ CallInv'
    BY <1>1, <1>2, <1>5, <2>1, <2>2 DEF UnwindInv, CallInv
  <2>4. QED
    BY <1>3, <2>1, <2>3
       DEF BindingInv, IdleInv, PressInv, ReleaseInv, FailedDownLeavesNoKey
<1>6. QED
  BY <1>4, <1>5

LEMMA ReleaseKeepsInv ==
  ASSUME BindingInv, Release
  PROVE  BindingInv'
<1> USE NamesAssumption
<1>1. /\ bpc = "release"
      /\ kcs \in Resolutions /\ i \in 1 .. Names
      /\ ~failed => down = before \ Part(i + 1 .. Names)
      /\ ~repressed => before = Range(held)
      /\ held \in {<<>>, kcs}
  BY DEF BindingInv, CallInv, ReleaseInv, Release
<1>2. ~failed' => down' = before \ Part(i .. Names)
  BY <1>1, PartStep DEF Release, InputOk, InputFails
<1>3. down' \subseteq Keycodes /\ alive' \in BOOLEAN /\ failed' \in BOOLEAN
  BY DEF BindingInv, BindingTypeOK, Release, InputOk, InputFails
<1>4. CASE i = 1 /\ failed'
  <2>1. bpc' = "stopped" /\ held' = <<>> /\ kcs' = <<>> /\ i' = 0
    BY <1>4 DEF Release, Fails
  <2>2. QED
    BY <1>3, <1>4, <2>1
       DEF BindingInv, BindingTypeOK, CallInv, IdleInv, PressInv, UnwindInv,
           ReleaseInv, FailedDownLeavesNoKey, Release
<1>5. CASE i = 1 /\ ~failed'
  <2>1. bpc' = "idle" /\ held' = <<>> /\ kcs' = <<>> /\ i' = 0
    BY <1>5 DEF Release, Returns
  <2>2. BindingTypeOK' /\ CallInv'
    BY <1>3, <2>1 DEF BindingInv, BindingTypeOK, CallInv, Release
  <2>3. down' = before \ Range(kcs)
    BY <1>1, <1>2, <1>5, ResolutionSeq DEF Part
  <2>4. ~repressed' => down' = {}
    BY <1>1, <2>3, NilRange DEF Release
  <2>5. IdleInv'
    BY <1>5, <2>1, <2>4, NilRange DEF IdleInv
  <2>6. QED
    BY <2>1, <2>2, <2>5
       DEF BindingInv, PressInv, UnwindInv, ReleaseInv, FailedDownLeavesNoKey
<1>6. CASE i # 1
  <2>1. bpc' = "release" /\ i' = i - 1 /\ i' + 1 = i
        /\ UNCHANGED <<kcs, held, before, repressed>>
    BY <1>1, <1>6 DEF Release
  <2>2. BindingTypeOK' /\ CallInv'
    BY <1>1, <1>3, <1>6, <2>1 DEF BindingInv, BindingTypeOK, CallInv, Release
  <2>3. Part(i + 1 .. Names)' = Part(i .. Names)
    BY <2>1 DEF Part
  <2>4. ReleaseInv'
    BY <1>1, <1>2, <2>1, <2>3 DEF ReleaseInv
  <2>5. QED
    BY <2>1, <2>2, <2>4
       DEF BindingInv, IdleInv, PressInv, UnwindInv, FailedDownLeavesNoKey
<1>7. QED
  BY <1>4, <1>5, <1>6

LEMMA BindingInvNext == BindingInv /\ [BindingNext]_bindingVars => BindingInv'
<1> SUFFICES ASSUME BindingInv, [BindingNext]_bindingVars
             PROVE  BindingInv'
  OBVIOUS
<1>1. CASE Remap
  BY <1>1
     DEF BindingInv, BindingTypeOK, CallInv, IdleInv, PressInv, UnwindInv,
         ReleaseInv, FailedDownLeavesNoKey, Part, Remap
<1>2. CASE Disconnect
  BY <1>2
     DEF BindingInv, BindingTypeOK, CallInv, IdleInv, PressInv, UnwindInv,
         ReleaseInv, FailedDownLeavesNoKey, Disconnect, Breaks
<1>3. CASE UNCHANGED bindingVars
  BY <1>3
     DEF BindingInv, BindingTypeOK, CallInv, IdleInv, PressInv, UnwindInv,
         ReleaseInv, FailedDownLeavesNoKey, Part, bindingVars
<1>4. QED
  BY <1>1, <1>2, <1>3, CallsKeepInv, FailedResolutionsKeepInv, PressKeepsInv,
     FailedPressKeepsInv, UnwindKeepsInv, ReleaseKeepsInv
     DEF BindingNext, Stopped

\* Types and indices alone are kept by every action, whatever is pressed.
LEMMA CallInvNext ==
  ASSUME BindingTypeOK, CallInv, [BindingNext]_bindingVars
  PROVE  BindingTypeOK' /\ CallInv'
<1> USE NamesAssumption
<1>1. CASE Down \/ Up
  <2>1. kcs' \in Resolutions /\ i' \in 1 .. Names /\ bpc' \in {"press", "release"}
    BY <1>1 DEF BindingTypeOK, Down, Up
  <2>2. CallInv' /\ i' \in 0 .. Names
    BY <2>1 DEF CallInv
  <2>3. /\ before' = down /\ repressed' \in BOOLEAN
        /\ UNCHANGED <<assigned, held, failed, down, alive>>
    BY <1>1 DEF BindingTypeOK, Down, Up
  <2>4. QED
    BY <2>1, <2>2, <2>3 DEF BindingTypeOK
<1>2. CASE DownFails \/ UpFails
  BY <1>2 DEF BindingTypeOK, CallInv, DownFails, UpFails, Fails, Survives, Breaks
<1>3. CASE PressOk \/ PressFails \/ Unwind \/ Release
  <2>1. /\ bpc \in {"press", "unwind", "release"}
        /\ kcs \in Resolutions /\ i \in 1 .. Names
        /\ Len(kcs) = Names /\ kcs[i] \in Keycodes
    BY <1>3, ResolutionSeq DEF CallInv, PressOk, PressFails, Unwind, Release
  <2>2. down' \subseteq Keycodes /\ alive' \in BOOLEAN /\ failed' \in BOOLEAN
    BY <1>3, <2>1
       DEF BindingTypeOK, PressOk, PressFails, Unwind, Release, InputOk, InputFails
  <2>3. UNCHANGED <<assigned, before, repressed>>
    BY <1>3 DEF PressOk, PressFails, Unwind, Release
  <2>4. CASE bpc' \in {"idle", "stopped"} /\ kcs' = <<>> /\ i' = 0
    <3>1. held' \in Resolutions \cup {<<>>}
      BY <1>3, <2>1
         DEF BindingTypeOK, PressOk, PressFails, Unwind, Release, Returns, Fails
    <3>2. QED
      BY <2>2, <2>3, <2>4, <3>1 DEF BindingTypeOK, CallInv
  <2>5. CASE /\ bpc' \in {"press", "unwind", "release"} /\ i' \in 1 .. Names
             /\ UNCHANGED <<kcs, held>>
    BY <2>1, <2>2, <2>3, <2>5 DEF BindingTypeOK, CallInv
  <2>6. QED
    BY <1>3, <2>1, <2>4, <2>5 DEF PressOk, PressFails, Unwind, Release, Returns, Fails
<1>4. CASE Remap \/ Disconnect
  BY <1>4 DEF BindingTypeOK, CallInv, Remap, Disconnect, Breaks
<1>5. CASE UNCHANGED bindingVars
  BY <1>5 DEF BindingTypeOK, CallInv, bindingVars
<1>6. QED
  BY <1>1, <1>2, <1>3, <1>4, <1>5 DEF BindingNext, Stopped

LEMMA BindingInvariant == BindingSpec => []BindingInv
BY BindingInvInit, BindingInvNext, PTL DEF BindingSpec

----------------------------------------------------------------------------
(* The theorems *)

\* The variables keep their types: in particular the index of KeyDown's and
\* KeyUp's loops (xdo.go:309-345) stays within the sequence.
THEOREM BindingTypeCorrect == BindingSpec => []BindingTypeOK
<1>1. BindingInv => BindingTypeOK
  BY DEF BindingInv
<1>2. QED
  BY <1>1, BindingInvariant, PTL

\* Up releases what Down pressed: between calls exactly the keycodes in held
\* are pressed, whatever the map became in the meantime, until a Down comes in
\* while other keycodes are held.
THEOREM HeldIsDownTheorem == BindingSpec => []HeldIsDown
<1>1. BindingInv => HeldIsDown
  BY DEF BindingInv, IdleInv, HeldIsDown
<1>2. QED
  BY <1>1, BindingInvariant, PTL

\* What held names is pressed between calls, after any sequence of calls.
THEOREM HeldIsPressedTheorem == BindingSpec => []HeldIsPressed
<1>1. BindingInv => HeldIsPressed
  BY DEF BindingInv, IdleInv, HeldIsPressed
<1>2. QED
  BY <1>1, BindingInvariant, PTL

\* A Down that fails with the connection up has released every keycode it had
\* pressed, unless one of these releases failed too.
THEOREM FailedDownTheorem == BindingSpec => []FailedDownLeavesNoKey
<1>1. BindingInv => FailedDownLeavesNoKey
  BY DEF BindingInv
<1>2. QED
  BY <1>1, BindingInvariant, PTL
=============================================================================

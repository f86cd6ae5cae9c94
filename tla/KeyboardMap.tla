---------------------------- MODULE KeyboardMap ----------------------------
(***************************************************************************)
(* Keyboard maps as internal/xdo reads them: for each keycode a row of     *)
(* keysyms, of which the code only tells the base column from the others.  *)
(* Two columns stand for keysymsPerKeycode, so the rows of one map have    *)
(* one length; a server that changes the length between two reloads is not *)
(* modelled.                                                               *)
(***************************************************************************)
EXTENDS Naturals, FiniteSets, FiniteSetsExt

CONSTANTS
  MinKeycode, MaxKeycode,  \* of the X setup
  Keysyms                  \* keysyms other than NoSymbol

ASSUME KeycodeAssumption ==
  MinKeycode \in Nat \ {0} /\ MaxKeycode \in Nat /\ MinKeycode <= MaxKeycode

NoSymbol == "NoSymbol"
ASSUME KeysymAssumption == NoSymbol \notin Keysyms

Keycodes == MinKeycode .. MaxKeycode
NoKeycode == 0    \* "not found"; X keycodes start at 8

Rows == [base : Keysyms \cup {NoSymbol}, other : Keysyms \cup {NoSymbol}]
Empty == [base |-> NoSymbol, other |-> NoSymbol]
\* What a scratch binding writes: newMap with sym in the base column.
ScratchRow(sym) == [base |-> sym, other |-> NoSymbol]

\* Mutant of FindBase: any column counts.
FindBaseAny(map, sym) ==
  LET found == {k \in Keycodes : sym \in {map[k].base, map[k].other}}
  IN  IF found = {} THEN NoKeycode ELSE Min(found)

\* Mutant of FindBase: the last keycode is not looked at.
FindBaseShort(map, sym) ==
  LET found == {k \in MinKeycode .. MaxKeycode - 1 : map[k].base = sym}
  IN  IF found = {} THEN NoKeycode ELSE Min(found)

\* findBaseKeycode: the lowest keycode with sym in its base column.
FindBase(map, sym) ==
  LET found == {k \in Keycodes : map[k].base = sym}
  IN  IF found = {} THEN NoKeycode ELSE Min(found)

\* keysymOnNonBase; its callers have looked for a base mapping before.
OnNonBase(map, sym) == \E k \in Keycodes : map[k].other = sym

\* keycodeFullyEmpty
FullyEmpty(map, k) == map[k] = Empty

\* findEmptyKeycode: the highest fully empty keycode no scratch has reserved.
\* The copy of its row that the code keeps as "previous" is Empty.
FindEmpty(map, reserved) ==
  LET free == {k \in Keycodes \ reserved : FullyEmpty(map, k)}
  IN  IF free = {} THEN NoKeycode ELSE Max(free)
=============================================================================

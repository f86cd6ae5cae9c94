---------------------------- MODULE KeysymNames ----------------------------
(***************************************************************************)
(* The lookup of a configured key sequence in the table of keysym names    *)
(* (internal/xdo).  The prefixes that mark a macro are tokens of their     *)
(* own; none of them begins another one, so that the longest match is the  *)
(* only match.                                                             *)
(***************************************************************************)
EXTENDS Strings

CONSTANT MaxValue   \* the largest keysym, 2^32 - 1 in the code

ASSUME MaxValueAssumption == MaxValue \in Nat

KeysymPrefixes == {"XKB_KEY_", "XF86XK_", "XK_"}

\* Mutant of SplitKeysequence: empty parts are kept.
SplitKeysequenceAll(keys) ==
  LET parts == SplitPlus(TrimSpace(keys))
  IN  [i \in DOMAIN parts |-> TrimSpace(parts[i])]

SplitKeysequence(keys) ==
  LET parts == SplitPlus(TrimSpace(keys))
      names == Ascending({i \in DOMAIN parts : TrimSpace(parts[i]) # <<>>})
  IN  [k \in DOMAIN names |-> TrimSpace(parts[names[k]])]

StripKeysymPrefix(name) ==
  IF name # <<>> /\ Head(name) \in KeysymPrefixes THEN Tail(name) ELSE name

Unknown == MaxValue + 1

LookupKeysym(t, name) ==
  LET bare == StripKeysymPrefix(TrimSpace(name))
  IN  IF bare \in DOMAIN t THEN t[bare] ELSE Unknown

\* What Keycodes makes of the names of a sequence: an empty one is an error, and
\* so is an unknown name anywhere.  Module Xdo has what it does between two
\* names.
ResolveNames(t, keys) ==
  LET parts == SplitKeysequence(keys)
      syms == [i \in DOMAIN parts |-> LookupKeysym(t, parts[i])]
  IN  IF Contains(syms, Unknown) THEN <<>> ELSE syms
=============================================================================

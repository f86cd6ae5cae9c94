------------------------------ MODULE Strings ------------------------------
(***************************************************************************)
(* The functions of Go's package strings that the program uses.  A string  *)
(* is a sequence of tokens: words that no code takes apart, " " and "+".   *)
(***************************************************************************)
EXTENDS Naturals, FiniteSets, Sequences, SequencesExt

Blank == " "

\* strings.TrimSpace
TrimSpace(s) ==
  LET solid == {i \in DOMAIN s : s[i] # Blank}
  IN  IF solid = {} THEN <<>> ELSE SubSeq(s, Min(solid), Max(solid))

\* strings.Cut(s, " ")
Cut(s) ==
  LET i == SelectInSeq(s, LAMBDA c : c = Blank)
  IN  IF i = 0 THEN [before |-> s, after |-> <<>>, found |-> FALSE]
      ELSE [before |-> SubSeq(s, 1, i - 1), after |-> SubSeq(s, i + 1, Len(s)),
            found |-> TRUE]

\* The elements of a finite set of numbers in ascending order.
Ascending(set) ==
  CHOOSE f \in [1 .. Cardinality(set) -> set] :
    \A i, j \in DOMAIN f : i < j => f[i] < f[j]

\* strings.Split(s, "+"): what is between two neighbours of these cuts.
SplitPlus(s) ==
  LET cuts == Ascending({0, Len(s) + 1} \cup {i \in DOMAIN s : s[i] = "+"})
  IN  [k \in 1 .. Len(cuts) - 1 |-> SubSeq(s, cuts[k] + 1, cuts[k + 1] - 1)]
=============================================================================

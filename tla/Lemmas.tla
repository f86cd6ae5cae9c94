------------------------------- MODULE Lemmas -------------------------------
(***************************************************************************)
(* Lemmas that the proofs about several components share: induction over   *)
(* numbers, with the set of numbers that have a property in place of the   *)
(* property; least and greatest elements; sets in ascending order; and the *)
(* functions of module Strings.                                            *)
(***************************************************************************)
EXTENDS Strings, FiniteSetTheorems, FunctionTheorems, SequenceTheorems,
        WellFoundedInduction, TLAPS

\* A nonempty set of numbers has a least element.
LEMMA LeastOfSet ==
  ASSUME NEW T, T \subseteq Nat, T # {}
  PROVE  \E x \in T : \A y \in T : x <= y
<1>1. \E x \in T : \A y \in T : <<y, x>> \notin OpToRel(<, Nat)
  BY NatLessThanWellFounded, WFMin
<1>2. \A x, y \in Nat : <<y, x>> \notin OpToRel(<, Nat) => x <= y
  BY DEF OpToRel
<1>3. QED
  BY <1>1, <1>2

\* Numbers from 0 to a bound, one from the other, reach every number up to it.
LEMMA UpToInduction ==
  ASSUME NEW N \in Nat, NEW T, 0 \in T,
         \A n \in 0 .. N - 1 : n \in T => n + 1 \in T
  PROVE  \A n \in 0 .. N : n \in T
<1> DEFINE missing == (0 .. N) \ T
<1>1. ASSUME missing # {} PROVE FALSE
  <2>1. missing \subseteq Nat
    OBVIOUS
  <2>2. PICK x \in missing : \A y \in missing : x <= y
    BY <1>1, <2>1, LeastOfSet
  <2>3. x \in 1 .. N /\ x \notin T
    BY <2>2
  <2>4. x - 1 \in 0 .. N - 1 /\ x - 1 \in 0 .. N /\ x - 1 \notin missing
    BY <2>2, <2>3
  <2>5. x - 1 \in T
    BY <2>4
  <2>6. (x - 1) + 1 \in T
    BY <2>4, <2>5
  <2>7. QED
    BY <2>3, <2>6
<1>2. QED
  BY <1>1

----------------------------------------------------------------------------
(* Least and greatest elements *)

LEMMA MinOfSet ==
  ASSUME NEW T, T \subseteq Nat, T # {}
  PROVE  Min(T) \in T /\ \A y \in T : Min(T) <= y
<1>1. PICK x \in T : \A y \in T : x <= y
  BY LeastOfSet
<1>2. QED
  BY <1>1 DEF Min

LEMMA MaxOfSet ==
  ASSUME NEW n \in Nat, NEW T, T \subseteq 1 .. n, T # {}
  PROVE  Max(T) \in T /\ \A y \in T : y <= Max(T)
<1> DEFINE below == {n - y : y \in T}
<1>1. below \subseteq Nat
  OBVIOUS
<1>2. below # {}
  OBVIOUS
<1>3. PICK b \in below : \A z \in below : b <= z
  BY <1>1, <1>2, LeastOfSet
<1>4. PICK x \in T : b = n - x
  BY <1>3
<1>5. \A y \in T : x >= y
  <2>1. SUFFICES ASSUME NEW y \in T PROVE x >= y
    OBVIOUS
  <2>2. n - x <= n - y
    BY <1>3, <1>4
  <2>3. QED
    BY <2>2
<1>6. QED
  BY <1>5 DEF Max

----------------------------------------------------------------------------
(* Finite sets of numbers in ascending order *)

Climbs(f) == \A i, j \in DOMAIN f : i < j => f[i] < f[j]

\* One more node, below all others.
LEMMA ClimbsFrom ==
  ASSUME NEW n \in Nat, NEW set \in SUBSET Nat, NEW x \in set,
         \A y \in set : x <= y,
         NEW f \in [1 .. n -> set \ {x}], Climbs(f)
  PROVE  \E g \in [1 .. n + 1 -> set] : Climbs(g)
<1> DEFINE g == [i \in 1 .. n + 1 |-> IF i = 1 THEN x ELSE f[i - 1]]
<1>1. ASSUME NEW i \in 1 .. n + 1, i # 1 PROVE i - 1 \in 1 .. n /\ g[i] = f[i - 1]
  BY <1>1
<1>2. g[1] = x
  OBVIOUS
<1>3. \A i \in 1 .. n + 1 : g[i] \in set
  BY <1>1, <1>2
<1>4. g \in [1 .. n + 1 -> set]
  BY <1>3
<1>5. ASSUME NEW i \in 1 .. n + 1, NEW j \in 1 .. n + 1, i < j PROVE g[i] < g[j]
  <2>1. j # 1
    BY <1>5
  <2>2. j - 1 \in 1 .. n /\ g[j] = f[j - 1]
    BY <1>1, <2>1
  <2>3. CASE i = 1
    <3>1. f[j - 1] \in set /\ f[j - 1] # x
      BY <2>2
    <3>2. x <= f[j - 1] /\ x \in Nat /\ f[j - 1] \in Nat
      BY <3>1
    <3>3. QED
      BY <1>2, <2>2, <2>3, <3>1, <3>2
  <2>4. CASE i # 1
    <3>1. i - 1 \in 1 .. n /\ g[i] = f[i - 1]
      BY <1>1, <2>4
    <3>2. i - 1 < j - 1
      BY <1>5
    <3>3. f[i - 1] < f[j - 1]
      BY <2>2, <3>1, <3>2 DEF Climbs
    <3>4. QED
      BY <2>2, <3>1, <3>3
  <2>5. QED
    BY <2>3, <2>4
<1> HIDE DEF g
<1>6. Climbs(g)
  BY <1>4, <1>5 DEF Climbs
<1>7. QED
  BY <1>4, <1>6

\* Every finite set of numbers can be listed in order.
LEMMA ClimbsExist ==
  ASSUME NEW set \in SUBSET Nat, IsFiniteSet(set)
  PROVE  \E f \in [1 .. Cardinality(set) -> set] : Climbs(f)
<1> DEFINE Listed(n) ==
             \A some \in SUBSET Nat :
               IsFiniteSet(some) /\ Cardinality(some) = n =>
                 \E f \in [1 .. n -> some] : Climbs(f)
           sizes == {n \in Nat : Listed(n)}
<1>1. 0 \in sizes
  <2>1. ASSUME NEW some \in SUBSET Nat
        PROVE  \E f \in [1 .. 0 -> some] : Climbs(f)
    <3>1. <<>> \in [1 .. 0 -> some] /\ DOMAIN <<>> = {}
      OBVIOUS
    <3>2. Climbs(<<>>)
      BY <3>1 DEF Climbs
    <3>3. QED
      BY <3>1, <3>2
  <2>2. QED
    BY <2>1
<1>2. ASSUME NEW n \in Nat, n \in sizes PROVE n + 1 \in sizes
  <2>1. ASSUME NEW some \in SUBSET Nat, IsFiniteSet(some), Cardinality(some) = n + 1
        PROVE  \E f \in [1 .. n + 1 -> some] : Climbs(f)
    <3>1. some # {}
      BY <2>1, FS_EmptySet
    <3>2. PICK x \in some : \A y \in some : x <= y
      BY <3>1, LeastOfSet
    <3>3. IsFiniteSet(some \ {x}) /\ Cardinality(some \ {x}) = Cardinality(some) - 1
      BY <2>1, FS_RemoveElement
    <3>4. Cardinality(some \ {x}) = n
      BY <2>1, <3>3
    <3>5. PICK f \in [1 .. n -> some \ {x}] : Climbs(f)
      BY <1>2, <3>3, <3>4
    <3>6. QED
      BY <3>2, <3>5, ClimbsFrom
  <2>2. QED
    BY <2>1
<1>3. Cardinality(set) \in Nat
  BY FS_CardinalityType
<1> HIDE DEF sizes
<1>4. \A n \in 0 .. Cardinality(set) : n \in sizes
  <2>1. \A n \in 0 .. Cardinality(set) - 1 : n \in sizes => n + 1 \in sizes
    BY <1>2, <1>3
  <2>2. QED
    BY <1>1, <1>3, <2>1, UpToInduction
<1>5. Cardinality(set) \in sizes
  BY <1>3, <1>4
<1>6. QED
  BY <1>5 DEF sizes

\* Ascending is such a list, and has all elements of the set.
LEMMA AscendingListsAll ==
  ASSUME NEW set \in SUBSET Nat, IsFiniteSet(set)
  PROVE  /\ Ascending(set) \in [1 .. Cardinality(set) -> set]
         /\ Climbs(Ascending(set))
         /\ Ascending(set) \in Seq(set) /\ Len(Ascending(set)) = Cardinality(set)
         /\ Range(Ascending(set)) = set
<1> DEFINE n == Cardinality(set)
<1>2. n \in Nat /\ IsFiniteSet(1 .. n) /\ Cardinality(1 .. n) = n
  <2>1. n \in Nat
    BY FS_CardinalityType
  <2>2. QED
    BY <2>1, FS_Interval
<1>3. PICK f \in [1 .. n -> set] : f = Ascending(set) /\ Climbs(f)
  <2>1. \E f \in [1 .. n -> set] : Climbs(f)
    BY ClimbsExist
  <2>2. QED
    BY <2>1 DEF Ascending, Climbs
<1>4. \A i, j \in 1 .. n : f[i] \in Nat /\ (i < j => f[i] < f[j])
  BY <1>3 DEF Climbs
<1>5. \A i, j \in 1 .. n : f[i] = f[j] => i = j
  <2>1. SUFFICES ASSUME NEW i \in 1 .. n, NEW j \in 1 .. n, f[i] = f[j] PROVE i = j
    OBVIOUS
  <2>2. i \in Nat /\ j \in Nat /\ ~ (i < j) /\ ~ (j < i)
    BY <1>2, <1>4, <2>1
  <2>3. QED
    BY <2>2
<1>6. f \in Injection(1 .. n, set)
  BY <1>5, Fun_IsInj
<1>7. f \in Surjection(1 .. n, set)
  <2>1. Cardinality(1 .. n) = Cardinality(set)
    BY <1>2
  <2> HIDE DEF n
  <2>2. Cardinality(1 .. n) = Cardinality(set) <=> f \in Surjection(1 .. n, set)
    BY <1>6, FS_Injection
  <2>3. QED
    BY <2>1, <2>2
<1>8. \A x \in set : \E i \in 1 .. n : f[i] = x
  BY <1>7 DEF Surjection
<1>9. Range(f) = set
  BY <1>8 DEF Range
<1>10. f \in Seq(set) /\ Len(f) = n
  BY <1>2
<1>11. QED
  BY <1>3, <1>9, <1>10

----------------------------------------------------------------------------
(* Strings *)

\* A string that does not end in a blank.
SolidEnd(s) == s # <<>> => s[Len(s)] # Blank

\* TrimSpace leaves no blank at either end.
LEMMA TrimSpaceIsSolid ==
  ASSUME NEW W, NEW s \in Seq(W)
  PROVE  /\ TrimSpace(s) \in Seq(W)
         /\ SolidEnd(TrimSpace(s))
<1> DEFINE solid == {i \in DOMAIN s : s[i] # Blank}
           a == Min(solid)
           b == Max(solid)
<1>1. solid \subseteq 1 .. Len(s) /\ Len(s) \in Nat
  OBVIOUS
<1>2. CASE solid = {}
  <2>1. TrimSpace(s) = <<>>
    BY <1>2 DEF TrimSpace
  <2>2. QED
    BY <2>1 DEF SolidEnd
<1>3. CASE solid # {}
  <2>1. a \in solid /\ \A y \in solid : a <= y
    <3>1. solid \subseteq Nat
      BY <1>1
    <3>2. QED
      BY <1>3, <3>1, MinOfSet
  <2>2. b \in solid
    BY <1>1, <1>3, MaxOfSet
  <2>3. a \in 1 .. Len(s) /\ b \in a .. Len(s) /\ s[b] # Blank
    BY <2>1, <2>2
  <2>4. TrimSpace(s) = SubSeq(s, a, b)
    BY <1>3 DEF TrimSpace
  <2> HIDE DEF a, b
  <2>5. \A i \in a .. b : s[i] \in W
    BY <2>3
  <2>6. /\ SubSeq(s, a, b) \in Seq(W)
        /\ Len(SubSeq(s, a, b)) = b - a + 1
        /\ \A i \in 1 .. b - a + 1 : SubSeq(s, a, b)[i] = s[a + i - 1]
    BY <2>3, <2>5, SubSeqProperties
  <2>7. SubSeq(s, a, b)[b - a + 1] = s[b]
    BY <2>3, <2>6
  <2>8. QED
    BY <2>3, <2>4, <2>6, <2>7 DEF SolidEnd
<1>4. QED
  BY <1>2, <1>3

\* Cut takes a string apart at its first blank.
LEMMA CutAtBlank ==
  ASSUME NEW W, NEW s \in Seq(W), NEW i \in 1 .. Len(s), s[i] = Blank,
         \A j \in 1 .. i - 1 : s[j] # Blank
  PROVE  /\ Cut(s) = [before |-> SubSeq(s, 1, i - 1),
                      after |-> SubSeq(s, i + 1, Len(s)), found |-> TRUE]
         /\ SubSeq(s, 1, i - 1) \in Seq(W)
         /\ Len(SubSeq(s, 1, i - 1)) = i - 1
         /\ \A j \in 1 .. i - 1 : SubSeq(s, 1, i - 1)[j] = s[j]
         /\ SubSeq(s, i + 1, Len(s)) \in Seq(W)
         /\ Len(SubSeq(s, i + 1, Len(s))) = Len(s) - i
         /\ \A j \in 1 .. Len(s) - i : SubSeq(s, i + 1, Len(s))[j] = s[i + j]
<1> DEFINE blanks == {j \in 1 .. Len(s) : s[j] = Blank}
<1>1. blanks \subseteq Nat /\ i \in blanks
  OBVIOUS
<1>2. Min(blanks) \in blanks /\ \A y \in blanks : Min(blanks) <= y
  BY <1>1, MinOfSet
<1>3. Min(blanks) = i
  BY <1>1, <1>2
<1>4. SelectInSeq(s, LAMBDA w : w = Blank) = i
  BY <1>1, <1>3 DEF SelectInSeq
<1>5. Cut(s) = [before |-> SubSeq(s, 1, i - 1),
                after |-> SubSeq(s, i + 1, Len(s)), found |-> TRUE]
  <2>1. i # 0
    OBVIOUS
  <2>2. QED
    BY <1>4, <2>1, Zenon DEF Cut
<1>6. \A j \in 1 .. Len(s) : s[j] \in W
  OBVIOUS
<1>7. /\ SubSeq(s, 1, i - 1) \in Seq(W)
      /\ Len(SubSeq(s, 1, i - 1)) = i - 1
      /\ \A j \in 1 .. i - 1 : SubSeq(s, 1, i - 1)[j] = s[j]
  <2>1. \A j \in 1 .. i - 1 : s[j] \in W
    BY <1>6
  <2>2. /\ SubSeq(s, 1, i - 1) \in Seq(W)
        /\ Len(SubSeq(s, 1, i - 1)) = IF 1 <= i - 1 THEN i - 1 - 1 + 1 ELSE 0
        /\ \A j \in 1 .. i - 1 - 1 + 1 : SubSeq(s, 1, i - 1)[j] = s[1 + j - 1]
    BY <2>1, SubSeqProperties
  <2>3. QED
    BY <2>2
<1>8. /\ SubSeq(s, i + 1, Len(s)) \in Seq(W)
      /\ Len(SubSeq(s, i + 1, Len(s))) = Len(s) - i
      /\ \A j \in 1 .. Len(s) - i : SubSeq(s, i + 1, Len(s))[j] = s[i + j]
  <2>1. \A j \in i + 1 .. Len(s) : s[j] \in W
    BY <1>6
  <2>2. /\ SubSeq(s, i + 1, Len(s)) \in Seq(W)
        /\ Len(SubSeq(s, i + 1, Len(s))) =
             IF i + 1 <= Len(s) THEN Len(s) - (i + 1) + 1 ELSE 0
        /\ \A j \in 1 .. Len(s) - (i + 1) + 1 :
             SubSeq(s, i + 1, Len(s))[j] = s[i + 1 + j - 1]
    BY <2>1, SubSeqProperties
  <2>3. QED
    BY <2>2
<1>9. QED
  BY <1>5, <1>7, <1>8

\* A string without a blank is not taken apart.
LEMMA CutWithoutBlank ==
  ASSUME NEW W, NEW s \in Seq(W), \A j \in 1 .. Len(s) : s[j] # Blank
  PROVE  Cut(s) = [before |-> s, after |-> <<>>, found |-> FALSE]
<1>1. {j \in 1 .. Len(s) : s[j] = Blank} = {}
  OBVIOUS
<1>2. SelectInSeq(s, LAMBDA w : w = Blank) = 0
  BY <1>1 DEF SelectInSeq
<1>3. QED
  BY <1>2 DEF Cut

\* One of the two applies.
LEMMA BlankOrNone ==
  ASSUME NEW W, NEW s \in Seq(W)
  PROVE  \/ \A j \in 1 .. Len(s) : s[j] # Blank
         \/ \E i \in 1 .. Len(s) : s[i] = Blank /\ \A j \in 1 .. i - 1 : s[j] # Blank
<1> DEFINE blanks == {j \in 1 .. Len(s) : s[j] = Blank}
<1>1. CASE blanks = {}
  BY <1>1
<1>2. CASE blanks # {}
  <2>1. blanks \subseteq Nat
    OBVIOUS
  <2>2. PICK i \in blanks : \A y \in blanks : i <= y
    BY <1>2, <2>1, LeastOfSet
  <2>3. \A j \in 1 .. i - 1 : s[j] # Blank
    BY <2>2
  <2>4. QED
    BY <2>2, <2>3
<1>3. QED
  BY <1>1, <1>2

\* What Cut returns, and that a string without a blank at its end has something
\* after its first one.
LEMMA CutParts ==
  ASSUME NEW W, NEW s \in Seq(W), SolidEnd(s)
  PROVE  /\ Cut(s).before \in Seq(W)
         /\ Cut(s).after \in Seq(W)
         /\ SolidEnd(Cut(s).after)
         /\ Cut(s).found => Cut(s).after # <<>>
         /\ s = <<>> => Cut(s).before = <<>>
         /\ s # <<>> /\ s[1] # Blank => Cut(s).before # <<>> /\ Cut(s).before[1] = s[1]
<1>1. CASE \A j \in 1 .. Len(s) : s[j] # Blank
  <2>1. Cut(s) = [before |-> s, after |-> <<>>, found |-> FALSE]
    BY <1>1, CutWithoutBlank
  <2>2. QED
    BY <2>1 DEF SolidEnd
<1>2. CASE \E i \in 1 .. Len(s) : s[i] = Blank /\ \A j \in 1 .. i - 1 : s[j] # Blank
  <2>1. PICK i \in 1 .. Len(s) : s[i] = Blank /\ \A j \in 1 .. i - 1 : s[j] # Blank
    BY <1>2
  <2> DEFINE before == SubSeq(s, 1, i - 1)
             after == SubSeq(s, i + 1, Len(s))
  <2>2. /\ Cut(s) = [before |-> before, after |-> after, found |-> TRUE]
        /\ before \in Seq(W) /\ Len(before) = i - 1
        /\ \A j \in 1 .. i - 1 : before[j] = s[j]
        /\ after \in Seq(W) /\ Len(after) = Len(s) - i
        /\ \A j \in 1 .. Len(s) - i : after[j] = s[i + j]
    BY <2>1, CutAtBlank
  <2> HIDE DEF before, after
  <2>3. Len(s) \in Nat /\ s # <<>> /\ s[Len(s)] # Blank
    BY DEF SolidEnd
  <2>4. i # Len(s)
    BY <2>1, <2>3
  <2>5. Len(after) \in 1 .. Len(s) /\ after[Len(after)] = s[Len(s)]
    <3>1. Len(s) - i \in 1 .. Len(s) - i /\ Len(s) - i \in 1 .. Len(s)
      BY <2>1, <2>3, <2>4
    <3>2. i + (Len(s) - i) = Len(s)
      BY <2>3
    <3>3. after[Len(s) - i] = s[i + (Len(s) - i)]
      BY <2>2, <3>1
    <3>4. QED
      BY <2>2, <3>1, <3>2, <3>3
  <2>6. after # <<>> /\ SolidEnd(after)
    BY <2>2, <2>3, <2>5 DEF SolidEnd
  <2>7. ASSUME s[1] # Blank PROVE before # <<>> /\ before[1] = s[1]
    <3>1. i > 1
      BY <2>1, <2>7
    <3>2. QED
      BY <2>2, <3>1
  <2>8. QED
    BY <2>2, <2>3, <2>6, <2>7
<1>3. QED
  BY <1>1, <1>2, BlankOrNone

\* A string without blanks around it stays as it is.
LEMMA SolidIsTrimmed ==
  ASSUME NEW W, NEW s \in Seq(W), s # <<>>, s[1] # Blank, s[Len(s)] # Blank
  PROVE  TrimSpace(s) = s
<1> DEFINE solid == {i \in DOMAIN s : s[i] # Blank}
<1>1. Len(s) \in Nat /\ Len(s) >= 1
  OBVIOUS
<1>2. solid \subseteq 1 .. Len(s) /\ solid \subseteq Nat /\ 1 \in solid /\ Len(s) \in solid
  BY <1>1
<1>3. solid # {} /\ TrimSpace(s) = SubSeq(s, Min(solid), Max(solid))
  BY <1>2 DEF TrimSpace
<1> HIDE DEF solid
<1>4. Min(solid) = 1
  <2>1. Min(solid) \in solid /\ Min(solid) <= 1
    BY <1>2, <1>3, MinOfSet
  <2>2. Min(solid) \in 1 .. Len(s)
    BY <1>2, <2>1
  <2>3. QED
    BY <1>1, <2>1, <2>2
<1>5. Max(solid) = Len(s)
  <2>1. Max(solid) \in solid /\ Len(s) <= Max(solid)
    BY <1>1, <1>2, <1>3, MaxOfSet
  <2>2. Max(solid) \in 1 .. Len(s)
    BY <1>2, <2>1
  <2>3. QED
    BY <1>1, <2>1, <2>2
<1>6. QED
  BY <1>3, <1>4, <1>5, SubSeqFull

\* Sequences of at most three words.
LEMMA OneWord ==
  ASSUME NEW a
  PROVE  /\ <<a>> \in Seq({a}) /\ <<a>> # <<>> /\ Len(<<a>>) = 1
         /\ <<a>>[1] = a /\ Head(<<a>>) = a /\ <<>> \o <<a>> = <<a>>
<1>1. <<a>> \in Seq({a})
  OBVIOUS
<1>2. <<>> \o <<a>> = <<a>>
  BY <1>1
<1>3. <<a>> # <<>> /\ Len(<<a>>) = 1 /\ <<a>>[1] = a /\ Head(<<a>>) = a
  OBVIOUS
<1>4. QED
  BY <1>1, <1>2, <1>3, Zenon

LEMMA TwoWords ==
  ASSUME NEW a, NEW b
  PROVE  /\ <<a, b>> \in Seq({a, b}) /\ <<a, b>> # <<>> /\ Len(<<a, b>>) = 2
         /\ <<a, b>>[1] = a /\ <<a, b>>[2] = b
         /\ Head(<<a, b>>) = a /\ Tail(<<a, b>>) = <<b>>
         /\ <<>> \o <<a, b>> = <<a, b>> /\ <<a>> \o <<b>> = <<a, b>>
<1>1. <<a, b>> \in Seq({a, b})
  OBVIOUS
<1>2. <<>> \o <<a, b>> = <<a, b>>
  BY <1>1
<1>3. /\ <<a, b>> # <<>> /\ Len(<<a, b>>) = 2 /\ <<a, b>>[1] = a /\ <<a, b>>[2] = b
      /\ Head(<<a, b>>) = a
  OBVIOUS
<1>4. Tail(<<a, b>>) = <<b>>
  OBVIOUS
<1>5. <<a>> \o <<b>> = <<a, b>>
  <2>1. /\ <<a>> \in Seq({a, b}) /\ <<b>> \in Seq({a, b})
        /\ Len(<<a>>) = 1 /\ Len(<<b>>) = 1 /\ <<a>>[1] = a /\ <<b>>[1] = b
    OBVIOUS
  <2>2. /\ <<a>> \o <<b>> \in Seq({a, b}) /\ Len(<<a>> \o <<b>>) = 2
        /\ (<<a>> \o <<b>>)[1] = a /\ (<<a>> \o <<b>>)[2] = b
    BY <2>1, ConcatProperties
  <2> DEFINE r == <<a, b>>
             q == <<a>> \o <<b>>
  <2>3. /\ r \in Seq({a, b}) /\ q \in Seq({a, b}) /\ Len(r) = 2 /\ Len(q) = 2
        /\ q[1] = r[1] /\ q[2] = r[2]
    BY <1>1, <1>3, <2>2
  <2> HIDE DEF r, q
  <2>4. Len(q) = Len(r) /\ \A i \in 1 .. Len(q) : q[i] = r[i]
    BY <2>3
  <2>5. q = r
    BY <2>3, <2>4, SeqEqual, Zenon
  <2>6. QED
    BY <2>5 DEF q, r
<1>6. QED
  BY <1>1, <1>2, <1>3, <1>4, <1>5, Zenon

LEMMA ThreeWords ==
  ASSUME NEW a, NEW b, NEW c
  PROVE  /\ <<a, b, c>> \in Seq({a, b, c}) /\ <<a, b, c>> # <<>>
         /\ Len(<<a, b, c>>) = 3 /\ <<a, b, c>>[1] = a /\ <<a, b, c>>[3] = c
         /\ Head(<<a, b, c>>) = a /\ Tail(<<a, b, c>>) = <<b, c>>
         /\ <<a>> \o <<b, c>> = <<a, b, c>>
<1>1. <<a, b, c>> \in Seq({a, b, c})
  OBVIOUS
<1>2. /\ <<a, b, c>> # <<>> /\ Len(<<a, b, c>>) = 3
      /\ <<a, b, c>>[1] = a /\ <<a, b, c>>[3] = c /\ Head(<<a, b, c>>) = a
  OBVIOUS
<1>3. Tail(<<a, b, c>>) = <<b, c>>
  OBVIOUS
<1>4. <<a>> \o <<b, c>> = <<a, b, c>>
  <2>1. /\ <<a>> \in Seq({a, b, c}) /\ <<b, c>> \in Seq({a, b, c})
        /\ Len(<<a>>) = 1 /\ Len(<<b, c>>) = 2
        /\ <<a>>[1] = a /\ <<b, c>>[1] = b /\ <<b, c>>[2] = c
    OBVIOUS
  <2>2. /\ <<a>> \o <<b, c>> \in Seq({a, b, c}) /\ Len(<<a>> \o <<b, c>>) = 3
        /\ (<<a>> \o <<b, c>>)[1] = a /\ (<<a>> \o <<b, c>>)[2] = b
        /\ (<<a>> \o <<b, c>>)[3] = c
    BY <2>1, ConcatProperties
  <2>3. <<a, b, c>>[2] = b
    OBVIOUS
  <2> DEFINE r == <<a, b, c>>
             q == <<a>> \o <<b, c>>
  <2>4. /\ r \in Seq({a, b, c}) /\ q \in Seq({a, b, c}) /\ Len(r) = 3 /\ Len(q) = 3
        /\ q[1] = r[1] /\ q[2] = r[2] /\ q[3] = r[3]
    BY <1>1, <1>2, <2>2, <2>3
  <2> HIDE DEF r, q
  <2>5. Len(q) = Len(r) /\ \A i \in 1 .. Len(q) : q[i] = r[i]
    BY <2>4
  <2>6. q = r
    BY <2>4, <2>5, SeqEqual, Zenon
  <2>7. QED
    BY <2>6 DEF q, r
<1>5. QED
  BY <1>1, <1>2, <1>3, <1>4, Zenon
=============================================================================

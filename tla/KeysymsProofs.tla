---------------------------- MODULE KeysymsProofs ----------------------------
(***************************************************************************)
(* Proofs about Keysyms, for all headers and all configured strings: what  *)
(* table the generator writes, and what a sequence of names resolves to.   *)
(***************************************************************************)
EXTENDS Keysyms, Lemmas

Defines == [prefix : STRING, name : STRING, val : Nat]

----------------------------------------------------------------------------
(* A table after some lines *)

\* It has the names of the lines, each with the value of the first line that
\* has the name.
FirstWins(t, lines) ==
  /\ DOMAIN t = UNION {NamesOf(lines[i]) : i \in DOMAIN lines}
  /\ \A i \in DOMAIN lines : \A n \in NamesOf(lines[i]) :
       (\A j \in 1 .. i - 1 : n \notin NamesOf(lines[j])) => t[n] = lines[i].val

\* A macro adds its names, and changes no other.
LEMMA AddedNames ==
  ASSUME NEW t, NEW l
  PROVE  /\ DOMAIN AddDefine(t, l) = DOMAIN t \cup NamesOf(l)
         /\ \A n \in DOMAIN t : AddDefine(t, l)[n] = t[n]
         /\ \A n \in NamesOf(l) \ DOMAIN t : AddDefine(t, l)[n] = l.val
<1>1. ASSUME NEW u, NEW name, NEW val
      PROVE  /\ DOMAIN Add(u, name, val) = DOMAIN u \cup {name}
             /\ \A n \in DOMAIN u : Add(u, name, val)[n] = u[n]
             /\ name \notin DOMAIN u => Add(u, name, val)[name] = val
  BY DEF Add
<1> DEFINE bare == Add(t, <<l.name>>, l.val)
           both == Add(bare, <<"XF86", l.name>>, l.val)
<1>2. /\ DOMAIN bare = DOMAIN t \cup {<<l.name>>}
      /\ \A n \in DOMAIN t : bare[n] = t[n]
      /\ <<l.name>> \notin DOMAIN t => bare[<<l.name>>] = l.val
  BY <1>1
<1>3. /\ DOMAIN both = DOMAIN bare \cup {<<"XF86", l.name>>}
      /\ \A n \in DOMAIN bare : both[n] = bare[n]
      /\ <<"XF86", l.name>> \notin DOMAIN bare => both[<<"XF86", l.name>>] = l.val
  BY <1>1
<1> HIDE DEF bare, both
<1>4. CASE l.prefix = "XF86XK_"
  <2>1. AddDefine(t, l) = both /\ NamesOf(l) = {<<l.name>>, <<"XF86", l.name>>}
    BY <1>4 DEF AddDefine, NamesOf, bare, both
  <2>2. QED
    BY <1>2, <1>3, <2>1
<1>5. CASE l.prefix # "XF86XK_"
  <2>1. AddDefine(t, l) = bare /\ NamesOf(l) = {<<l.name>>}
    BY <1>5 DEF AddDefine, NamesOf, bare
  <2>2. QED
    BY <1>2, <2>1
<1>6. QED
  BY <1>4, <1>5

LEMMA FirstWinsAppend ==
  ASSUME NEW lines \in Seq(Defines), NEW l \in Defines, NEW t, FirstWins(t, lines)
  PROVE  FirstWins(AddDefine(t, l), Append(lines, l))
<1> DEFINE more == Append(lines, l)
           u == AddDefine(t, l)
           N == Len(lines)
<1>1. /\ N \in Nat /\ DOMAIN lines = 1 .. N /\ DOMAIN more = 1 .. N + 1
      /\ \A i \in 1 .. N : more[i] = lines[i]
      /\ more[N + 1] = l
  OBVIOUS
<1>2. /\ DOMAIN u = DOMAIN t \cup NamesOf(l)
      /\ \A n \in DOMAIN t : u[n] = t[n]
      /\ \A n \in NamesOf(l) \ DOMAIN t : u[n] = l.val
  BY AddedNames
<1> HIDE DEF more, u, N
<1>3. DOMAIN t = UNION {NamesOf(lines[i]) : i \in 1 .. N}
  BY <1>1 DEF FirstWins
<1>4. DOMAIN u = UNION {NamesOf(more[i]) : i \in 1 .. N + 1}
  <2>1. 1 .. N + 1 = (1 .. N) \cup {N + 1}
    BY <1>1
  <2>2. \A n : n \in UNION {NamesOf(more[i]) : i \in 1 .. N + 1}
                 <=> \E i \in 1 .. N + 1 : n \in NamesOf(more[i])
    OBVIOUS
  <2>3. \A n : n \in DOMAIN t <=> \E i \in 1 .. N : n \in NamesOf(more[i])
    BY <1>1, <1>3
  <2>4. \A n : n \in DOMAIN u <=> n \in UNION {NamesOf(more[i]) : i \in 1 .. N + 1}
    BY <1>1, <1>2, <2>1, <2>2, <2>3
  <2>5. QED
    BY <2>4
<1>5. ASSUME NEW i \in 1 .. N + 1, NEW n \in NamesOf(more[i]),
             \A j \in 1 .. i - 1 : n \notin NamesOf(more[j])
      PROVE  u[n] = more[i].val
  <2>1. CASE i = N + 1
    <3>1. i - 1 = N /\ more[i] = l
      BY <1>1, <2>1
    <3>2. n \notin DOMAIN t
      BY <1>1, <1>3, <1>5, <3>1
    <3>3. QED
      BY <1>2, <1>5, <3>1, <3>2
  <2>2. CASE i # N + 1
    <3>1. i \in 1 .. N /\ \A j \in 1 .. i - 1 : j \in 1 .. N
      BY <1>1, <2>2
    <3>2. more[i] = lines[i] /\ \A j \in 1 .. i - 1 : more[j] = lines[j]
      BY <1>1, <3>1
    <3>3. t[n] = lines[i].val
      BY <1>1, <1>5, <3>1, <3>2 DEF FirstWins
    <3>4. n \in DOMAIN t
      BY <1>3, <1>5, <3>1, <3>2
    <3>5. QED
      BY <1>2, <3>2, <3>3, <3>4
  <2>3. QED
    BY <2>1, <2>2
<1>6. FirstWins(u, more)
  BY <1>1, <1>4, <1>5 DEF FirstWins
<1>7. QED
  BY <1>6 DEF u, more

----------------------------------------------------------------------------
(* The lines read so far *)

\* The lines of a header, and those of the headers before number f.
LinesIn(t, f) == IF t[f].found THEN t[f].lines ELSE <<>>

Before(t, f) ==
  CASE f = 1 -> <<>>
    [] f = 2 -> LinesIn(t, "keysymdef.h")
    [] f = 3 -> LinesIn(t, "keysymdef.h") \o LinesIn(t, "XF86keysym.h")
    [] f = 4 -> LinesIn(t, "keysymdef.h") \o LinesIn(t, "XF86keysym.h") \o LinesIn(t, "Sunkeysym.h")
    [] f = 5 -> LinesIn(t, "keysymdef.h") \o LinesIn(t, "XF86keysym.h") \o LinesIn(t, "Sunkeysym.h")
                  \o LinesIn(t, "DECkeysym.h")
    [] f = 6 -> LinesIn(t, "keysymdef.h") \o LinesIn(t, "XF86keysym.h") \o LinesIn(t, "Sunkeysym.h")
                  \o LinesIn(t, "DECkeysym.h") \o LinesIn(t, "HPkeysym.h")
    [] f = 7 -> LinesIn(t, "keysymdef.h") \o LinesIn(t, "XF86keysym.h") \o LinesIn(t, "Sunkeysym.h")
                  \o LinesIn(t, "DECkeysym.h") \o LinesIn(t, "HPkeysym.h")
                  \o LinesIn(t, "ap_keysym.h")

\* Those before line n of header f.
ReadLines(t, f, n) == Before(t, f) \o SubSeq(LinesIn(t, HeaderFiles[f]), 1, n)

\* The inductive invariant of the generator.
GenInv ==
  /\ tree \in Trees
  /\ file \in 1 .. 7
  /\ gpc = "parse" /\ file < 7 =>
       /\ line \in 0 .. Len(LinesIn(tree, HeaderFiles[file]))
       /\ FirstWins(table, ReadLines(tree, file, line))
  /\ gpc = "parse" /\ file = 7 => FirstWins(table, Before(tree, 7))
  /\ gpc \in {"write", "done"} => FirstWins(table, Before(tree, 7))
  /\ gpc \in {"parse", "write", "done", "failed"}
  /\ output = "new" <=> gpc = "done"
  /\ asked # <<>> => /\ output = "new"
                     /\ asked \in Inputs /\ answer = ResolveNames(table, asked)

LEMMA HeaderLines ==
  ASSUME NEW t \in Trees
  PROVE  /\ Len(HeaderFiles) = 6 /\ Range(HeaderFiles) = {HeaderFiles[f] : f \in 1 .. 6}
         /\ HeaderFiles[1] = "keysymdef.h" /\ HeaderFiles[2] = "XF86keysym.h"
         /\ HeaderFiles[3] = "Sunkeysym.h" /\ HeaderFiles[4] = "DECkeysym.h"
         /\ HeaderFiles[5] = "HPkeysym.h" /\ HeaderFiles[6] = "ap_keysym.h"
         /\ \A f \in 1 .. 6 : LinesIn(t, HeaderFiles[f]) \in Seq(Defines)
<1>1. /\ Len(HeaderFiles) = 6 /\ DOMAIN HeaderFiles = 1 .. 6
      /\ HeaderFiles[1] = "keysymdef.h" /\ HeaderFiles[2] = "XF86keysym.h"
      /\ HeaderFiles[3] = "Sunkeysym.h" /\ HeaderFiles[4] = "DECkeysym.h"
      /\ HeaderFiles[5] = "HPkeysym.h" /\ HeaderFiles[6] = "ap_keysym.h"
  BY DEF HeaderFiles
<1>2. Range(HeaderFiles) = {HeaderFiles[f] : f \in 1 .. 6}
  BY <1>1 DEF Range
<1>3. ASSUME NEW f \in 1 .. 6 PROVE LinesIn(t, HeaderFiles[f]) \in Seq(Defines)
  <2>1. t[HeaderFiles[f]].lines \in Seq(Defines)
    BY <1>2, TreesAssumption DEF Defines
  <2>2. QED
    BY <2>1 DEF LinesIn
<1>4. QED
  BY <1>1, <1>2, <1>3

\* One header more.
LEMMA BeforeNext ==
  ASSUME NEW t \in Trees
  PROVE  /\ \A f \in 1 .. 7 : Before(t, f) \in Seq(Defines)
         /\ Before(t, 1) = <<>>
         /\ \A f \in 1 .. 6 : Before(t, f + 1) = Before(t, f) \o LinesIn(t, HeaderFiles[f])
<1>1. /\ HeaderFiles[1] = "keysymdef.h" /\ HeaderFiles[2] = "XF86keysym.h"
      /\ HeaderFiles[3] = "Sunkeysym.h" /\ HeaderFiles[4] = "DECkeysym.h"
      /\ HeaderFiles[5] = "HPkeysym.h" /\ HeaderFiles[6] = "ap_keysym.h"
  BY HeaderLines
<1>2. ASSUME NEW f \in 1 .. 6 PROVE LinesIn(t, HeaderFiles[f]) \in Seq(Defines)
  BY HeaderLines
<1>a. Before(t, 1) = <<>>
  BY DEF Before
<1>b. Before(t, 2) = LinesIn(t, "keysymdef.h")
  BY DEF Before
<1>c. Before(t, 3) = Before(t, 2) \o LinesIn(t, "XF86keysym.h")
  BY DEF Before
<1>d. Before(t, 4) = Before(t, 3) \o LinesIn(t, "Sunkeysym.h")
  BY DEF Before
<1>e. Before(t, 5) = Before(t, 4) \o LinesIn(t, "DECkeysym.h")
  BY DEF Before
<1>f. Before(t, 6) = Before(t, 5) \o LinesIn(t, "HPkeysym.h")
  BY DEF Before
<1>g. Before(t, 7) = Before(t, 6) \o LinesIn(t, "ap_keysym.h")
  BY DEF Before
<1>3. LinesIn(t, "keysymdef.h") \in Seq(Defines)
  BY <1>1, <1>2
<1>4. ASSUME NEW f \in 1 .. 6 PROVE Before(t, f + 1) = Before(t, f) \o LinesIn(t, HeaderFiles[f])
  <2>1. CASE f = 1
    <3>1. f + 1 = 2
      BY <2>1
    <3>2. QED
      BY <1>1, <1>3, <1>a, <1>b, <2>1, <3>1, ConcatEmptySeq, Zenon
  <2>2. CASE f = 2
    <3>1. f + 1 = 3
      BY <2>2
    <3>2. QED
      BY <1>1, <1>c, <2>2, <3>1, Zenon
  <2>3. CASE f = 3
    <3>1. f + 1 = 4
      BY <2>3
    <3>2. QED
      BY <1>1, <1>d, <2>3, <3>1, Zenon
  <2>4. CASE f = 4
    <3>1. f + 1 = 5
      BY <2>4
    <3>2. QED
      BY <1>1, <1>e, <2>4, <3>1, Zenon
  <2>5. CASE f = 5
    <3>1. f + 1 = 6
      BY <2>5
    <3>2. QED
      BY <1>1, <1>f, <2>5, <3>1, Zenon
  <2>6. CASE f = 6
    <3>1. f + 1 = 7
      BY <2>6
    <3>2. QED
      BY <1>1, <1>g, <2>6, <3>1, Zenon
  <2>7. QED
    BY <2>1, <2>2, <2>3, <2>4, <2>5, <2>6
<1> DEFINE T == {f \in 0 .. 6 : Before(t, f + 1) \in Seq(Defines)}
<1>5. 0 \in T
  <2>1. 0 + 1 = 1 /\ <<>> \in Seq(Defines)
    OBVIOUS
  <2>2. Before(t, 0 + 1) \in Seq(Defines)
    BY <1>a, <2>1, Zenon
  <2>3. QED
    BY <2>2
<1>6. ASSUME NEW f \in 0 .. 6 - 1, f \in T PROVE f + 1 \in T
  <2>1. f + 1 \in 1 .. 6
    OBVIOUS
  <2>2. Before(t, f + 1 + 1) = Before(t, f + 1) \o LinesIn(t, HeaderFiles[f + 1])
    BY <1>4, <2>1
  <2>3. Before(t, f + 1) \in Seq(Defines) /\ LinesIn(t, HeaderFiles[f + 1]) \in Seq(Defines)
    BY <1>2, <1>6, <2>1
  <2>4. Before(t, f + 1 + 1) \in Seq(Defines)
    BY <2>2, <2>3, ConcatProperties, Zenon
  <2>5. f + 1 \in 0 .. 6
    BY <2>1
  <2>6. QED
    BY <2>4, <2>5
<1> HIDE DEF T
<1>7. \A f \in 0 .. 6 : f \in T
  BY <1>5, <1>6, UpToInduction
<1>8. ASSUME NEW f \in 1 .. 7 PROVE Before(t, f) \in Seq(Defines)
  <2>1. f - 1 \in 0 .. 6 /\ f - 1 + 1 = f
    OBVIOUS
  <2>2. QED
    BY <1>7, <2>1 DEF T
<1>9. QED
  BY <1>4, <1>8, <1>a, <1>g

----------------------------------------------------------------------------
(* The generator *)

LEMMA LinesTypes ==
  ASSUME NEW t \in Trees, NEW f \in 1 .. 6
  PROVE  /\ LinesIn(t, HeaderFiles[f]) \in Seq(Defines)
         /\ Before(t, f) \in Seq(Defines)
         /\ Before(t, f + 1) = Before(t, f) \o LinesIn(t, HeaderFiles[f])
<1>1. f \in 1 .. 7
  OBVIOUS
<1>2. Before(t, f) \in Seq(Defines)
  BY <1>1, BeforeNext, Zenon
<1>3. Before(t, f + 1) = Before(t, f) \o LinesIn(t, HeaderFiles[f])
  BY BeforeNext, Zenon
<1>4. LinesIn(t, HeaderFiles[f]) \in Seq(Defines)
  BY HeaderLines, Zenon
<1>5. QED
  BY <1>2, <1>3, <1>4

\* One line more.
LEMMA ReadLinesNext ==
  ASSUME NEW t \in Trees, NEW f \in 1 .. 6, NEW n \in 0 .. Len(LinesIn(t, HeaderFiles[f])) - 1
  PROVE  /\ ReadLines(t, f, n) \in Seq(Defines)
         /\ ReadLines(t, f, n + 1) = Append(ReadLines(t, f, n), LinesIn(t, HeaderFiles[f])[n + 1])
<1> DEFINE s == LinesIn(t, HeaderFiles[f])
           b == Before(t, f)
<1>1. s \in Seq(Defines) /\ b \in Seq(Defines)
  BY LinesTypes
<1> HIDE DEF s, b
<1>2. n \in Nat /\ n + 1 \in 1 .. Len(s)
  BY <1>1 DEF s
<1>3. SubSeq(s, 1, n) \in Seq(Defines)
  BY <1>1, <1>2
<1>4. SubSeq(s, 1, n + 1) = Append(SubSeq(s, 1, n), s[n + 1])
  BY <1>1, <1>2
<1>5. s[n + 1] \in Defines
  BY <1>1, <1>2
<1>6. \A p \in Seq(Defines), q \in Seq(Defines), l \in Defines :
        p \o Append(q, l) = Append(p \o q, l)
  OBVIOUS
<1>7. b \o SubSeq(s, 1, n + 1) = Append(b \o SubSeq(s, 1, n), s[n + 1])
  BY <1>1, <1>3, <1>4, <1>5, <1>6
<1>8. b \o SubSeq(s, 1, n) \in Seq(Defines)
  BY <1>1, <1>3
<1>9. QED
  BY <1>7, <1>8 DEF ReadLines, s, b

\* The first and the last line of a header.
LEMMA ReadLinesEnds ==
  ASSUME NEW t \in Trees, NEW f \in 1 .. 6
  PROVE  /\ ReadLines(t, f, 0) = Before(t, f)
         /\ ReadLines(t, f, Len(LinesIn(t, HeaderFiles[f]))) = Before(t, f + 1)
<1> DEFINE s == LinesIn(t, HeaderFiles[f])
<1>1. s \in Seq(Defines) /\ Before(t, f) \in Seq(Defines)
      /\ Before(t, f + 1) = Before(t, f) \o s
  BY LinesTypes
<1> HIDE DEF s
<1>2. SubSeq(s, 1, 0) = <<>> /\ SubSeq(s, 1, Len(s)) = s
  BY <1>1, SubSeqEmpty, SubSeqFull
<1>3. Before(t, f) \o <<>> = Before(t, f)
  BY <1>1, ConcatEmptySeq
<1>4. QED
  BY <1>1, <1>2, <1>3 DEF ReadLines, s

\* What was asked stays answered while the table stays.
LEMMA AnswerUnchanged ==
  ASSUME UNCHANGED <<table, output, asked, answer>>,
         asked # <<>> => /\ output = "new"
                         /\ asked \in Inputs /\ answer = ResolveNames(table, asked)
  PROVE  asked' # <<>> => /\ output' = "new"
                          /\ asked' \in Inputs /\ answer' = ResolveNames(table', asked')
  OBVIOUS

LEMMA GenInvNext == GenInv /\ [KeysymsNext]_keysymVars => GenInv'
<1> SUFFICES ASSUME GenInv, [KeysymsNext]_keysymVars PROVE GenInv'
  OBVIOUS
<1> USE DEF keysymVars
<1>a. tree \in Trees /\ file \in 1 .. 7
  BY DEF GenInv
<1>b. Len(HeaderFiles) = 6
  BY <1>a, HeaderLines
<1>1. CASE UNCHANGED keysymVars
  BY <1>1 DEF GenInv
<1>2. CASE ParseDefine
  <2>1. /\ gpc = "parse" /\ gpc' = "parse" /\ file \in 1 .. 6 /\ file' = file
        /\ tree' = tree /\ line' = line + 1
        /\ table' = AddDefine(table, Header.lines[line + 1])
        /\ Header.found /\ line < Len(Header.lines)
        /\ UNCHANGED <<output, asked, answer>>
    BY <1>2, <1>a, <1>b DEF ParseDefine, Parsing
  <2>2. Header.lines = LinesIn(tree, HeaderFiles[file])
    BY <2>1 DEF Header, LinesIn
  <2>3. LinesIn(tree, HeaderFiles[file]) \in Seq(Defines)
    BY <1>a, <2>1, LinesTypes
  <2>4. line \in 0 .. Len(LinesIn(tree, HeaderFiles[file])) - 1
    BY <2>1, <2>2, <2>3 DEF GenInv
  <2>5. /\ ReadLines(tree, file, line) \in Seq(Defines)
        /\ ReadLines(tree, file, line + 1)
             = Append(ReadLines(tree, file, line), LinesIn(tree, HeaderFiles[file])[line + 1])
    BY <1>a, <2>1, <2>4, ReadLinesNext
  <2>6. LinesIn(tree, HeaderFiles[file])[line + 1] \in Defines
    BY <2>3, <2>4
  <2>7. FirstWins(table, ReadLines(tree, file, line))
    BY <2>1 DEF GenInv
  <2>8. FirstWins(table', ReadLines(tree, file, line + 1))
    BY <2>1, <2>2, <2>5, <2>6, <2>7, FirstWinsAppend
  <2>5a. line' \in 0 .. Len(LinesIn(tree, HeaderFiles[file]))
    BY <2>1, <2>3, <2>4
  <2>10. output # "new" /\ asked = <<>>
    BY <2>1 DEF GenInv
  <2>11. FirstWins(table', ReadLines(tree', file', line'))
    BY <2>1, <2>8
  <2>12. line' \in 0 .. Len(LinesIn(tree', HeaderFiles[file']))
    BY <2>1, <2>5a
  <2>13. QED
    BY <1>a, <2>1, <2>10, <2>11, <2>12 DEF GenInv
<1>3. CASE ParseFails
  BY <1>3, <1>a DEF ParseFails, Parsing, GenInv
<1>4. CASE NextHeader
  <2>1. /\ gpc = "parse" /\ gpc' = "parse" /\ file \in 1 .. 6 /\ file' = file + 1
        /\ tree' = tree /\ line' = 0
        /\ Header.found => line = Len(Header.lines)
        /\ UNCHANGED <<table, output, asked, answer>>
    BY <1>4, <1>a, <1>b DEF NextHeader, Parsing
  <2>2. /\ line \in 0 .. Len(LinesIn(tree, HeaderFiles[file]))
        /\ FirstWins(table, ReadLines(tree, file, line))
        /\ output # "new" /\ asked = <<>>
    BY <2>1 DEF GenInv
  <2>3. line = Len(LinesIn(tree, HeaderFiles[file]))
    <3>1. CASE Header.found
      BY <2>1, <3>1 DEF Header, LinesIn
    <3>2. CASE ~ Header.found
      <4>1. LinesIn(tree, HeaderFiles[file]) = <<>> /\ Len(<<>>) = 0
        BY <3>2 DEF Header, LinesIn
      <4>2. QED
        BY <2>2, <4>1
    <3>3. QED
      BY <3>1, <3>2
  <2>4. FirstWins(table, Before(tree, file + 1))
    BY <1>a, <2>1, <2>2, <2>3, ReadLinesEnds
  <2>5. CASE file = 6
    <3>1. FirstWins(table, Before(tree, 7)) /\ file' = 7
      BY <1>a, <2>1, <2>4, <2>5, BeforeNext
    <3>2. FirstWins(table', Before(tree', 7))
      BY <2>1, <3>1
    <3>3. QED
      BY <1>a, <2>1, <2>2, <3>1, <3>2 DEF GenInv
  <2>6. CASE file # 6
    <3>1. file + 1 \in 1 .. 6 /\ file' \in 1 .. 6
      BY <2>1, <2>6
    <3>2. FirstWins(table, ReadLines(tree, file + 1, 0))
      BY <1>a, <2>4, <3>1, ReadLinesEnds
    <3>3. FirstWins(table', ReadLines(tree', file', line'))
      BY <2>1, <3>2
    <3>4. LinesIn(tree, HeaderFiles[file + 1]) \in Seq(Defines)
      BY <1>a, <3>1, LinesTypes
    <3>5. line' \in 0 .. Len(LinesIn(tree', HeaderFiles[file']))
      BY <2>1, <3>4
    <3>6. QED
      BY <1>a, <2>1, <2>2, <3>1, <3>3, <3>5 DEF GenInv
  <2>7. QED
    BY <2>5, <2>6
<1>5. CASE ParsingDone
  <2>1. /\ gpc = "parse" /\ gpc' \in {"failed", "write"} /\ file = 7
        /\ UNCHANGED <<tree, file, line, table, output, asked, answer>>
    BY <1>5, <1>a, <1>b DEF ParsingDone
  <2>2. FirstWins(table', Before(tree', 7)) /\ output # "new" /\ asked = <<>>
    BY <2>1 DEF GenInv
  <2>3. QED
    BY <1>a, <2>1, <2>2 DEF GenInv
<1>6. CASE Write
  <2>1. /\ gpc = "write"
        /\ \/ gpc' = "done" /\ output' = "new"
           \/ gpc' = "failed" /\ output' \in {output, "torn"}
        /\ UNCHANGED <<tree, file, line, table, asked, answer>>
    BY <1>6 DEF Write
  <2>2. FirstWins(table', Before(tree', 7)) /\ output # "new" /\ asked = <<>>
    BY <2>1 DEF GenInv
  <2>3. output' = "new" <=> gpc' = "done"
    BY <2>1, <2>2
  <2>4. QED
    BY <1>a, <2>1, <2>2, <2>3 DEF GenInv
<1>7. ASSUME NEW keys \in Inputs, Lookup(keys) PROVE GenInv'
  <2>1. /\ output = "new" /\ asked' = keys /\ answer' = ResolveNames(table, keys)
        /\ UNCHANGED <<tree, file, line, table, gpc, output>>
    BY <1>7 DEF Lookup
  <2>2. gpc = "done" /\ FirstWins(table', Before(tree', 7))
    BY <2>1 DEF GenInv
  <2>3. answer' = ResolveNames(table', asked')
    BY <2>1
  <2>4. QED
    BY <1>a, <2>1, <2>2, <2>3 DEF GenInv
<1>8. CASE GeneratorStopped
  BY <1>1, <1>8 DEF GeneratorStopped
<1>9. QED
  BY <1>1, <1>2, <1>3, <1>4, <1>5, <1>6, <1>7, <1>8 DEF KeysymsNext

\* The generator has, at each place of its loops, the table of the lines it has
\* read; what it has written is the table of all of them.
THEOREM GeneratorInvariant == KeysymsSpec => []GenInv
<1>1. KeysymsInit => GenInv
  <2> SUFFICES ASSUME KeysymsInit PROVE GenInv
    OBVIOUS
  <2>1. /\ tree \in Trees /\ file = 1 /\ line = 0 /\ table = <<>> /\ gpc = "parse"
        /\ output = "old" /\ asked = <<>>
    BY DEF KeysymsInit
  <2>2. DOMAIN <<>> = {}
    OBVIOUS
  <2>3. FirstWins(table, <<>>)
    BY <2>1, <2>2 DEF FirstWins
  <2>4. 1 \in 1 .. 6
    OBVIOUS
  <2>5. /\ LinesIn(tree, HeaderFiles[1]) \in Seq(Defines)
        /\ ReadLines(tree, 1, 0) = Before(tree, 1) /\ Before(tree, 1) = <<>>
    BY <2>1, <2>4, LinesTypes, ReadLinesEnds, BeforeNext, Zenon
  <2>6. line \in 0 .. Len(LinesIn(tree, HeaderFiles[file]))
    BY <2>1, <2>5
  <2>7. FirstWins(table, ReadLines(tree, file, line))
    BY <2>1, <2>3, <2>5
  <2>8. QED
    BY <2>1, <2>6, <2>7 DEF GenInv
<1>2. QED
  BY <1>1, GenInvNext, PTL DEF KeysymsSpec

\* A table that is written is complete, and has the first value of each name,
\* whichever headers exist and whatever they say.
THEOREM FirstDefinitionTheorem == KeysymsSpec => []FirstDefinitionWins
<1>1. Before(tree, 7) = AllLines
  <2>1. \A f : LinesOf(f) = LinesIn(tree, f)
    BY DEF LinesOf, LinesIn
  <2>2. Before(tree, 7) =
          LinesIn(tree, "keysymdef.h") \o LinesIn(tree, "XF86keysym.h")
            \o LinesIn(tree, "Sunkeysym.h") \o LinesIn(tree, "DECkeysym.h")
            \o LinesIn(tree, "HPkeysym.h") \o LinesIn(tree, "ap_keysym.h")
    BY DEF Before
  <2>3. QED
    BY <2>1, <2>2, Zenon DEF AllLines
<1>2. GenInv => FirstDefinitionWins
  BY <1>1 DEF GenInv, FirstDefinitionWins, FirstWins
<1>3. QED
  BY <1>2, GeneratorInvariant, PTL

----------------------------------------------------------------------------
(* The two headers of X11 *)

\* The lines of a header come after those of the headers before it.
LEMMA LinesStay ==
  ASSUME NEW t \in Trees, NEW f \in 1 .. 6, NEW i \in 1 .. Len(Before(t, f))
  PROVE  /\ i \in 1 .. Len(Before(t, f + 1))
         /\ Before(t, f + 1)[i] = Before(t, f)[i]
<1> DEFINE p == Before(t, f)
           q == LinesIn(t, HeaderFiles[f])
<1>1. p \in Seq(Defines) /\ q \in Seq(Defines) /\ Before(t, f + 1) = p \o q
  BY LinesTypes
<1> HIDE DEF p, q
<1>2. i \in 1 .. Len(p)
  BY DEF p
<1>3. i \in 1 .. Len(p \o q) /\ (p \o q)[i] = p[i]
  BY <1>1, <1>2
<1>4. QED
  BY <1>1, <1>3 DEF p

\* The lines of the first two headers are the first of all.
LEMMA FirstTwoHeaders ==
  ASSUME NEW t \in Trees
  PROVE  LET K == LinesIn(t, "keysymdef.h")
             X == LinesIn(t, "XF86keysym.h")
             all == Before(t, 7)
         IN  /\ K \in Seq(Defines) /\ X \in Seq(Defines) /\ all \in Seq(Defines)
             /\ \A i \in 1 .. Len(K) : i \in 1 .. Len(all) /\ all[i] = K[i]
             /\ \A i \in 1 .. Len(X) :
                  Len(K) + i \in 1 .. Len(all) /\ all[Len(K) + i] = X[i]
<1> DEFINE K == LinesIn(t, "keysymdef.h")
           X == LinesIn(t, "XF86keysym.h")
           all == Before(t, 7)
           two == Before(t, 3)
<1>1. K \in Seq(Defines) /\ X \in Seq(Defines)
  <2>1. 1 \in 1 .. 6 /\ 2 \in 1 .. 6
    OBVIOUS
  <2>2. HeaderFiles[1] = "keysymdef.h" /\ HeaderFiles[2] = "XF86keysym.h"
    BY HeaderLines
  <2>3. LinesIn(t, HeaderFiles[1]) \in Seq(Defines) /\ LinesIn(t, HeaderFiles[2]) \in Seq(Defines)
    BY <2>1, LinesTypes, Zenon
  <2>4. QED
    BY <2>2, <2>3, Zenon
<1>2. two = K \o X
  BY DEF Before
<1>3. all \in Seq(Defines)
  BY BeforeNext
<1>4. ASSUME NEW i \in 1 .. Len(two) PROVE i \in 1 .. Len(all) /\ all[i] = two[i]
  <2>1. 3 \in 1 .. 6 /\ 4 \in 1 .. 6 /\ 5 \in 1 .. 6 /\ 6 \in 1 .. 6
    OBVIOUS
  <2>2. 3 + 1 = 4 /\ 4 + 1 = 5 /\ 5 + 1 = 6 /\ 6 + 1 = 7
    OBVIOUS
  <2>3. i \in 1 .. Len(Before(t, 4)) /\ Before(t, 4)[i] = two[i]
    <3>1. i \in 1 .. Len(Before(t, 3 + 1)) /\ Before(t, 3 + 1)[i] = two[i]
      BY <2>1, LinesStay, Zenon
    <3>2. QED
      BY <2>2, <3>1, Zenon
  <2>4. i \in 1 .. Len(Before(t, 5)) /\ Before(t, 5)[i] = two[i]
    <3>1. i \in 1 .. Len(Before(t, 4 + 1)) /\ Before(t, 4 + 1)[i] = two[i]
      BY <2>1, <2>3, LinesStay, Zenon
    <3>2. QED
      BY <2>2, <3>1, Zenon
  <2>5. i \in 1 .. Len(Before(t, 6)) /\ Before(t, 6)[i] = two[i]
    <3>1. i \in 1 .. Len(Before(t, 5 + 1)) /\ Before(t, 5 + 1)[i] = two[i]
      BY <2>1, <2>4, LinesStay, Zenon
    <3>2. QED
      BY <2>2, <3>1, Zenon
  <2>6. i \in 1 .. Len(Before(t, 7)) /\ Before(t, 7)[i] = two[i]
    <3>1. i \in 1 .. Len(Before(t, 6 + 1)) /\ Before(t, 6 + 1)[i] = two[i]
      BY <2>1, <2>5, LinesStay, Zenon
    <3>2. QED
      BY <2>2, <3>1, Zenon
  <2>7. QED
    BY <2>6
<1> HIDE DEF K, X, all, two
<1>5. ASSUME NEW i \in 1 .. Len(K) PROVE i \in 1 .. Len(two) /\ two[i] = K[i]
  BY <1>1, <1>2, <1>5
<1>6. ASSUME NEW i \in 1 .. Len(X) PROVE Len(K) + i \in 1 .. Len(two) /\ two[Len(K) + i] = X[i]
  BY <1>1, <1>2, <1>6
<1>7. QED
  BY <1>1, <1>3, <1>4, <1>5, <1>6 DEF K, X, all

\* All lines up to one give a name the same value.
Agree(s, m, n, v) == \A i \in 1 .. m : n \in NamesOf(s[i]) => s[i].val = v

\* A name has the value that all its lines have up to some line of it.
LEMMA FirstValue ==
  ASSUME NEW s \in Seq(Defines), NEW t, FirstWins(t, s), NEW m \in 1 .. Len(s),
         NEW n \in NamesOf(s[m]), NEW v, Agree(s, m, n, v)
  PROVE  n \in DOMAIN t /\ t[n] = v
<1> DEFINE lines == {i \in 1 .. m : n \in NamesOf(s[i])}
<1>1. Len(s) \in Nat /\ DOMAIN s = 1 .. Len(s) /\ m \in 1 .. m
  OBVIOUS
<1>2. lines \subseteq Nat /\ lines # {}
  BY <1>1
<1>3. PICK i \in lines : \A j \in lines : i <= j
  BY <1>2, LeastOfSet
<1>4. i \in 1 .. m /\ n \in NamesOf(s[i]) /\ i \in 1 .. Len(s)
  BY <1>1, <1>3
<1>5. \A j \in 1 .. i - 1 : n \notin NamesOf(s[j])
  BY <1>3, <1>4
<1>6. t[n] = s[i].val
  BY <1>1, <1>4, <1>5 DEF FirstWins
<1>7. n \in DOMAIN t
  BY <1>1 DEF FirstWins
<1>8. QED
  BY <1>4, <1>6, <1>7 DEF Agree

\* The names of X11's macros in a table that is complete.
LEMMA CoreNames ==
  ASSUME NEW t \in Trees, NEW u, FirstWins(u, Before(t, 7))
  PROVE  /\ \A l \in Range(LinesIn(t, "keysymdef.h")) :
              <<l.name>> \in DOMAIN u /\ u[<<l.name>>] = l.val
         /\ \A l \in Range(LinesIn(t, "XF86keysym.h")) :
              <<"XF86", l.name>> \in DOMAIN u /\ u[<<"XF86", l.name>>] = l.val
<1> DEFINE K == LinesIn(t, "keysymdef.h")
           X == LinesIn(t, "XF86keysym.h")
           all == Before(t, 7)
<1>1. /\ K \in Seq(Defines) /\ X \in Seq(Defines) /\ all \in Seq(Defines)
      /\ \A i \in 1 .. Len(K) : i \in 1 .. Len(all) /\ all[i] = K[i]
      /\ \A i \in 1 .. Len(X) : Len(K) + i \in 1 .. Len(all) /\ all[Len(K) + i] = X[i]
  BY FirstTwoHeaders
<1>2. /\ \A l, m \in Range(K) : l.prefix = "XK_" /\ (l.name = m.name => l.val = m.val)
      /\ \A l, m \in Range(X) : l.prefix = "XF86XK_" /\ (l.name = m.name => l.val = m.val)
  BY HeadersAssumption DEF Unambiguous, LinesIn, Range
<1>a. FirstWins(u, all)
  OBVIOUS
<1> HIDE DEF K, X, all
<1>3. /\ \A i \in 1 .. Len(K) : K[i] \in Range(K)
      /\ \A i \in 1 .. Len(X) : X[i] \in Range(X)
  BY <1>1 DEF Range
<1>4. /\ \A i \in 1 .. Len(K) : NamesOf(K[i]) = {<<K[i].name>>}
      /\ \A i \in 1 .. Len(X) : NamesOf(X[i]) = {<<X[i].name>>, <<"XF86", X[i].name>>}
  <2>1. "XK_" # "XF86XK_"
    OBVIOUS
  <2>2. QED
    BY <1>2, <1>3, <2>1 DEF NamesOf
<1>b. all \in Seq(Defines)
  BY <1>1
<1>5. ASSUME NEW m \in 1 .. Len(K)
      PROVE  <<K[m].name>> \in DOMAIN u /\ u[<<K[m].name>>] = K[m].val
  <2> DEFINE n == <<K[m].name>>
             v == K[m].val
  <2>1. m \in 1 .. Len(all) /\ n \in NamesOf(all[m])
    BY <1>1, <1>4
  <2>2. ASSUME NEW i \in 1 .. m, n \in NamesOf(all[i])
        PROVE  all[i].val = v
    <3>1. i \in 1 .. Len(K) /\ all[i] = K[i]
      BY <1>1
    <3>2. <<K[i].name>> = <<K[m].name>>
      BY <1>4, <2>2, <3>1
    <3>3. K[i].name = K[m].name
      BY <3>2
    <3>4. QED
      BY <1>2, <1>3, <3>1, <3>3
  <2> HIDE DEF n, v
  <2>3. Agree(all, m, n, v)
    BY <2>2 DEF Agree
  <2>4. n \in DOMAIN u /\ u[n] = v
    BY <1>a, <1>b, <2>1, <2>3, FirstValue, Zenon
  <2>5. QED
    BY <2>4 DEF n, v
<1>6. ASSUME NEW m \in 1 .. Len(X)
      PROVE  <<"XF86", X[m].name>> \in DOMAIN u /\ u[<<"XF86", X[m].name>>] = X[m].val
  <2> DEFINE n == <<"XF86", X[m].name>>
             v == X[m].val
             last == Len(K) + m
  <2>1. last \in 1 .. Len(all) /\ n \in NamesOf(all[last])
    BY <1>1, <1>4
  <2>2. ASSUME NEW i \in 1 .. last, n \in NamesOf(all[i])
        PROVE  all[i].val = v
    <3>1. CASE i \in 1 .. Len(K)
      <4>1. n = <<K[i].name>>
        BY <1>1, <1>4, <2>2, <3>1
      <4>2. FALSE
        BY <4>1
      <4>3. QED
        BY <4>2
    <3>2. CASE i \notin 1 .. Len(K)
      <4>1. PICK j \in 1 .. Len(X) : i = Len(K) + j
        <5>1. Len(K) \in Nat /\ Len(X) \in Nat /\ i \in Nat
          BY <1>1
        <5>2. i - Len(K) \in 1 .. Len(X) /\ i = Len(K) + (i - Len(K))
          BY <3>2, <5>1
        <5>3. QED
          BY <5>2
      <4>2. all[i] = X[j]
        BY <1>1, <4>1
      <4>3. n = <<X[j].name>> \/ n = <<"XF86", X[j].name>>
        BY <1>4, <2>2, <4>2
      <4>4. X[j].name = X[m].name
        BY <4>3
      <4>5. QED
        BY <1>2, <1>3, <4>2, <4>4
    <3>3. QED
      BY <3>1, <3>2
  <2> HIDE DEF n, v, last
  <2>3. Agree(all, last, n, v)
    BY <2>2 DEF Agree
  <2>4. n \in DOMAIN u /\ u[n] = v
    BY <1>a, <1>b, <2>1, <2>3, FirstValue, Zenon
  <2>5. QED
    BY <2>4 DEF n, v
<1>7. /\ \A l \in Range(K) : \E m \in 1 .. Len(K) : l = K[m]
      /\ \A l \in Range(X) : \E m \in 1 .. Len(X) : l = X[m]
  BY <1>1 DEF Range
<1>8. QED
  BY <1>5, <1>6, <1>7 DEF K, X

----------------------------------------------------------------------------
(* What a name is looked up as *)

LEMMA SolidName ==
  ASSUME NEW W, NEW name \in Seq(W), name # <<>>,
         name[1] # Blank, name[Len(name)] # Blank,
         NEW bare, StripKeysymPrefix(name) = bare, NEW t, bare \in DOMAIN t
  PROVE  LookupKeysym(t, name) = t[bare]
<1>1. TrimSpace(name) = name
  BY SolidIsTrimmed
<1>2. StripKeysymPrefix(TrimSpace(name)) = bare
  BY <1>1
<1>3. QED
  BY <1>2 DEF LookupKeysym

\* The prefixes are no blanks, and neither is the one of XFree86's names.
LEMMA WordsDiffer ==
  /\ \A p \in KeysymPrefixes : p # Blank
  /\ "XF86" # Blank /\ "XF86" \notin KeysymPrefixes
<1>1. "XKB_KEY_" # Blank /\ "XF86XK_" # Blank /\ "XK_" # Blank /\ "XF86" # Blank
  BY Zenon DEF Blank
<1>2. "XF86" \notin KeysymPrefixes
  BY DEF KeysymPrefixes
<1>3. QED
  BY <1>1, <1>2, Zenon DEF KeysymPrefixes

\* A name in the table is found under its bare spelling and with a prefix,
\* whether it has one word or two.
LEMMA Spellings ==
  ASSUME NEW t, NEW w, w \notin KeysymPrefixes \cup {Blank},
         NEW x, x \notin KeysymPrefixes \cup {Blank}
  PROVE  /\ <<w>> \in DOMAIN t => LookupKeysym(t, <<w>>) = t[<<w>>]
         /\ \A p \in KeysymPrefixes :
              <<w>> \in DOMAIN t => LookupKeysym(t, <<p, w>>) = t[<<w>>]
         /\ <<x, w>> \in DOMAIN t =>
              LookupKeysym(t, <<x, w>>) = t[<<x, w>>]
         /\ \A p \in KeysymPrefixes : <<x, w>> \in DOMAIN t =>
              LookupKeysym(t, <<p, x, w>>) = t[<<x, w>>]
<1>1. w # Blank /\ w \notin KeysymPrefixes
  OBVIOUS
<1>2. ASSUME <<w>> \in DOMAIN t PROVE LookupKeysym(t, <<w>>) = t[<<w>>]
  <2>1. /\ <<w>> \in Seq({w}) /\ <<w>> # <<>> /\ Len(<<w>>) = 1 /\ <<w>>[1] = w
        /\ Head(<<w>>) = w
    BY OneWord, Zenon
  <2>2. StripKeysymPrefix(<<w>>) = <<w>>
    BY <1>1, <2>1 DEF StripKeysymPrefix
  <2>3. <<w>>[1] # Blank /\ <<w>>[Len(<<w>>)] # Blank
    BY <1>1, <2>1
  <2>4. QED
    BY <1>2, <2>1, <2>2, <2>3, SolidName, Zenon
<1>3. ASSUME NEW p \in KeysymPrefixes, <<w>> \in DOMAIN t
      PROVE  LookupKeysym(t, <<p, w>>) = t[<<w>>]
  <2>1. p # Blank
    BY WordsDiffer
  <2>2. /\ <<p, w>> \in Seq({p, w}) /\ <<p, w>> # <<>> /\ Len(<<p, w>>) = 2
        /\ <<p, w>>[1] = p /\ <<p, w>>[2] = w
        /\ Head(<<p, w>>) = p /\ Tail(<<p, w>>) = <<w>>
    BY <2>1, TwoWords, Zenon
  <2>3. StripKeysymPrefix(<<p, w>>) = <<w>>
    BY <2>2 DEF StripKeysymPrefix
  <2>4. <<p, w>>[1] # Blank /\ <<p, w>>[Len(<<p, w>>)] # Blank
    BY <1>1, <2>1, <2>2
  <2>5. QED
    BY <1>3, <2>2, <2>3, <2>4, SolidName, Zenon
<1>4. x # Blank /\ x \notin KeysymPrefixes
  OBVIOUS
<1>5. ASSUME <<x, w>> \in DOMAIN t PROVE LookupKeysym(t, <<x, w>>) = t[<<x, w>>]
  <2>1. /\ <<x, w>> \in Seq({x, w}) /\ <<x, w>> # <<>> /\ Len(<<x, w>>) = 2
        /\ <<x, w>>[1] = x /\ <<x, w>>[2] = w /\ Head(<<x, w>>) = x
    BY <1>4, TwoWords, Zenon
  <2>2. StripKeysymPrefix(<<x, w>>) = <<x, w>>
    BY <1>4, <2>1 DEF StripKeysymPrefix
  <2> DEFINE name == <<x, w>>
  <2>3. name[1] # Blank /\ name[Len(name)] # Blank
    BY <1>1, <1>4, <2>1
  <2>4. /\ name \in Seq({x, w}) /\ name # <<>> /\ name \in DOMAIN t
        /\ StripKeysymPrefix(name) = name
    BY <1>5, <2>1, <2>2, Zenon
  <2> HIDE DEF name
  <2>5. LookupKeysym(t, name) = t[name]
    BY <2>3, <2>4, SolidName, Zenon
  <2>6. QED
    BY <2>5 DEF name
<1>6. ASSUME NEW p \in KeysymPrefixes, <<x, w>> \in DOMAIN t
      PROVE  LookupKeysym(t, <<p, x, w>>) = t[<<x, w>>]
  <2>1. p # Blank
    BY WordsDiffer
  <2>2. /\ <<p, x, w>> \in Seq({p, x, w}) /\ <<p, x, w>> # <<>> /\ Len(<<p, x, w>>) = 3
        /\ <<p, x, w>>[1] = p /\ <<p, x, w>>[3] = w
        /\ Head(<<p, x, w>>) = p /\ Tail(<<p, x, w>>) = <<x, w>>
    BY ThreeWords
  <2>3. StripKeysymPrefix(<<p, x, w>>) = <<x, w>>
    BY <2>2 DEF StripKeysymPrefix
  <2>4. <<p, x, w>>[1] # Blank /\ <<p, x, w>>[Len(<<p, x, w>>)] # Blank
    BY <1>1, <2>1, <2>2
  <2>5. QED
    BY <1>6, <2>2, <2>3, <2>4, SolidName, ZenonT(30)
<1>7. QED
  BY <1>2, <1>3, <1>5, <1>6

\* Each macro of X11's own headers keeps its keysym under every spelling.
THEOREM CoreNamesTheorem == KeysymsSpec => []CoreNamesKeepKeysyms
<1>1. ASSUME GenInv, output = "new"
      PROVE  /\ \A l \in Range(LinesOf("keysymdef.h")) :
                  \A p \in {<<>>, <<"XK_">>, <<"XKB_KEY_">>} :
                    LookupKeysym(table, p \o <<l.name>>) = l.val
             /\ \A l \in Range(LinesOf("XF86keysym.h")) :
                  \A p \in {<<>>, <<"XKB_KEY_">>} :
                    LookupKeysym(table, p \o <<"XF86", l.name>>) = l.val
  <2> DEFINE K == LinesOf("keysymdef.h")
             X == LinesOf("XF86keysym.h")
  <2>1. tree \in Trees /\ FirstWins(table, Before(tree, 7))
    BY <1>1 DEF GenInv
  <2>2. K = LinesIn(tree, "keysymdef.h") /\ X = LinesIn(tree, "XF86keysym.h")
    BY DEF LinesOf, LinesIn
  <2>3. /\ \A l \in Range(K) : <<l.name>> \in DOMAIN table /\ table[<<l.name>>] = l.val
        /\ \A l \in Range(X) : /\ <<"XF86", l.name>> \in DOMAIN table
                               /\ table[<<"XF86", l.name>>] = l.val
    BY <2>1, <2>2, CoreNames
  <2>4. /\ \A l \in Range(K) : l.name \notin KeysymPrefixes \cup {Blank}
        /\ \A l \in Range(X) : l.name \notin KeysymPrefixes \cup {Blank}
    BY <2>1, <2>2, HeadersAssumption DEF Unambiguous, LinesIn, Range
  <2> HIDE DEF K, X
  <2>5. "XK_" \in KeysymPrefixes /\ "XKB_KEY_" \in KeysymPrefixes
    BY DEF KeysymPrefixes
  <2>5a. "XF86" \notin KeysymPrefixes \cup {Blank}
    BY WordsDiffer, Zenon
  <2>6. ASSUME NEW l \in Range(K), NEW p \in {<<>>, <<"XK_">>, <<"XKB_KEY_">>}
        PROVE  LookupKeysym(table, p \o <<l.name>>) = l.val
    <3> DEFINE w == l.name
    <3>1. w \notin KeysymPrefixes \cup {Blank}
      BY <2>4
    <3>2. <<w>> \in DOMAIN table /\ table[<<w>>] = l.val
      BY <2>3
    <3> HIDE DEF w
    <3>3. /\ LookupKeysym(table, <<w>>) = l.val
          /\ LookupKeysym(table, <<"XK_", w>>) = l.val
          /\ LookupKeysym(table, <<"XKB_KEY_", w>>) = l.val
      BY <2>5, <3>1, <3>2, Spellings, Zenon
    <3>4. p \o <<w>> \in {<<w>>, <<"XK_", w>>, <<"XKB_KEY_", w>>}
      <4>1. /\ <<>> \o <<w>> = <<w>> /\ <<"XK_">> \o <<w>> = <<"XK_", w>>
            /\ <<"XKB_KEY_">> \o <<w>> = <<"XKB_KEY_", w>>
        BY OneWord, TwoWords, Zenon
      <4>2. QED
        BY <2>6, <4>1, Zenon
    <3>5. LookupKeysym(table, p \o <<w>>) = l.val
      BY <3>3, <3>4, Zenon
    <3>6. QED
      BY <3>5 DEF w
  <2>7. ASSUME NEW l \in Range(X), NEW p \in {<<>>, <<"XKB_KEY_">>}
        PROVE  LookupKeysym(table, p \o <<"XF86", l.name>>) = l.val
    <3> DEFINE w == l.name
    <3>1. w \notin KeysymPrefixes \cup {Blank}
      BY <2>4
    <3>2. <<"XF86", w>> \in DOMAIN table /\ table[<<"XF86", w>>] = l.val
      BY <2>3
    <3> HIDE DEF w
    <3>3. /\ LookupKeysym(table, <<"XF86", w>>) = l.val
          /\ LookupKeysym(table, <<"XKB_KEY_", "XF86", w>>) = l.val
      BY <2>5, <2>5a, <3>1, <3>2, Spellings, Zenon
    <3>4. p \o <<"XF86", w>> \in {<<"XF86", w>>, <<"XKB_KEY_", "XF86", w>>}
      <4>1. /\ <<>> \o <<"XF86", w>> = <<"XF86", w>>
            /\ <<"XKB_KEY_">> \o <<"XF86", w>> = <<"XKB_KEY_", "XF86", w>>
        BY TwoWords, ThreeWords
      <4>2. QED
        BY <2>7, <4>1, Zenon
    <3>5. LookupKeysym(table, p \o <<"XF86", w>>) = l.val
      BY <3>3, <3>4, Zenon
    <3>6. QED
      BY <3>5 DEF w
  <2>8. QED
    BY <2>6, <2>7 DEF K, X
<1>2. GenInv => CoreNamesKeepKeysyms
  BY <1>1 DEF CoreNamesKeepKeysyms
<1>3. QED
  BY <1>2, GeneratorInvariant, PTL

----------------------------------------------------------------------------
(* The names of a sequence *)

\* A string's text lies between a and b, with blanks around it.
TextIn(s, a, b) ==
  /\ a \in 1 .. Len(s) /\ b \in a .. Len(s)
  /\ s[a] # Blank /\ s[b] # Blank
  /\ \A p \in 1 .. Len(s) : p < a \/ p > b => s[p] = Blank

\* The walls between its parts, in order: each "+", and the two ends.
WallsOf(s, a, b, n, w) ==
  /\ w \in [1 .. n -> Nat] /\ Climbs(w)
  /\ \A i \in 1 .. n : \/ w[i] = a - 1 \/ w[i] = b + 1
                       \/ w[i] \in 1 .. Len(s) /\ s[w[i]] = "+"
  /\ \E i \in 1 .. n : w[i] = a - 1
  /\ \E i \in 1 .. n : w[i] = b + 1
  /\ \A p \in 1 .. Len(s) : s[p] = "+" => \E i \in 1 .. n : w[i] = p

\* What is not blank between two neighbours.
NameIn(s, w, k) == {p \in w[k] + 1 .. w[k + 1] - 1 : s[p] # Blank}

LEMMA WallRange ==
  ASSUME NEW W, NEW s \in Seq(W), NEW a, NEW b, TextIn(s, a, b),
         NEW n \in Nat, NEW w, WallsOf(s, a, b, n, w)
  PROVE  /\ \A i \in 1 .. n : w[i] \in a - 1 .. b + 1
         /\ \A p \in 1 .. Len(s) : s[p] # Blank => p \in a .. b
<1>1. "+" # Blank
  BY Zenon DEF Blank
<1>2. a \in Nat /\ b \in Nat /\ a >= 1 /\ a <= b /\ Len(s) \in Nat /\ b <= Len(s)
  BY DEF TextIn
<1>3. \A p \in 1 .. Len(s) : s[p] # Blank => p \in a .. b
  BY <1>2 DEF TextIn
<1>4. ASSUME NEW i \in 1 .. n PROVE w[i] \in a - 1 .. b + 1
  <2>1. CASE w[i] = a - 1
    BY <1>2, <2>1
  <2>2. CASE w[i] = b + 1
    BY <1>2, <2>2
  <2>3. CASE w[i] \in 1 .. Len(s) /\ s[w[i]] = "+"
    <3>1. w[i] \in a .. b
      BY <1>1, <1>3, <2>3
    <3>2. QED
      BY <1>2, <3>1
  <2>4. QED
    BY <2>1, <2>2, <2>3 DEF WallsOf
<1>5. QED
  BY <1>3, <1>4

\* There is no "+" between two neighbours, and what is there is text.
LEMMA NoPlusBetween ==
  ASSUME NEW W, NEW s \in Seq(W), NEW a, NEW b, TextIn(s, a, b),
         NEW n \in Nat, NEW w, WallsOf(s, a, b, n, w),
         NEW k \in 1 .. n - 1, NEW p \in w[k] + 1 .. w[k + 1] - 1
  PROVE  p \in a .. b /\ p \in 1 .. Len(s) /\ s[p] # "+"
<1>1. k \in 1 .. n /\ k + 1 \in 1 .. n /\ DOMAIN w = 1 .. n
  BY DEF WallsOf
<1>2. w[k] \in a - 1 .. b + 1 /\ w[k + 1] \in a - 1 .. b + 1
  BY <1>1, WallRange
<1>3. a \in Nat /\ b \in Nat /\ a >= 1 /\ a <= b /\ Len(s) \in Nat /\ b <= Len(s)
  BY DEF TextIn
<1>4. p \in a .. b /\ p \in 1 .. Len(s)
  BY <1>2, <1>3, SMTT(30)
<1>5. ASSUME s[p] = "+" PROVE FALSE
  <2>1. PICK i \in 1 .. n : w[i] = p
    BY <1>4, <1>5 DEF WallsOf
  <2>2. w[k] < w[i] /\ w[i] < w[k + 1]
    BY <1>2, <1>3, <2>1
  <2>3. \A x, y \in 1 .. n : x < y => w[x] < w[y]
    BY <1>1 DEF WallsOf, Climbs
  <2>4. CASE i < k
    <3>1. w[i] < w[k]
      BY <1>1, <2>3, <2>4
    <3>2. QED
      BY <1>2, <1>3, <2>1, <2>2, <3>1
  <2>5. CASE i > k + 1
    <3>1. w[k + 1] < w[i]
      BY <1>1, <2>3, <2>5
    <3>2. QED
      BY <1>2, <1>3, <2>1, <2>2, <3>1
  <2>6. CASE i = k \/ i = k + 1
    BY <1>2, <1>3, <2>1, <2>2, <2>6
  <2>7. QED
    BY <1>1, <2>4, <2>5, <2>6
<1>6. QED
  BY <1>4, <1>5

\* The least and the greatest position of a name.
LEMMA NameEnds ==
  ASSUME NEW W, NEW s \in Seq(W), NEW a, NEW b, TextIn(s, a, b),
         NEW n \in Nat, NEW w, WallsOf(s, a, b, n, w),
         NEW k \in 1 .. n - 1, NameIn(s, w, k) # {}
  PROVE  /\ w[k] \in Nat /\ w[k + 1] \in Nat /\ Len(s) \in Nat
         /\ Min(NameIn(s, w, k)) \in NameIn(s, w, k)
         /\ Max(NameIn(s, w, k)) \in NameIn(s, w, k)
         /\ \A p \in NameIn(s, w, k) :
              /\ p \in 1 .. Len(s) /\ p \in w[k] + 1 .. w[k + 1] - 1
              /\ s[p] # Blank
              /\ Min(NameIn(s, w, k)) <= p /\ p <= Max(NameIn(s, w, k))
<1> DEFINE T == NameIn(s, w, k)
<1>1. w[k] \in Nat /\ w[k + 1] \in Nat /\ Len(s) \in Nat
  <2>1. k \in 1 .. n /\ k + 1 \in 1 .. n
    OBVIOUS
  <2>2. QED
    BY <2>1 DEF WallsOf
<1>2. \A p \in T : p \in 1 .. Len(s) /\ p \in w[k] + 1 .. w[k + 1] - 1 /\ s[p] # Blank
  BY NoPlusBetween DEF NameIn
<1>3. T \subseteq 1 .. Len(s) /\ T \subseteq Nat /\ T # {}
  BY <1>2
<1> HIDE DEF T
<1>4. Min(T) \in T /\ \A p \in T : Min(T) <= p
  BY <1>3, MinOfSet
<1>5. Max(T) \in T /\ \A p \in T : p <= Max(T)
  BY <1>1, <1>3, MaxOfSet
<1>6. QED
  BY <1>1, <1>2, <1>4, <1>5 DEF T

\* Each of them is a stretch.
LEMMA NameIsStretch ==
  ASSUME NEW W, NEW s \in Seq(W), NEW a, NEW b, TextIn(s, a, b),
         NEW n \in Nat, NEW w, WallsOf(s, a, b, n, w),
         NEW k \in 1 .. n - 1, NameIn(s, w, k) # {}
  PROVE  IsStretch(s, Min(NameIn(s, w, k)), Max(NameIn(s, w, k)))
<1> DEFINE T == NameIn(s, w, k)
           i == Min(T)
           j == Max(T)
<1>1. /\ w[k] \in Nat /\ w[k + 1] \in Nat /\ Len(s) \in Nat /\ i \in T /\ j \in T
      /\ \A p \in T : /\ p \in 1 .. Len(s) /\ p \in w[k] + 1 .. w[k + 1] - 1
                      /\ s[p] # Blank /\ i <= p /\ p <= j
  BY NameEnds
<1>2. \A p \in w[k] + 1 .. w[k + 1] - 1 : p \in 1 .. Len(s) /\ s[p] # "+"
  BY NoPlusBetween
<1>3. \A p \in w[k] + 1 .. w[k + 1] - 1 : s[p] = Blank \/ p \in T
  BY DEF NameIn
<1>4. /\ a \in Nat /\ b \in Nat /\ a >= 1 /\ a <= b /\ b <= Len(s)
      /\ \A p \in 1 .. Len(s) : p < a \/ p > b => s[p] = Blank
  BY <1>1 DEF TextIn
<1>5. k \in 1 .. n /\ k + 1 \in 1 .. n
  OBVIOUS
<1>6. w[k] \in a - 1 .. b + 1 /\ w[k + 1] \in a - 1 .. b + 1
  BY <1>5, WallRange
<1>7. /\ \/ w[k] = a - 1 \/ w[k] = b + 1
         \/ w[k] \in 1 .. Len(s) /\ s[w[k]] = "+"
      /\ \/ w[k + 1] = a - 1 \/ w[k + 1] = b + 1
         \/ w[k + 1] \in 1 .. Len(s) /\ s[w[k + 1]] = "+"
  BY <1>5 DEF WallsOf
<1> HIDE DEF T, i, j
<1>8. /\ i \in 1 .. Len(s) /\ i \in w[k] + 1 .. w[k + 1] - 1 /\ s[i] # Blank
      /\ j \in 1 .. Len(s) /\ j \in w[k] + 1 .. w[k + 1] - 1 /\ s[j] # Blank /\ i <= j
  BY <1>1
<1>9. \A p \in i .. j : s[p] # "+"
  <2>1. ASSUME NEW p \in i .. j
        PROVE  p \in w[k] + 1 .. w[k + 1] - 1
    <3>1. w[k] \in Int /\ w[k + 1] \in Int /\ i \in Int /\ j \in Int
      BY <1>1, <1>8
    <3>2. QED
      BY <1>8, <3>1
  <2>2. QED
    BY <1>2, <2>1
<1>10. ASSUME NEW p \in 1 .. i - 1 PROVE s[p] = Blank \/ \E m \in p .. i : s[m] = "+"
  <2>1. CASE p > w[k]
    <3>1. p \in w[k] + 1 .. w[k + 1] - 1 /\ ~ (i <= p)
      BY <1>1, <1>8, <2>1
    <3>2. QED
      BY <1>1, <1>3, <3>1
  <2>2. CASE p <= w[k]
    <3>1. w[k] # b + 1
      BY <1>1, <1>4, <1>6, <1>8
    <3>2. CASE w[k] = a - 1
      <4>1. p \in 1 .. Len(s) /\ p < a
        BY <1>1, <1>4, <1>8, <2>2, <3>2
      <4>2. QED
        BY <1>4, <4>1
    <3>3. CASE s[w[k]] = "+"
      <4>1. w[k] \in p .. i
        BY <1>1, <1>8, <2>2
      <4>2. QED
        BY <3>3, <4>1
    <3>4. QED
      BY <1>7, <3>1, <3>2, <3>3
  <2>3. QED
    BY <1>1, <2>1, <2>2
<1>11. ASSUME NEW p \in j + 1 .. Len(s) PROVE s[p] = Blank \/ \E m \in j .. p : s[m] = "+"
  <2>1. CASE p < w[k + 1]
    <3>1. p \in w[k] + 1 .. w[k + 1] - 1 /\ ~ (p <= j)
      BY <1>1, <1>8, <2>1
    <3>2. QED
      BY <1>1, <1>3, <3>1
  <2>2. CASE p >= w[k + 1]
    <3>1. w[k + 1] # a - 1
      BY <1>1, <1>4, <1>6, <1>8
    <3>2. CASE w[k + 1] = b + 1
      <4>1. p \in 1 .. Len(s) /\ p > b
        BY <1>1, <1>4, <1>8, <2>2, <3>2
      <4>2. QED
        BY <1>4, <4>1
    <3>3. CASE s[w[k + 1]] = "+"
      <4>1. w[k + 1] \in j .. p
        BY <1>1, <1>8, <2>2
      <4>2. QED
        BY <3>3, <4>1
    <3>4. QED
      BY <1>7, <3>1, <3>2, <3>3
  <2>3. QED
    BY <1>1, <1>8, <2>1, <2>2
<1>12. IsStretch(s, i, j)
  BY <1>8, <1>9, <1>10, <1>11 DEF IsStretch
<1>13. QED
  BY <1>12 DEF i, j, T

\* Each stretch is one of them.
LEMMA StretchIsName ==
  ASSUME NEW W, NEW s \in Seq(W), NEW a, NEW b, TextIn(s, a, b),
         NEW n \in Nat, NEW w, WallsOf(s, a, b, n, w),
         NEW i \in 1 .. Len(s), NEW j \in 1 .. Len(s), IsStretch(s, i, j)
  PROVE  \E k \in 1 .. n - 1 :
           /\ NameIn(s, w, k) # {}
           /\ i = Min(NameIn(s, w, k)) /\ j = Max(NameIn(s, w, k))
<1>1. /\ i <= j /\ \A p \in i .. j : s[p] # "+"
      /\ s[i] # Blank /\ s[j] # Blank
      /\ \A p \in 1 .. i - 1 : s[p] = Blank \/ \E m \in p .. i : s[m] = "+"
      /\ \A p \in j + 1 .. Len(s) : s[p] = Blank \/ \E m \in j .. p : s[m] = "+"
  BY DEF IsStretch
<1>2. a \in Nat /\ b \in Nat /\ a >= 1 /\ a <= b /\ Len(s) \in Nat /\ b <= Len(s)
  BY DEF TextIn
<1>3. i \in a .. b /\ j \in a .. b
  BY <1>1, WallRange
<1>4. /\ \A x \in 1 .. n : w[x] \in a - 1 .. b + 1
      /\ \A x \in 1 .. n : \/ w[x] = a - 1 \/ w[x] = b + 1
                           \/ w[x] \in 1 .. Len(s) /\ s[w[x]] = "+"
      /\ \A x, y \in 1 .. n : x < y => w[x] < w[y]
  <2>1. \A x \in 1 .. n : w[x] \in a - 1 .. b + 1
    BY WallRange
  <2>2. QED
    BY <2>1 DEF WallsOf, Climbs
<1> DEFINE left == {x \in 1 .. n : w[x] < i}
           k == Max(left)
<1>5. left \subseteq 1 .. n /\ left # {}
  <2>1. PICK x \in 1 .. n : w[x] = a - 1
    BY DEF WallsOf
  <2>2. x \in left
    BY <1>2, <1>3, <2>1
  <2>3. QED
    BY <2>2
<1>6. k \in left /\ \A x \in left : x <= k
  <2> HIDE DEF left
  <2>1. QED
    BY <1>5, MaxOfSet
<1>7. k \in 1 .. n /\ w[k] < i
  BY <1>6
<1>8. k \in 1 .. n - 1
  <2>1. PICK x \in 1 .. n : w[x] = b + 1
    BY DEF WallsOf
  <2>2. w[k] < w[x]
    BY <1>2, <1>3, <1>4, <1>7, <2>1
  <2>3. ~ (x < k) /\ x # k
    BY <1>2, <1>4, <1>7, <2>1, <2>2
  <2>4. QED
    BY <1>7, <2>3
<1>9. k + 1 \in 1 .. n /\ ~ (w[k + 1] < i)
  <2>1. k + 1 \in 1 .. n /\ ~ (k + 1 <= k)
    BY <1>8
  <2>2. QED
    BY <1>6, <2>1
<1> HIDE DEF left, k
<1>10. w[k + 1] > j
  <2>1. w[k + 1] >= i /\ w[k + 1] # a - 1
    BY <1>2, <1>3, <1>4, <1>9
  <2>2. CASE w[k + 1] = b + 1
    BY <1>2, <1>3, <2>2
  <2>3. CASE s[w[k + 1]] = "+"
    <3>1. w[k + 1] \notin i .. j
      BY <1>1, <2>3
    <3>2. QED
      BY <1>2, <1>3, <1>4, <1>9, <2>1, <3>1
  <2>4. QED
    BY <1>4, <1>9, <2>1, <2>2, <2>3
<1> DEFINE T == NameIn(s, w, k)
<1>11. i \in T /\ j \in T
  <2>1. i \in w[k] + 1 .. w[k + 1] - 1 /\ j \in w[k] + 1 .. w[k + 1] - 1
    <3>1. w[k] \in Int /\ w[k + 1] \in Int /\ i \in Nat /\ j \in Nat
      BY <1>2, <1>3, <1>4, <1>7, <1>9
    <3>2. w[k] < i /\ i <= j /\ j < w[k + 1]
      BY <1>1, <1>7, <1>10
    <3>3. QED
      BY <3>1, <3>2
  <2>2. QED
    BY <1>1, <2>1 DEF NameIn
<1>12. /\ w[k] \in Nat /\ w[k + 1] \in Nat
       /\ Min(T) \in T /\ Max(T) \in T
       /\ \A p \in T : /\ p \in 1 .. Len(s) /\ p \in w[k] + 1 .. w[k + 1] - 1
                       /\ s[p] # Blank /\ Min(T) <= p /\ p <= Max(T)
  BY <1>8, <1>11, NameEnds
<1>13. \A p \in w[k] + 1 .. w[k + 1] - 1 : s[p] # "+"
  BY <1>8, NoPlusBetween
<1> HIDE DEF T
<1> DEFINE x == Min(T)
           y == Max(T)
<1>14. /\ x \in 1 .. Len(s) /\ x \in w[k] + 1 .. w[k + 1] - 1 /\ s[x] # Blank /\ x <= i
       /\ y \in 1 .. Len(s) /\ y \in w[k] + 1 .. w[k + 1] - 1 /\ s[y] # Blank /\ j <= y
       /\ i \in w[k] + 1 .. w[k + 1] - 1 /\ j \in w[k] + 1 .. w[k + 1] - 1
  BY <1>11, <1>12
<1> HIDE DEF x, y
<1>15. x = i
  <2>1. ASSUME x < i PROVE FALSE
    <3>1. x \in 1 .. i - 1
      BY <1>2, <1>14, <2>1
    <3>2. PICK m \in x .. i : s[m] = "+"
      BY <1>1, <1>14, <3>1
    <3>3. m \in w[k] + 1 .. w[k + 1] - 1
      BY <1>12, <1>14, <3>2
    <3>4. QED
      BY <1>13, <3>2, <3>3
  <2>2. QED
    BY <1>2, <1>14, <2>1
<1>16. y = j
  <2>1. ASSUME y > j PROVE FALSE
    <3>1. y \in j + 1 .. Len(s)
      BY <1>2, <1>14, <2>1
    <3>2. PICK m \in j .. y : s[m] = "+"
      BY <1>1, <1>14, <3>1
    <3>3. m \in w[k] + 1 .. w[k + 1] - 1
      BY <1>12, <1>14, <3>2
    <3>4. QED
      BY <1>13, <3>2, <3>3
  <2>2. QED
    BY <1>2, <1>14, <2>1
<1>17. QED
  BY <1>8, <1>11, <1>15, <1>16 DEF x, y, T

\* There are as many of them as stretches.
LEMMA NamesAndStretches ==
  ASSUME NEW W, NEW s \in Seq(W), NEW a, NEW b, TextIn(s, a, b),
         NEW n \in Nat, NEW w, WallsOf(s, a, b, n, w),
         NEW K, K = {k \in 1 .. n - 1 : NameIn(s, w, k) # {}}
  PROVE  IsFiniteSet(K) /\ Cardinality(Stretches(s)) = Cardinality(K)
<1> DEFINE F == [k \in K |-> <<Min(NameIn(s, w, k)), Max(NameIn(s, w, k))>>]
<1>1. IsFiniteSet(K)
  <2>1. IsFiniteSet(1 .. n - 1)
    BY FS_Interval
  <2>2. QED
    BY <2>1, FS_Subset
<1>2. ASSUME NEW k \in K
      PROVE  /\ w[k] \in Nat /\ w[k + 1] \in Nat
             /\ Min(NameIn(s, w, k)) \in 1 .. Len(s)
             /\ Max(NameIn(s, w, k)) \in 1 .. Len(s)
             /\ Min(NameIn(s, w, k)) \in w[k] + 1 .. w[k + 1] - 1
  BY NameEnds
<1>3. ASSUME NEW k \in K PROVE F[k] \in Stretches(s)
  <2>1. IsStretch(s, Min(NameIn(s, w, k)), Max(NameIn(s, w, k)))
    BY NameIsStretch
  <2> DEFINE i == Min(NameIn(s, w, k))
             j == Max(NameIn(s, w, k))
  <2>2. F[k] = <<i, j>> /\ i \in DOMAIN s /\ j \in DOMAIN s /\ IsStretch(s, i, j)
    BY <1>2, <2>1
  <2> HIDE DEF i, j, F
  <2>3. QED
    BY <2>2 DEF Stretches
<1>4. F \in [K -> Stretches(s)]
  BY <1>3
<1>5. ASSUME NEW k \in K, NEW m \in K, F[k] = F[m], k < m PROVE FALSE
  <2>1. Min(NameIn(s, w, k)) = Min(NameIn(s, w, m))
    BY <1>5
  <2>2. w[k + 1] <= w[m]
    <3>1. k + 1 \in 1 .. n /\ m \in 1 .. n /\ k + 1 <= m
      BY <1>5
    <3>2. \A x, y \in 1 .. n : w[x] \in Nat /\ (x < y => w[x] < w[y])
      BY DEF WallsOf, Climbs
    <3>3. k + 1 = m \/ k + 1 < m
      BY <3>1
    <3>4. QED
      BY <3>1, <3>2, <3>3
  <2> DEFINE p == Min(NameIn(s, w, k))
  <2>3. p \in w[k] + 1 .. w[k + 1] - 1 /\ p \in w[m] + 1 .. w[m + 1] - 1
    BY <1>2, <2>1
  <2>4. /\ w[k] \in Nat /\ w[k + 1] \in Nat /\ w[m] \in Nat /\ w[m + 1] \in Nat
    BY <1>2
  <2> HIDE DEF p
  <2>5. QED
    BY <2>2, <2>3, <2>4
<1>6. \A k, m \in K : F[k] = F[m] => k = m
  <2>1. SUFFICES ASSUME NEW k \in K, NEW m \in K, F[k] = F[m] PROVE k = m
    OBVIOUS
  <2>2. ~ (k < m) /\ ~ (m < k)
    BY <1>5, <2>1
  <2>3. QED
    BY <2>2
<1>7. \A st \in Stretches(s) : \E k \in K : F[k] = st
  <2>1. SUFFICES ASSUME NEW st \in Stretches(s) PROVE \E k \in K : F[k] = st
    OBVIOUS
  <2>2. PICK i \in 1 .. Len(s), j \in 1 .. Len(s) : st = <<i, j>> /\ IsStretch(s, i, j)
    BY DEF Stretches
  <2>3. PICK k \in 1 .. n - 1 : /\ NameIn(s, w, k) # {}
                                /\ i = Min(NameIn(s, w, k)) /\ j = Max(NameIn(s, w, k))
    BY <2>2, StretchIsName
  <2>4. k \in K /\ F[k] = <<i, j>>
    BY <2>3
  <2>5. QED
    BY <2>2, <2>4
<1> HIDE DEF F
<1>8. F \in Bijection(K, Stretches(s))
  BY <1>4, <1>6, <1>7, Fun_IsBij
<1>9. ExistsBijection(K, Stretches(s))
  BY <1>8 DEF ExistsBijection
<1>10. QED
  BY <1>1, <1>9, FS_Bijection

\* A part of a string without the blanks around it.
LEMMA TrimPart ==
  ASSUME NEW W, NEW s \in Seq(W), NEW l \in Nat, NEW r \in Nat, l >= 1, r <= Len(s)
  PROVE  LET T == {p \in l .. r : s[p] # Blank}
         IN  /\ T = {} => TrimSpace(SubSeq(s, l, r)) = <<>>
             /\ T # {} => /\ TrimSpace(SubSeq(s, l, r)) = SubSeq(s, Min(T), Max(T))
                          /\ TrimSpace(SubSeq(s, l, r)) # <<>>
<1> DEFINE T == {p \in l .. r : s[p] # Blank}
           q == SubSeq(s, l, r)
           solid == {i \in DOMAIN q : q[i] # Blank}
<1>1. \A p \in l .. r : p \in 1 .. Len(s) /\ s[p] \in W
  OBVIOUS
<1>2. /\ q \in Seq(W) /\ Len(q) = (IF l <= r THEN r - l + 1 ELSE 0)
      /\ \A i \in 1 .. r - l + 1 : q[i] = s[l + i - 1]
  BY <1>1, SubSeqProperties
<1>3. TrimSpace(q) = IF solid = {} THEN <<>> ELSE SubSeq(q, Min(solid), Max(solid))
  BY DEF TrimSpace
<1> HIDE DEF q
<1>4. \A i \in solid : i \in 1 .. Len(q) /\ l + i - 1 \in T
  BY <1>2
<1>5. \A p \in T : p - l + 1 \in solid
  <2>1. SUFFICES ASSUME NEW p \in T PROVE p - l + 1 \in solid
    OBVIOUS
  <2>2. p - l + 1 \in 1 .. r - l + 1 /\ l <= r /\ l + (p - l + 1) - 1 = p
    OBVIOUS
  <2>3. q[p - l + 1] = s[p]
    BY <1>2, <2>2
  <2>4. QED
    BY <1>2, <2>2, <2>3
<1>6. T \subseteq 1 .. Len(s) /\ T \subseteq Nat /\ Len(s) \in Nat
  OBVIOUS
<1>7. solid \subseteq 1 .. Len(q) /\ solid \subseteq Nat /\ Len(q) \in Nat
  BY <1>2
<1>8. CASE T = {}
  <2>1. solid = {}
    BY <1>4, <1>8
  <2>2. QED
    BY <1>3, <1>8, <2>1 DEF q
<1>9. CASE T # {}
  <2>1. solid # {}
    BY <1>5, <1>9
  <2>2. l <= r
    BY <1>9
  <2> HIDE DEF T, solid
  <2> DEFINE i == Min(solid)
             j == Max(solid)
             x == Min(T)
             y == Max(T)
  <2>3. i \in solid /\ (\A p \in solid : i <= p) /\ j \in solid /\ \A p \in solid : p <= j
    BY <1>7, <2>1, MinOfSet, MaxOfSet
  <2>4. x \in T /\ (\A p \in T : x <= p) /\ y \in T /\ \A p \in T : p <= y
    BY <1>6, <1>9, MinOfSet, MaxOfSet
  <2> HIDE DEF i, j, x, y
  <2>5. i \in 1 .. Len(q) /\ j \in 1 .. Len(q) /\ x \in 1 .. Len(s) /\ y \in 1 .. Len(s)
    BY <1>6, <1>7, <2>3, <2>4
  <2>6. x <= l + i - 1 /\ i <= x - l + 1 /\ l + j - 1 <= y /\ y - l + 1 <= j
    BY <1>4, <1>5, <2>3, <2>4
  <2>7. l + i - 1 = x /\ l + j - 1 = y
    BY <2>5, <2>6
  <2>8. TrimSpace(q) = SubSeq(q, i, j)
    BY <1>3, <2>1 DEF i, j
  <2>9. SubSeq(SubSeq(s, l, r), i, j) = SubSeq(s, l + i - 1, l + j - 1)
    <3>1. l \in 1 .. Len(s) /\ r \in 1 .. Len(s) /\ i \in 1 .. r - l + 1 /\ j \in 1 .. r - l + 1
      BY <1>2, <2>2, <2>5
    <3>2. QED
      BY <3>1, SubSeqOfSubSeq
  <2>10. TrimSpace(q) = SubSeq(s, x, y)
    BY <2>7, <2>8, <2>9 DEF q
  <2>11. SubSeq(s, x, y) # <<>>
    <3>1. x <= y
      BY <2>4
    <3>2. \A p \in x .. y : s[p] \in W
      BY <2>5
    <3>3. Len(SubSeq(s, x, y)) = y - x + 1
      BY <2>5, <3>1, <3>2, SubSeqProperties
    <3>4. y - x + 1 # 0
      BY <2>5, <3>1
    <3>5. QED
      BY <3>3, <3>4
  <2>12. QED
    BY <1>9, <2>10, <2>11 DEF q, x, y, T
<1>10. QED
  BY <1>8, <1>9

\* Where the text of a string is.
LEMMA TextOf ==
  ASSUME NEW W, NEW s \in Seq(W), NEW i \in 1 .. Len(s), s[i] # Blank
  PROVE  \E a, b \in 1 .. Len(s) : TextIn(s, a, b) /\ TrimSpace(s) = SubSeq(s, a, b)
<1> DEFINE solid == {p \in DOMAIN s : s[p] # Blank}
           a == Min(solid)
           b == Max(solid)
<1>1. /\ solid \subseteq 1 .. Len(s) /\ solid \subseteq Nat /\ solid # {}
      /\ Len(s) \in Nat
      /\ \A p \in 1 .. Len(s) : s[p] # Blank => p \in solid
      /\ \A p \in solid : s[p] # Blank
  OBVIOUS
<1>2. TrimSpace(s) = SubSeq(s, a, b)
  BY <1>1 DEF TrimSpace
<1> HIDE DEF solid
<1>3. /\ a \in solid /\ (\A p \in solid : a <= p)
      /\ b \in solid /\ (\A p \in solid : p <= b)
  BY <1>1, MinOfSet, MaxOfSet
<1> HIDE DEF a, b
<1>4. /\ a \in 1 .. Len(s) /\ b \in 1 .. Len(s) /\ a <= b
      /\ s[a] # Blank /\ s[b] # Blank
  BY <1>1, <1>3
<1>5. ASSUME NEW p \in 1 .. Len(s), p < a \/ p > b PROVE s[p] = Blank
  <2>1. p \notin solid
    BY <1>3, <1>4, <1>5
  <2>2. QED
    BY <1>1, <2>1
<1>6. TextIn(s, a, b)
  BY <1>4, <1>5 DEF TextIn
<1>7. QED
  BY <1>2, <1>4, <1>6

\* SplitPlus takes the text apart at its walls.
LEMMA PartsOfText ==
  ASSUME NEW W, NEW s \in Seq(W), NEW a, NEW b, TextIn(s, a, b)
  PROVE  \E n \in Nat : \E w :
           /\ WallsOf(s, a, b, n, w)
           /\ DOMAIN SplitPlus(SubSeq(s, a, b)) = 1 .. n - 1
           /\ \A k \in 1 .. n - 1 :
                SplitPlus(SubSeq(s, a, b))[k] = SubSeq(s, w[k] + 1, w[k + 1] - 1)
<1> DEFINE u == SubSeq(s, a, b)
           plus == {i \in DOMAIN u : u[i] = "+"}
           set == {0, Len(u) + 1} \cup plus
           cuts == Ascending(set)
           n == Len(cuts)
           w == [k \in 1 .. n |-> a - 1 + cuts[k]]
<1>1. /\ a \in Nat /\ b \in Nat /\ a >= 1 /\ a <= b /\ Len(s) \in Nat /\ b <= Len(s)
      /\ a \in 1 .. Len(s) /\ b \in 1 .. Len(s)
      /\ \A p \in 1 .. Len(s) : p < a \/ p > b => s[p] = Blank
  BY DEF TextIn
<1>2. /\ u \in Seq(W) /\ Len(u) = b - a + 1
      /\ \A i \in 1 .. b - a + 1 : u[i] = s[a + i - 1]
  <2>1. \A i \in a .. b : s[i] \in W
    BY <1>1
  <2>2. QED
    BY <1>1, <2>1, SubSeqProperties
<1>3. /\ SplitPlus(u) = [k \in 1 .. n - 1 |-> SubSeq(u, cuts[k] + 1, cuts[k + 1] - 1)]
  BY DEF SplitPlus
<1> HIDE DEF u
<1>4. set \in SUBSET Nat /\ IsFiniteSet(set)
  <2>1. plus \subseteq 1 .. Len(u) /\ Len(u) \in Nat
    BY <1>2
  <2>2. set \subseteq 0 .. Len(u) + 1 /\ IsFiniteSet(0 .. Len(u) + 1)
    <3>1. set \subseteq 0 .. Len(u) + 1
      BY <2>1
    <3>2. 0 \in Int /\ Len(u) + 1 \in Int
      BY <2>1
    <3>3. IsFiniteSet(0 .. Len(u) + 1)
      BY <3>2, FS_Interval
    <3>4. QED
      BY <3>1, <3>3
  <2>3. IsFiniteSet(set)
    BY <2>2, FS_Subset
  <2>4. QED
    BY <2>2, <2>3
<1>5. /\ cuts \in Seq(set) /\ Climbs(cuts) /\ Range(cuts) = set
  BY <1>4, AscendingListsAll
<1>6. /\ n \in Nat /\ DOMAIN cuts = 1 .. n
      /\ \A k \in 1 .. n : cuts[k] \in set
      /\ \A x \in set : \E k \in 1 .. n : cuts[k] = x
  <2> HIDE DEF cuts, set
  <2>1. QED
    BY <1>5 DEF Range
<1>7. /\ \A x \in set : \/ x = 0 \/ x = b - a + 2
                        \/ x \in 1 .. b - a + 1 /\ s[a - 1 + x] = "+"
      /\ 0 \in set /\ b - a + 2 \in set
      /\ \A x \in 1 .. b - a + 1 : s[a - 1 + x] = "+" => x \in set
  <2>1. DOMAIN u = 1 .. b - a + 1 /\ Len(u) + 1 = b - a + 2
    BY <1>1, <1>2
  <2>2. \A x \in 1 .. b - a + 1 : u[x] = s[a - 1 + x]
    BY <1>1, <1>2
  <2>3. QED
    BY <1>1, <2>1, <2>2
<1>8. \A i, j \in 1 .. n : i < j => cuts[i] < cuts[j]
  <2> HIDE DEF cuts
  <2>1. QED
    BY <1>5, <1>6 DEF Climbs
<1> HIDE DEF cuts, set, n
<1>9. \A k \in 1 .. n : cuts[k] \in 0 .. b - a + 2 /\ w[k] = a - 1 + cuts[k]
  <2>1. \A x \in set : x \in 0 .. b - a + 2
    BY <1>1, <1>7
  <2>2. \A k \in 1 .. n : cuts[k] \in 0 .. b - a + 2
    BY <1>6, <2>1
  <2>3. QED
    BY <2>2
<1>10. WallsOf(s, a, b, n, w)
  <2>1. w \in [1 .. n -> Nat]
    BY <1>1, <1>9
  <2>2. Climbs(w)
    BY <1>1, <1>8, <1>9, <2>1 DEF Climbs
  <2>3. ASSUME NEW i \in 1 .. n
        PROVE  \/ w[i] = a - 1 \/ w[i] = b + 1
               \/ w[i] \in 1 .. Len(s) /\ s[w[i]] = "+"
    <3>1. w[i] = a - 1 + cuts[i]
      BY <1>9
    <3>2. CASE cuts[i] = 0
      BY <1>1, <3>1, <3>2
    <3>3. CASE cuts[i] = b - a + 2
      BY <1>1, <3>1, <3>3
    <3>4. CASE cuts[i] \in 1 .. b - a + 1 /\ s[a - 1 + cuts[i]] = "+"
      BY <1>1, <3>1, <3>4
    <3>5. QED
      BY <1>6, <1>7, <3>2, <3>3, <3>4
  <2>4. \E i \in 1 .. n : w[i] = a - 1
    BY <1>1, <1>6, <1>7, <1>9
  <2>5. \E i \in 1 .. n : w[i] = b + 1
    BY <1>1, <1>6, <1>7, <1>9
  <2>6. ASSUME NEW p \in 1 .. Len(s), s[p] = "+" PROVE \E i \in 1 .. n : w[i] = p
    <3>1. "+" # Blank
      BY Zenon DEF Blank
    <3>2. p \in a .. b
      BY <1>1, <2>6, <3>1
    <3>3. p - a + 1 \in 1 .. b - a + 1 /\ a - 1 + (p - a + 1) = p
      BY <1>1, <3>2
    <3>4. p - a + 1 \in set
      BY <1>7, <2>6, <3>3
    <3>5. QED
      BY <1>6, <1>9, <3>3, <3>4
  <2> HIDE DEF w
  <2>7. QED
    BY <2>1, <2>2, <2>3, <2>4, <2>5, <2>6 DEF WallsOf
<1>11. ASSUME NEW k \in 1 .. n - 1
       PROVE  SplitPlus(u)[k] = SubSeq(s, w[k] + 1, w[k + 1] - 1)
  <2> DEFINE x == cuts[k]
             y == cuts[k + 1]
  <2>1. /\ k \in 1 .. n /\ k + 1 \in 1 .. n
        /\ x \in 0 .. b - a + 2 /\ y \in 0 .. b - a + 2 /\ x < y
        /\ w[k] = a - 1 + x /\ w[k + 1] = a - 1 + y
    <3>1. k \in 1 .. n /\ k + 1 \in 1 .. n /\ k < k + 1
      BY <1>6
    <3> HIDE DEF w
    <3>2. QED
      BY <1>8, <1>9, <3>1
  <2>2. SplitPlus(u)[k] = SubSeq(u, x + 1, y - 1)
    BY <1>3
  <2> HIDE DEF x, y, w
  <2>3. CASE x + 1 <= y - 1
    <3> DEFINE i == x + 1
               j == y - 1
    <3>1. i \in 1 .. b - a + 1 /\ j \in 1 .. b - a + 1
      BY <1>1, <2>1, <2>3
    <3>2. a + i - 1 = w[k] + 1 /\ a + j - 1 = w[k + 1] - 1
      BY <1>1, <2>1
    <3> HIDE DEF i, j
    <3>3. SubSeq(SubSeq(s, a, b), i, j) = SubSeq(s, a + i - 1, a + j - 1)
      BY <1>1, <3>1, SubSeqOfSubSeq
    <3>4. SplitPlus(u)[k] = SubSeq(SubSeq(s, a, b), i, j)
      BY <2>2 DEF u, i, j
    <3>5. QED
      BY <3>2, <3>3, <3>4
  <2>4. CASE y - 1 < x + 1
    <3>1. SubSeq(u, x + 1, y - 1) = <<>>
      BY <2>1, <2>4, SubSeqEmpty
    <3>2. w[k + 1] - 1 < w[k] + 1 /\ w[k] + 1 \in Int /\ w[k + 1] - 1 \in Int
      BY <1>1, <2>1, <2>4
    <3>3. SubSeq(s, w[k] + 1, w[k + 1] - 1) = <<>>
      BY <3>2, SubSeqEmpty
    <3>4. QED
      BY <2>2, <3>1, <3>3
  <2>5. QED
    BY <2>1, <2>3, <2>4
<1>12. DOMAIN SplitPlus(u) = 1 .. n - 1
  BY <1>3
<1> HIDE DEF w
<1>13. QED
  BY <1>6, <1>10, <1>11, <1>12 DEF u

\* The names SplitKeysequence returns are the stretches, each once.
LEMMA SequenceNames ==
  ASSUME NEW W, NEW s \in Seq(W)
  PROVE  /\ Cardinality(Stretches(s)) \in Nat
         /\ DOMAIN SplitKeysequence(s) = 1 .. Cardinality(Stretches(s))
         /\ \A i \in DOMAIN SplitKeysequence(s) : \E st \in Stretches(s) :
              SplitKeysequence(s)[i] = SubSeq(s, st[1], st[2])
         /\ \A st \in Stretches(s) : \E i \in DOMAIN SplitKeysequence(s) :
              SplitKeysequence(s)[i] = SubSeq(s, st[1], st[2])
<1> DEFINE parts == SplitPlus(TrimSpace(s))
           K == {k \in DOMAIN parts : TrimSpace(parts[k]) # <<>>}
           names == Ascending(K)
<1>1. SplitKeysequence(s) = [i \in DOMAIN names |-> TrimSpace(parts[names[i]])]
  BY DEF SplitKeysequence
<1>2. CASE \A i \in 1 .. Len(s) : s[i] = Blank
  <2>1. Stretches(s) = {}
    BY <1>2 DEF Stretches, IsStretch
  <2>2. TrimSpace(s) = <<>>
    <3>1. {i \in DOMAIN s : s[i] # Blank} = {}
      BY <1>2
    <3>2. QED
      BY <3>1 DEF TrimSpace
  <2>3. {0, Len(<<>>) + 1} \cup {i \in DOMAIN <<>> : <<>>[i] = "+"} = {0, 1}
    <3>1. DOMAIN <<>> = {} /\ Len(<<>>) = 0
      OBVIOUS
    <3>2. QED
      BY <3>1
  <2> DEFINE cuts == Ascending({0, 1})
  <2>4. parts = [k \in 1 .. Len(cuts) - 1 |-> SubSeq(<<>>, cuts[k] + 1, cuts[k + 1] - 1)]
    BY <2>2, <2>3 DEF SplitPlus
  <2>5. Len(cuts) \in Nat /\ \A k \in 1 .. Len(cuts) : cuts[k] \in {0, 1}
    <3>1. {0, 1} \in SUBSET Nat /\ IsFiniteSet({0, 1})
      <4>1. IsFiniteSet(0 .. 1)
        <5>1. 0 \in Int /\ 1 \in Int
          OBVIOUS
        <5>2. QED
          BY <5>1, FS_Interval, Zenon
      <4>2. {0, 1} = 0 .. 1 /\ {0, 1} \subseteq Nat
        OBVIOUS
      <4>3. QED
        BY <4>1, <4>2
    <3>2. cuts \in Seq({0, 1})
      BY <3>1, AscendingListsAll
    <3> HIDE DEF cuts
    <3>3. QED
      BY <3>2
  <2> HIDE DEF cuts, parts
  <2>6. ASSUME NEW k \in DOMAIN parts PROVE TrimSpace(parts[k]) = <<>>
    <3>1. k \in 1 .. Len(cuts) /\ k + 1 \in 1 .. Len(cuts)
      BY <2>4, <2>5
    <3>2. cuts[k] + 1 \in Int /\ cuts[k + 1] - 1 \in Int /\ cuts[k + 1] - 1 < cuts[k] + 1
      <4>1. cuts[k] \in {0, 1} /\ cuts[k + 1] \in {0, 1}
        BY <2>5, <3>1
      <4>2. QED
        BY <4>1
    <3>3. SubSeq(<<>>, cuts[k] + 1, cuts[k + 1] - 1) = <<>>
      BY <3>2, SubSeqEmpty
    <3>4. parts[k] = <<>>
      BY <2>4, <3>3
    <3>5. {i \in DOMAIN <<>> : <<>>[i] # Blank} = {}
      <4>1. DOMAIN <<>> = {}
        OBVIOUS
      <4>2. QED
        BY <4>1
    <3>6. QED
      BY <3>4, <3>5 DEF TrimSpace
  <2>7. K = {}
    BY <2>6
  <2>8. DOMAIN names = {}
    <3>1. K \in SUBSET Nat /\ IsFiniteSet(K) /\ Cardinality(K) = 0
      BY <2>7, FS_EmptySet
    <3>2. names \in [1 .. Cardinality(K) -> K]
      BY <3>1, AscendingListsAll
    <3>3. 1 .. 0 = {}
      OBVIOUS
    <3> HIDE DEF names, K
    <3>4. QED
      BY <3>1, <3>2, <3>3
  <2>9. Cardinality(Stretches(s)) = 0 /\ 1 .. 0 = {}
    BY <2>1, FS_EmptySet
  <2> HIDE DEF names
  <2>10. QED
    BY <1>1, <2>1, <2>8, <2>9
<1>3. CASE ~ \A i \in 1 .. Len(s) : s[i] = Blank
  <2>1. PICK a \in 1 .. Len(s), b \in 1 .. Len(s) :
          TextIn(s, a, b) /\ TrimSpace(s) = SubSeq(s, a, b)
    BY <1>3, TextOf
  <2>2. PICK n \in Nat : \E w :
          /\ WallsOf(s, a, b, n, w)
          /\ DOMAIN parts = 1 .. n - 1
          /\ \A k \in 1 .. n - 1 : parts[k] = SubSeq(s, w[k] + 1, w[k + 1] - 1)
    BY <2>1, PartsOfText
  <2>3. PICK w :
          /\ WallsOf(s, a, b, n, w)
          /\ DOMAIN parts = 1 .. n - 1
          /\ \A k \in 1 .. n - 1 : parts[k] = SubSeq(s, w[k] + 1, w[k + 1] - 1)
    BY <2>2
  <2> HIDE DEF parts
  <2> DEFINE T(k) == NameIn(s, w, k)
  <2>4. ASSUME NEW k \in 1 .. n - 1
        PROVE  /\ T(k) = {} => TrimSpace(parts[k]) = <<>>
               /\ T(k) # {} => /\ TrimSpace(parts[k]) = SubSeq(s, Min(T(k)), Max(T(k)))
                               /\ TrimSpace(parts[k]) # <<>>
    <3> DEFINE l == w[k] + 1
               r == w[k + 1] - 1
    <3>1. k \in 1 .. n /\ k + 1 \in 1 .. n /\ k < k + 1
      OBVIOUS
    <3>2. w[k] \in a - 1 .. b + 1 /\ w[k + 1] \in a - 1 .. b + 1 /\ w[k] < w[k + 1]
      <4>1. w[k] \in a - 1 .. b + 1 /\ w[k + 1] \in a - 1 .. b + 1
        BY <2>3, <2>1, <3>1, WallRange
      <4>2. w[k] < w[k + 1]
        BY <2>3, <3>1 DEF WallsOf, Climbs
      <4>3. QED
        BY <4>1, <4>2
    <3>3. l \in Nat /\ r \in Nat /\ l >= 1 /\ r <= Len(s)
      BY <2>1, <3>2, SMTT(30)
    <3> DEFINE Q == {p \in l .. r : s[p] # Blank}
               part == SubSeq(s, l, r)
    <3>4. parts[k] = part /\ T(k) = Q
      BY <2>3 DEF NameIn
    <3> HIDE DEF l, r, T
    <3>5. /\ Q = {} => TrimSpace(part) = <<>>
          /\ Q # {} => /\ TrimSpace(part) = SubSeq(s, Min(Q), Max(Q))
                       /\ TrimSpace(part) # <<>>
      BY <3>3, TrimPart
    <3> HIDE DEF Q, part
    <3>6. QED
      BY <3>4, <3>5
  <2>5. K = {k \in 1 .. n - 1 : T(k) # {}}
    BY <2>3, <2>4
  <2>6. IsFiniteSet(K) /\ Cardinality(Stretches(s)) = Cardinality(K)
    <3>1. TextIn(s, a, b) /\ WallsOf(s, a, b, n, w)
      BY <2>1, <2>3
    <3>2. K = {k \in 1 .. n - 1 : NameIn(s, w, k) # {}}
      BY <2>5
    <3> HIDE DEF K
    <3>3. QED
      BY <3>1, <3>2, NamesAndStretches, SMTT(30)
  <2>7. K \in SUBSET Nat
    BY <2>5
  <2> HIDE DEF K
  <2>8. /\ Cardinality(K) \in Nat
        /\ names \in [1 .. Cardinality(K) -> K] /\ Range(names) = K
    BY <2>6, <2>7, AscendingListsAll, FS_CardinalityType
  <2> HIDE DEF names
  <2>9. /\ DOMAIN names = 1 .. Cardinality(Stretches(s))
        /\ \A i \in DOMAIN names : names[i] \in K
        /\ \A k \in K : \E i \in DOMAIN names : names[i] = k
    BY <2>6, <2>8 DEF Range
  <2>10. /\ DOMAIN SplitKeysequence(s) = DOMAIN names
         /\ \A i \in DOMAIN names : SplitKeysequence(s)[i] = TrimSpace(parts[names[i]])
    BY <1>1
  <2>11. ASSUME NEW i \in DOMAIN names
         PROVE  \E st \in Stretches(s) : SplitKeysequence(s)[i] = SubSeq(s, st[1], st[2])
    <3> DEFINE k == names[i]
               x == Min(T(k))
               y == Max(T(k))
    <3>1. k \in 1 .. n - 1 /\ T(k) # {}
      BY <2>5, <2>9
    <3>2. SplitKeysequence(s)[i] = SubSeq(s, x, y)
      BY <2>4, <2>10, <3>1
    <3>3. IsStretch(s, x, y)
      BY <2>1, <2>3, <3>1, NameIsStretch
    <3>4. x \in T(k) /\ y \in T(k) /\ \A p \in T(k) : p \in 1 .. Len(s)
      BY <2>1, <2>3, <3>1, NameEnds
    <3> HIDE DEF x, y, T, k
    <3>5. x \in DOMAIN s /\ y \in DOMAIN s
      BY <3>4
    <3>6. <<x, y>> \in Stretches(s)
      BY <3>3, <3>5 DEF Stretches
    <3>7. QED
      BY <3>2, <3>6
  <2>12. ASSUME NEW st \in Stretches(s)
         PROVE  \E i \in DOMAIN names : SplitKeysequence(s)[i] = SubSeq(s, st[1], st[2])
    <3>1. /\ st[1] \in 1 .. Len(s) /\ st[2] \in 1 .. Len(s)
          /\ IsStretch(s, st[1], st[2])
      BY DEF Stretches
    <3>2. PICK k \in 1 .. n - 1 : T(k) # {} /\ st[1] = Min(T(k)) /\ st[2] = Max(T(k))
      BY <2>1, <2>3, <3>1, StretchIsName
    <3>3. k \in K
      BY <2>5, <3>2
    <3>4. PICK i \in DOMAIN names : names[i] = k
      BY <2>9, <3>3
    <3>5. SplitKeysequence(s)[i] = TrimSpace(parts[k])
      BY <2>10, <3>4
    <3>6. QED
      BY <2>4, <3>2, <3>4, <3>5
  <2>13. QED
    BY <2>6, <2>8, <2>9, <2>10, <2>11, <2>12
<1>4. QED
  BY <1>2, <1>3

\* What a sequence resolves to, whatever the table is.
LEMMA ResolvedSequence ==
  ASSUME NEW W, NEW s \in Seq(W), NEW t
  PROVE  LET known == \A st \in Stretches(s) :
                        LookupKeysym(t, SubSeq(s, st[1], st[2])) # Unknown
         IN  Len(ResolveNames(t, s)) = IF known THEN Cardinality(Stretches(s)) ELSE 0
<1> DEFINE parts == SplitKeysequence(s)
           N == Cardinality(Stretches(s))
           syms == [i \in DOMAIN parts |-> LookupKeysym(t, parts[i])]
           known == \A st \in Stretches(s) :
                      LookupKeysym(t, SubSeq(s, st[1], st[2])) # Unknown
<1>1. /\ N \in Nat /\ DOMAIN parts = 1 .. N
      /\ \A i \in DOMAIN parts : \E st \in Stretches(s) :
           parts[i] = SubSeq(s, st[1], st[2])
      /\ \A st \in Stretches(s) : \E i \in DOMAIN parts :
           parts[i] = SubSeq(s, st[1], st[2])
  BY SequenceNames
<1>2. ResolveNames(t, s) = IF Contains(syms, Unknown) THEN <<>> ELSE syms
  BY DEF ResolveNames
<1> HIDE DEF N, parts
<1>3. Len(syms) = N /\ \A i \in 1 .. N : syms[i] = LookupKeysym(t, parts[i])
  BY <1>1
<1> HIDE DEF syms
<1>4. CASE known
  <2>1. ASSUME NEW i \in 1 .. N PROVE syms[i] # Unknown
    <3>1. PICK st \in Stretches(s) : parts[i] = SubSeq(s, st[1], st[2])
      BY <1>1
    <3>2. LookupKeysym(t, SubSeq(s, st[1], st[2])) # Unknown
      BY <1>4
    <3>3. syms[i] = LookupKeysym(t, parts[i])
      BY <1>3
    <3>4. QED
      BY <3>1, <3>2, <3>3
  <2>2. ~ Contains(syms, Unknown)
    BY <1>3, <2>1 DEF Contains
  <2>3. QED
    BY <1>2, <1>3, <1>4, <2>2 DEF N
<1>5. CASE ~ known
  <2>1. PICK st \in Stretches(s) : LookupKeysym(t, SubSeq(s, st[1], st[2])) = Unknown
    BY <1>5
  <2>2. PICK i \in DOMAIN parts : parts[i] = SubSeq(s, st[1], st[2])
    BY <1>1
  <2>3. i \in 1 .. N /\ syms[i] = Unknown
    BY <1>1, <1>3, <2>1, <2>2
  <2>4. Contains(syms, Unknown)
    BY <1>3, <2>3 DEF Contains
  <2>5. Len(ResolveNames(t, s)) = 0
    BY <1>2, <2>4
  <2>6. QED
    BY <1>5, <2>5
<1>6. QED
  BY <1>4, <1>5

\* A sequence resolves exactly if all its names are known, to a keysym for each.
THEOREM SequenceTheorem == KeysymsSpec => []SequenceKeepsEveryName
<1>1. ASSUME GenInv, asked # <<>> PROVE SequenceKeepsEveryName
  <2>1. asked \in Seq(STRING) /\ answer = ResolveNames(table, asked)
    BY <1>1, InputsAssumption DEF GenInv
  <2>2. LET known == \A st \in Stretches(asked) :
                       LookupKeysym(table, SubSeq(asked, st[1], st[2])) # Unknown
        IN  Len(ResolveNames(table, asked)) =
              IF known THEN Cardinality(Stretches(asked)) ELSE 0
    BY <2>1, ResolvedSequence, Zenon
  <2>3. QED
    BY <2>1, <2>2, Zenon DEF SequenceKeepsEveryName
<1>2. GenInv => SequenceKeepsEveryName
  BY <1>1 DEF SequenceKeepsEveryName
<1>3. QED
  BY <1>2, GeneratorInvariant, PTL
=============================================================================

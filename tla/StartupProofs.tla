---------------------------- MODULE StartupProofs ----------------------------
(***************************************************************************)
(* Proofs about Startup and the modules it is made of: the configuration   *)
(* parser, the capabilities of a device, the sender and a torn file.       *)
(***************************************************************************)
EXTENDS Startup, Lemmas

\* The tokens of a file: strings, and those that the modules name, which the
\* provers do not know to be strings.
Words ==
  STRING \cup {Blank, "key", "56", "sym", "Alt_L", "retry", "10s", "device",
               "by-id/*", "cut"}

Text == Seq(Seq(Words))

Symbols == [type : Seq(Words), val : Seq(Words)]
Configs == [key : Nat, sym : Symbols, retry : Int, devices : Seq(Nodes)]

Disks == [state : {"file", "missing", "denied"}, lines : Text, torn : BOOLEAN]

\* Types of what the parser reads and of what it makes of it.
ParserTypeOK ==
  /\ nodes \subseteq Nodes
  /\ text \in Text
  /\ num \in 0 .. Len(text)
  /\ c \in Configs

\* Types of the file and of the service.
ServiceTypeOK ==
  /\ disk \in Disks
  /\ torn \in BOOLEAN
  /\ spc \in {"down", "parse", "start"}

\* The service forgets everything when it ends, and starts one listener for
\* each entry of Devices.
PhaseInv ==
  /\ spc = "down" => text = <<>> /\ num = 0 /\ c = ZeroConfig /\ ~torn
  /\ spc # "start" => lst = <<>>
  /\ spc = "start" => DOMAIN lst = DOMAIN c.devices

StartupTypeOK == ParserTypeOK /\ ServiceTypeOK /\ PhaseInv

\* A symbol that has been set is not the zero one.
SymIsSet == LinesWith("sym") # {} => c.sym # ZeroConfig.sym

\* A node that is missing has been missing since the parse began.
MissingIsFlapped == spc = "parse" => Nodes \ nodes \subseteq flapped

\* What a torn file looks like, on the disk and in the parser, and what devices
\* it can have named.
TornIsTruncated ==
  /\ disk.torn => disk.lines \in Truncations
  /\ torn => text \in Truncations /\ Range(c.devices) \cap DOMAIN Caps = {}

----------------------------------------------------------------------------
(* Globs *)

\* The result of a glob has the matching nodes and no others.
LEMMA GlobListsAll ==
  ASSUME NEW set \in SUBSET Nodes
  PROVE  Ascending(set) \in Seq(Nodes) /\ Range(Ascending(set)) = set
<1>1. set \in SUBSET Nat /\ IsFiniteSet(set)
  BY ConfigAssumption, FS_Subset
<1>2. Ascending(set) \in Seq(set) /\ Range(Ascending(set)) = set
  BY <1>1, AscendingListsAll
<1>3. QED
  BY <1>2, SeqMonotonic

----------------------------------------------------------------------------
(* One line *)

\* The parts of a line, none of which ends in a blank except the directive.
LEMMA LineTypes ==
  ASSUME text \in Text, NEW i \in 1 .. Len(text)
  PROVE  /\ Line(i) \in Seq(Words) /\ SolidEnd(Line(i))
         /\ Directive(i) \in Seq(Words)
         /\ Argument(i) \in Seq(Words) /\ SolidEnd(Argument(i))
<1>1. text[i] \in Seq(Words)
  BY DEF Text
<1>2. Line(i) \in Seq(Words) /\ SolidEnd(Line(i))
  BY <1>1, TrimSpaceIsSolid DEF Line
<1>3. QED
  BY <1>2, CutParts DEF Directive, Argument

\* A comment has no directive.
LEMMA CommentIsNoDirective ==
  ASSUME text \in Text, NEW i \in 1 .. Len(text), Comment(i), NEW d, d # "#"
  PROVE  Directive(i) # <<d>>
<1> DEFINE line == Line(i)
           directive == Directive(i)
<1>1. line \in Seq(Words) /\ SolidEnd(line)
  BY LineTypes
<1>2. CASE line = <<>>
  <2>1. directive = <<>>
    BY <1>1, <1>2, CutParts DEF Directive
  <2>2. Len(<<d>>) = 1 /\ Len(<<>>) = 0
    OBVIOUS
  <2>3. QED
    BY <2>1, <2>2
<1>3. CASE IsPrefix(<<"#">>, line)
  <2>1. Len(<<"#">>) <= Len(line) /\ SubSeq(<<"#">>, 1, 1) = SubSeq(line, 1, 1)
    BY <1>3 DEF IsPrefix
  <2>2. Len(line) >= 1 /\ line # <<>>
    BY <1>1, <2>1
  <2>3. line[1] = "#"
    BY <1>1, <2>1, <2>2
  <2>4. "#" # Blank
    BY DEF Blank
  <2>5. line[1] # Blank
    BY <2>3, <2>4
  <2>6. directive # <<>> /\ directive[1] = line[1]
    BY <1>1, <2>2, <2>5, CutParts DEF Directive
  <2>7. QED
    BY <2>3, <2>6
<1>4. QED
  BY <1>2, <1>3 DEF Comment

\* What is left of a symbol's argument is a symbol, and not the zero one.
LEMMA SymOfIsSet ==
  ASSUME NEW arg \in Seq(Words), SolidEnd(arg)
  PROVE  SymOf(arg) \in Symbols /\ SymOf(arg) # ZeroConfig.sym
<1>1. CASE Cut(arg).found
  <2>1. SymOf(arg) = [type |-> Cut(arg).before, val |-> Cut(arg).after]
    BY <1>1 DEF SymOf
  <2>2. Cut(arg).after # <<>> /\ Cut(arg).before \in Seq(Words) /\ Cut(arg).after \in Seq(Words)
    BY <1>1, CutParts
  <2>3. QED
    BY <2>1, <2>2 DEF Symbols, ZeroConfig
<1>2. CASE ~ Cut(arg).found
  <2>1. SymOf(arg) = [type |-> <<"key">>, val |-> arg]
    BY <1>2 DEF SymOf
  <2>2. "key" \in Words
    BY DEF Words
  <2>3. <<"key">> # <<>>
    OBVIOUS
  <2>4. SymOf(arg).type = <<"key">> /\ ZeroConfig.sym.type = <<>>
    BY <2>1 DEF ZeroConfig
  <2>5. SymOf(arg) # ZeroConfig.sym
    BY <2>3, <2>4
  <2>6. QED
    BY <2>1, <2>2, <2>5 DEF Symbols
<1>3. QED
  BY <1>1, <1>2

\* What a line of a file does to the Config: a directive sets its field, which
\* must be zero before, and leaves the others alone.
Reads(i) ==
  /\ IF Directive(i) = <<"key">>
       THEN c.key = 0 /\ Argument(i) \in DOMAIN Uints /\ c'.key = Uints[Argument(i)]
       ELSE c'.key = c.key
  /\ IF Directive(i) = <<"sym">>
       THEN c.sym = ZeroConfig.sym /\ c'.sym = SymOf(Argument(i))
       ELSE c'.sym = c.sym
  /\ IF Directive(i) = <<"retry">>
       THEN c.retry = 0 /\ Argument(i) \in DOMAIN Durations
              /\ c'.retry = Durations[Argument(i)]
       ELSE c'.retry = c.retry
  /\ IF Directive(i) = <<"device">>
       THEN Argument(i) \in DOMAIN Globs /\ c'.devices = Listing(Argument(i))
       ELSE c'.devices = c.devices

LEMMA ReadLineReads ==
  ASSUME ParserTypeOK, ReadLine
  PROVE  num + 1 \in 1 .. Len(text) /\ Reads(num + 1) /\ c' \in Configs
<1> DEFINE i == num + 1
           arg == Argument(i)
<1>1. i \in 1 .. Len(text) /\ text \in Text
  BY DEF ParserTypeOK, ReadLine, Text
<1>2. arg \in Seq(Words) /\ SolidEnd(arg)
  BY <1>1, LineTypes
<1>3. c \in Configs
  BY DEF ParserTypeOK
<1> SUFFICES Reads(i) /\ c' \in Configs
  BY <1>1
<1>4. \/ Comment(i) /\ UNCHANGED c
      \/ SetsKey(i) /\ c' = [c EXCEPT !.key = Uints[arg]]
      \/ SetsSym(i) /\ c' = [c EXCEPT !.sym = SymOf(arg)]
      \/ SetsRetry(i) /\ c' = [c EXCEPT !.retry = Durations[arg]]
      \/ AddsDevices(i) /\ c' = [c EXCEPT !.devices = Listing(arg)]
  BY DEF ReadLine
<1> HIDE DEF i, arg
<1>5. CASE Comment(i) /\ UNCHANGED c
  <2>1. /\ Directive(i) # <<"key">> /\ Directive(i) # <<"sym">>
        /\ Directive(i) # <<"retry">> /\ Directive(i) # <<"device">>
    BY <1>1, <1>5, CommentIsNoDirective
  <2>2. QED
    BY <1>3, <1>5, <2>1 DEF Reads
<1>6. CASE SetsKey(i) /\ c' = [c EXCEPT !.key = Uints[arg]]
  <2>1. Directive(i) = <<"key">> /\ c.key = 0 /\ arg \in DOMAIN Uints
    BY <1>6 DEF SetsKey, arg
  <2>2. Uints[arg] \in Nat
    BY <2>1, ConfigAssumption
  <2>3. QED
    BY <1>3, <1>6, <2>1, <2>2 DEF Reads, Configs, arg
<1>7. CASE SetsSym(i) /\ c' = [c EXCEPT !.sym = SymOf(arg)]
  <2>1. Directive(i) = <<"sym">> /\ c.sym = ZeroConfig.sym
    BY <1>7 DEF SetsSym
  <2>2. SymOf(arg) \in Symbols
    BY <1>2, SymOfIsSet
  <2>3. QED
    BY <1>3, <1>7, <2>1, <2>2 DEF Reads, Configs, arg
<1>8. CASE SetsRetry(i) /\ c' = [c EXCEPT !.retry = Durations[arg]]
  <2>1. Directive(i) = <<"retry">> /\ c.retry = 0 /\ arg \in DOMAIN Durations
    BY <1>8 DEF SetsRetry, arg
  <2>2. Durations[arg] \in Int
    BY <2>1, ConfigAssumption
  <2>3. QED
    BY <1>3, <1>8, <2>1, <2>2 DEF Reads, Configs, arg
<1>9. CASE AddsDevices(i) /\ c' = [c EXCEPT !.devices = Listing(arg)]
  <2>1. Directive(i) = <<"device">> /\ arg \in DOMAIN Globs
    BY <1>9 DEF AddsDevices, arg
  <2>2. Ascending(Globs[arg] \cap nodes) \in Seq(Nodes)
    BY <2>1, GlobListsAll, ConfigAssumption
  <2>3. c.devices \in Seq(Nodes)
    BY <1>3 DEF Configs
  <2>4. Listing(arg) \in Seq(Nodes)
    BY <2>2, <2>3 DEF Listing
  <2>5. QED
    BY <1>3, <1>9, <2>1, <2>4 DEF Reads, Configs, arg
<1>10. QED
  BY <1>4, <1>5, <1>6, <1>7, <1>8, <1>9

----------------------------------------------------------------------------
(* What the lines read so far have set *)

\* The parts of SetTwiceOnlyAfterZero.
KeysLast ==
  \A i \in LinesWith("key") :
    Uints[Argument(i)] = IF i = Max(LinesWith("key")) THEN c.key ELSE 0
RetriesLast ==
  \A i \in LinesWith("retry") :
    Durations[Argument(i)] = IF i = Max(LinesWith("retry")) THEN c.retry ELSE 0
SymOnce == \A i, j \in LinesWith("sym") : i = j

\* A line more adds itself to the lines with its directive.
LEMMA LinesGrow ==
  ASSUME ParserTypeOK, ReadLine, NEW d
  PROVE  /\ num \in Nat /\ num' = num + 1
         /\ LinesWith(d) \subseteq 1 .. num
         /\ LinesWith(d)' = IF Directive(num + 1) = <<d>>
                              THEN LinesWith(d) \cup {num + 1} ELSE LinesWith(d)
         /\ \A i : Argument(i)' = Argument(i)
<1>1. text' = text /\ num' = num + 1
  BY DEF ReadLine
<1>2. num \in Nat
  BY DEF ParserTypeOK, Text
<1>3. \A i : Directive(i)' = Directive(i) /\ Argument(i)' = Argument(i)
  BY <1>1 DEF Directive, Argument, Line
<1>4. LinesWith(d)' = {i \in 1 .. num + 1 : Directive(i) = <<d>>}
  BY <1>1, <1>3 DEF LinesWith
<1>5. 1 .. num + 1 = (1 .. num) \cup {num + 1}
  BY <1>2
<1>6. QED
  BY <1>1, <1>2, <1>3, <1>4, <1>5 DEF LinesWith

\* A value that replaces zero is the last one, and those before it are zero.
LEMMA LastAfterZeros ==
  ASSUME NEW n \in Nat, NEW lines \in SUBSET (1 .. n), NEW value, NEW last,
         \A i \in lines : value[i] = 0,
         value[n + 1] = last
  PROVE  \A i \in lines \cup {n + 1} :
           value[i] = IF i = Max(lines \cup {n + 1}) THEN last ELSE 0
<1> DEFINE more == lines \cup {n + 1}
<1>1. more \subseteq 1 .. n + 1 /\ more # {} /\ n + 1 \in Nat
  OBVIOUS
<1>2. Max(more) \in more /\ \A y \in more : y <= Max(more)
  BY <1>1, MaxOfSet
<1>3. Max(more) = n + 1
  <2>1. n + 1 \in more
    OBVIOUS
  <2> HIDE DEF more
  <2>2. n + 1 <= Max(more) /\ Max(more) \in 1 .. n + 1
    BY <1>1, <1>2, <2>1
  <2>3. QED
    BY <2>2
<1>4. \A i \in lines : value[i] = 0 /\ i # n + 1
  OBVIOUS
<1>5. QED
  BY <1>3, <1>4

LEMMA KeysLastNext ==
  ASSUME ParserTypeOK, ReadLine, Reads(num + 1), KeysLast
  PROVE  KeysLast'
<1> DEFINE lines == LinesWith("key")
           value == [i \in 1 .. num + 1 |-> Uints[Argument(i)]]
<1>1. /\ num \in Nat /\ num' = num + 1 /\ lines \subseteq 1 .. num
      /\ lines' = IF Directive(num + 1) = <<"key">> THEN lines \cup {num + 1} ELSE lines
      /\ \A i : Argument(i)' = Argument(i)
  BY LinesGrow
<1>2. CASE Directive(num + 1) = <<"key">>
  <2>1. c.key = 0 /\ c'.key = Uints[Argument(num + 1)]
    BY <1>2 DEF Reads
  <2>2. \A i \in lines : value[i] = 0
    BY <1>1, <2>1 DEF KeysLast
  <2>3. value[num + 1] = c'.key
    BY <1>1, <2>1
  <2> HIDE DEF lines, value
  <2>4. \A i \in lines \cup {num + 1} :
          value[i] = IF i = Max(lines \cup {num + 1}) THEN c'.key ELSE 0
    BY <1>1, <2>2, <2>3, LastAfterZeros
  <2>5. \A i \in lines' : value[i] = IF i = Max(lines') THEN c'.key ELSE 0
    BY <1>1, <1>2, <2>4
  <2>6. \A i \in lines' : value[i] = Uints[Argument(i)']
    BY <1>1, <1>2 DEF value
  <2>7. QED
    BY <2>5, <2>6 DEF KeysLast, lines
<1>3. CASE Directive(num + 1) # <<"key">>
  BY <1>1, <1>3 DEF KeysLast, Reads
<1>4. QED
  BY <1>2, <1>3

LEMMA RetriesLastNext ==
  ASSUME ParserTypeOK, ReadLine, Reads(num + 1), RetriesLast
  PROVE  RetriesLast'
<1> DEFINE lines == LinesWith("retry")
           value == [i \in 1 .. num + 1 |-> Durations[Argument(i)]]
<1>1. /\ num \in Nat /\ num' = num + 1 /\ lines \subseteq 1 .. num
      /\ lines' = IF Directive(num + 1) = <<"retry">> THEN lines \cup {num + 1} ELSE lines
      /\ \A i : Argument(i)' = Argument(i)
  BY LinesGrow
<1>2. CASE Directive(num + 1) = <<"retry">>
  <2>1. c.retry = 0 /\ c'.retry = Durations[Argument(num + 1)]
    BY <1>2 DEF Reads
  <2>2. \A i \in lines : value[i] = 0
    BY <1>1, <2>1 DEF RetriesLast
  <2>3. value[num + 1] = c'.retry
    BY <1>1, <2>1
  <2> HIDE DEF lines, value
  <2>4. \A i \in lines \cup {num + 1} :
          value[i] = IF i = Max(lines \cup {num + 1}) THEN c'.retry ELSE 0
    BY <1>1, <2>2, <2>3, LastAfterZeros
  <2>5. \A i \in lines' : value[i] = IF i = Max(lines') THEN c'.retry ELSE 0
    BY <1>1, <1>2, <2>4
  <2>6. \A i \in lines' : value[i] = Durations[Argument(i)']
    BY <1>1, <1>2 DEF value
  <2>7. QED
    BY <2>5, <2>6 DEF RetriesLast, lines
<1>3. CASE Directive(num + 1) # <<"retry">>
  BY <1>1, <1>3 DEF RetriesLast, Reads
<1>4. QED
  BY <1>2, <1>3

LEMMA SymOnceNext ==
  ASSUME ParserTypeOK, ReadLine, Reads(num + 1), SymOnce, SymIsSet
  PROVE  SymOnce' /\ SymIsSet'
<1> DEFINE lines == LinesWith("sym")
<1>1. /\ num \in Nat /\ lines \subseteq 1 .. num
      /\ lines' = IF Directive(num + 1) = <<"sym">> THEN lines \cup {num + 1} ELSE lines
  BY LinesGrow
<1>2. CASE Directive(num + 1) = <<"sym">>
  <2>1. c.sym = ZeroConfig.sym /\ c'.sym = SymOf(Argument(num + 1))
    BY <1>2 DEF Reads
  <2>2. num + 1 \in 1 .. Len(text) /\ text \in Text
    BY DEF ParserTypeOK, ReadLine, Text
  <2>3. Argument(num + 1) \in Seq(Words) /\ SolidEnd(Argument(num + 1))
    BY <2>2, LineTypes
  <2>4. c'.sym # ZeroConfig.sym
    BY <2>1, <2>3, SymOfIsSet
  <2>5. ZeroConfig' = ZeroConfig
    BY DEF ZeroConfig
  <2>6. lines' = {num + 1}
    BY <1>1, <1>2, <2>1 DEF SymIsSet
  <2>7. QED
    BY <2>4, <2>5, <2>6 DEF SymOnce, SymIsSet
<1>3. CASE Directive(num + 1) # <<"sym">>
  <2>1. ZeroConfig' = ZeroConfig
    BY DEF ZeroConfig
  <2>2. QED
    BY <1>1, <1>3, <2>1 DEF SymOnce, SymIsSet, Reads
<1>4. QED
  BY <1>2, <1>3

LEMMA MatchesAreListedNext ==
  ASSUME ParserTypeOK, ReadLine, Reads(num + 1), MatchesAreListed,
         Nodes \ nodes \subseteq flapped
  PROVE  MatchesAreListed'
<1> DEFINE lines == LinesWith("device")
           matched == UNION {Globs[Argument(i)] : i \in lines}
           new == Globs[Argument(num + 1)]
<1>1. /\ num \in Nat /\ lines \subseteq 1 .. num
      /\ lines' = IF Directive(num + 1) = <<"device">> THEN lines \cup {num + 1} ELSE lines
      /\ \A i : Argument(i)' = Argument(i)
  BY LinesGrow
<1>2. flapped' = flapped
  BY DEF ReadLine
<1>3. matched \ flapped \subseteq Range(c.devices) /\ Range(c.devices) \subseteq matched
  BY DEF MatchesAreListed
<1>4. CASE Directive(num + 1) = <<"device">>
  <2>1. new \subseteq Nodes /\ c'.devices = c.devices \o Ascending(new \cap nodes)
    BY <1>4, ConfigAssumption DEF Reads, Listing
  <2>2. Ascending(new \cap nodes) \in Seq(Nodes)
        /\ Range(Ascending(new \cap nodes)) = new \cap nodes
    BY <2>1, GlobListsAll
  <2>3. c.devices \in Seq(Nodes)
    BY DEF ParserTypeOK, Configs
  <2>4. Range(c'.devices) = Range(c.devices) \cup (new \cap nodes)
    <3>1. Range(c.devices \o Ascending(new \cap nodes))
            = Range(c.devices) \cup Range(Ascending(new \cap nodes))
      BY <2>2, <2>3, RangeConcatenation
    <3>2. QED
      BY <2>1, <2>2, <3>1
  <2>5. matched' = matched \cup new
    BY <1>1, <1>4
  <2>6. new \ flapped \subseteq new \cap nodes
    BY <2>1
  <2> HIDE DEF matched, new
  <2>7. matched' \ flapped' \subseteq Range(c'.devices) /\ Range(c'.devices) \subseteq matched'
    BY <1>2, <1>3, <2>4, <2>5, <2>6
  <2>8. QED
    BY <2>7 DEF MatchesAreListed, matched
<1>5. CASE Directive(num + 1) # <<"device">>
  <2>1. c'.devices = c.devices
    BY <1>5 DEF Reads
  <2>2. matched' = matched
    BY <1>1, <1>5
  <2> HIDE DEF matched
  <2>3. matched' \ flapped' \subseteq Range(c'.devices) /\ Range(c'.devices) \subseteq matched'
    BY <1>2, <1>3, <2>1, <2>2
  <2>4. QED
    BY <2>3 DEF MatchesAreListed, matched
<1>6. QED
  BY <1>4, <1>5

----------------------------------------------------------------------------
(* Torn files *)

\* A directive with one word as its argument.
LEMMA LineOfTwoWords ==
  ASSUME text \in Text, NEW i \in 1 .. Len(text),
         NEW a \in Words \ {Blank}, NEW w \in Words \ {Blank}, text[i] = <<a, Blank, w>>
  PROVE  Directive(i) = <<a>> /\ Argument(i) = <<w>>
<1> DEFINE s == <<a, Blank, w>>
<1>1. s \in Seq(Words) /\ Len(s) = 3 /\ s[1] = a /\ s[2] = Blank /\ s[3] = w
  BY DEF Words
<1> HIDE DEF s
<1>2. Line(i) = s
  <2>1. TrimSpace(s) = s
    BY <1>1, SolidIsTrimmed
  <2>2. QED
    BY <2>1 DEF Line, s
<1>3. \A j \in 1 .. 2 - 1 : s[j] # Blank
  BY <1>1
<1>4. /\ Cut(s).before = SubSeq(s, 1, 1) /\ Cut(s).after = SubSeq(s, 3, 3)
      /\ SubSeq(s, 1, 1) \in Seq(Words) /\ Len(SubSeq(s, 1, 1)) = 1
      /\ SubSeq(s, 1, 1)[1] = a
      /\ SubSeq(s, 3, 3) \in Seq(Words) /\ Len(SubSeq(s, 3, 3)) = 1
      /\ SubSeq(s, 3, 3)[1] = w
  <2>1. /\ Cut(s) = [before |-> SubSeq(s, 1, 2 - 1),
                     after |-> SubSeq(s, 2 + 1, Len(s)), found |-> TRUE]
        /\ SubSeq(s, 1, 2 - 1) \in Seq(Words)
        /\ Len(SubSeq(s, 1, 2 - 1)) = 2 - 1
        /\ \A j \in 1 .. 2 - 1 : SubSeq(s, 1, 2 - 1)[j] = s[j]
        /\ SubSeq(s, 2 + 1, Len(s)) \in Seq(Words)
        /\ Len(SubSeq(s, 2 + 1, Len(s))) = Len(s) - 2
        /\ \A j \in 1 .. Len(s) - 2 : SubSeq(s, 2 + 1, Len(s))[j] = s[2 + j]
    <3>1. 2 \in 1 .. Len(s) /\ s[2] = Blank
      BY <1>1
    <3>2. QED
      BY <1>1, <1>3, <3>1, CutAtBlank
  <2>2. 2 - 1 = 1 /\ 2 + 1 = 3 /\ Len(s) = 3 /\ 3 - 2 = 1
    BY <1>1
  <2>3. QED
    BY <1>1, <2>1, <2>2
<1>5. SubSeq(s, 1, 1) = <<a>> /\ SubSeq(s, 3, 3) = <<w>>
  <2>1. ASSUME NEW t \in Seq(Words), NEW x \in Words, Len(t) = 1, t[1] = x
        PROVE  t = <<x>>
    BY <2>1
  <2>2. QED
    BY <1>4, <2>1
<1>7. QED
  BY <1>2, <1>4, <1>5 DEF Directive, Argument

\* A line of one word has no argument.
LEMMA LineOfOneWord ==
  ASSUME text \in Text, NEW i \in 1 .. Len(text),
         NEW a \in Words \ {Blank}, text[i] = <<a>>
  PROVE  Directive(i) = <<a>> /\ Argument(i) = <<>>
<1> DEFINE s == <<a>>
<1>1. s \in Seq(Words) /\ Len(s) = 1 /\ s[1] = a
  OBVIOUS
<1> HIDE DEF s
<1>2. Line(i) = s
  <2>1. TrimSpace(s) = s
    BY <1>1, SolidIsTrimmed
  <2>2. QED
    BY <2>1 DEF Line, s
<1>3. Cut(s) = [before |-> s, after |-> <<>>, found |-> FALSE]
  <2>1. \A j \in 1 .. Len(s) : s[j] # Blank
    BY <1>1
  <2>2. QED
    BY <1>1, <2>1, CutWithoutBlank
<1>4. QED
  BY <1>2, <1>3 DEF Directive, Argument, s

\* The lines of a torn file: those of the default file but the last, and what
\* is left of one of them.
TornLine(l) ==
  \/ \E a \in {"key", "sym", "retry"}, w \in Words \ {Blank} : l = <<a, Blank, w>>
  \/ \E a \in {"cut", "key", "sym", "retry", "device"} : l = <<a>>
  \/ \E w \in Shorter["by-id/*"] : l = <<"device", Blank, w>>

\* The words of the default file are not blanks.
LEMMA WordsAreSolid ==
  /\ {"key", "56", "sym", "Alt_L", "retry", "10s", "device", "by-id/*", "cut"}
       \subseteq Words \ {Blank}
  /\ \A w \in {"56", "Alt_L", "10s", "by-id/*"} : Shorter[w] \subseteq Words \ {Blank}
<1>1. /\ "key" # Blank /\ "56" # Blank /\ "sym" # Blank /\ "Alt_L" # Blank
      /\ "retry" # Blank /\ "10s" # Blank /\ "device" # Blank /\ "by-id/*" # Blank
      /\ "cut" # Blank
  BY Zenon DEF Blank
<1>2. \A w \in {"56", "Alt_L", "10s", "by-id/*"} : Shorter[w] \subseteq Words \ {Blank}
  BY StartupAssumption DEF Words
<1>3. QED
  BY <1>1, <1>2 DEF Words

LEMMA DefaultFileLines ==
  /\ DefaultFile \in Text /\ Len(DefaultFile) = 4
  /\ DefaultFile[1] = <<"key", Blank, "56">>
  /\ DefaultFile[2] = <<"sym", Blank, "Alt_L">>
  /\ DefaultFile[3] = <<"retry", Blank, "10s">>
  /\ DefaultFile[4] = <<"device", Blank, "by-id/*">>
<1>1. Blank \in Words
  BY DEF Words
<1>2. /\ <<"key", Blank, "56">> \in Seq(Words)
      /\ <<"sym", Blank, "Alt_L">> \in Seq(Words)
      /\ <<"retry", Blank, "10s">> \in Seq(Words)
      /\ <<"device", Blank, "by-id/*">> \in Seq(Words)
  BY <1>1, WordsAreSolid
<1>3. QED
  BY <1>2 DEF DefaultFile, Text

\* What is left of a line of the default file.
LEMMA CutsAreTorn ==
  ASSUME NEW k \in 1 .. 4, NEW l \in Cuts(DefaultFile[k])
  PROVE  l \in Seq(Words) /\ TornLine(l)
<1>1. Blank \in Words
  BY DEF Words
<1>2. PICK a \in {"key", "sym", "retry", "device"}, v \in {"56", "Alt_L", "10s", "by-id/*"} :
        /\ DefaultFile[k] = <<a, Blank, v>>
        /\ a = "device" => v = "by-id/*"
  BY DefaultFileLines
<1>3. l = <<"cut">> \/ l = <<a>> \/ \E w \in Shorter[v] : l = <<a, Blank, w>>
  BY <1>2 DEF Cuts
<1>4. CASE l = <<"cut">>
  BY <1>4, WordsAreSolid DEF TornLine
<1>5. CASE l = <<a>>
  BY <1>5, WordsAreSolid DEF TornLine
<1>6. CASE \E w \in Shorter[v] : l = <<a, Blank, w>>
  <2>1. PICK w \in Shorter[v] : l = <<a, Blank, w>>
    BY <1>6
  <2>2. w \in Words \ {Blank} /\ a \in Words
    BY WordsAreSolid
  <2>3. l \in Seq(Words)
    BY <1>1, <2>1, <2>2
  <2>4. TornLine(l)
    BY <1>2, <2>1, <2>2 DEF TornLine
  <2>5. QED
    BY <2>3, <2>4
<1>7. QED
  BY <1>3, <1>4, <1>5, <1>6

LEMMA TruncationsAreTorn ==
  ASSUME NEW lines \in Truncations
  PROVE  lines \in Text /\ \A i \in 1 .. Len(lines) : TornLine(lines[i])
<1>1. ASSUME NEW k \in 0 .. 3
      PROVE  /\ SubSeq(DefaultFile, 1, k) \in Text
             /\ Len(SubSeq(DefaultFile, 1, k)) = k
             /\ \A i \in 1 .. k : TornLine(SubSeq(DefaultFile, 1, k)[i])
  <2>1. \A i \in 1 .. k : DefaultFile[i] \in Seq(Words)
    <3>1. \A i \in 1 .. Len(DefaultFile) : DefaultFile[i] \in Seq(Words)
      BY DefaultFileLines, ElementOfSeq DEF Text
    <3>2. Len(DefaultFile) = 4
      BY DefaultFileLines
    <3>3. QED
      BY <3>1, <3>2
  <2>2. /\ SubSeq(DefaultFile, 1, k) \in Text
        /\ Len(SubSeq(DefaultFile, 1, k)) = IF 1 <= k THEN k - 1 + 1 ELSE 0
        /\ \A i \in 1 .. k - 1 + 1 : SubSeq(DefaultFile, 1, k)[i] = DefaultFile[1 + i - 1]
    BY <2>1, SubSeqProperties DEF Text
  <2>3. \A i \in 1 .. k : SubSeq(DefaultFile, 1, k)[i] = DefaultFile[i]
    BY <2>2
  <2>4. \A i \in 1 .. 3 : TornLine(DefaultFile[i])
    <3>1. SUFFICES ASSUME NEW i \in 1 .. 3
                   PROVE \E a \in {"key", "sym", "retry"}, w \in Words \ {Blank} :
                           DefaultFile[i] = <<a, Blank, w>>
      BY DEF TornLine
    <3>2. QED
      BY DefaultFileLines, WordsAreSolid
  <2>5. QED
    BY <2>2, <2>3, <2>4
<1>2. CASE \E k \in 0 .. 3 : lines = SubSeq(DefaultFile, 1, k)
  BY <1>1, <1>2
<1>3. CASE \E k \in 1 .. 4 : \E l \in Cuts(DefaultFile[k]) :
             lines = Append(SubSeq(DefaultFile, 1, k - 1), l)
  <2>1. PICK k \in 1 .. 4 : \E l \in Cuts(DefaultFile[k]) :
             lines = Append(SubSeq(DefaultFile, 1, k - 1), l)
    BY <1>3
  <2>2. PICK l \in Cuts(DefaultFile[k]) : lines = Append(SubSeq(DefaultFile, 1, k - 1), l)
    BY <2>1
  <2>3. l \in Seq(Words) /\ TornLine(l)
    BY CutsAreTorn
  <2>4. k - 1 \in 0 .. 3
    OBVIOUS
  <2> DEFINE whole == SubSeq(DefaultFile, 1, k - 1)
  <2>5. /\ whole \in Text /\ Len(whole) = k - 1
        /\ \A i \in 1 .. k - 1 : TornLine(whole[i])
    BY <1>1, <2>4
  <2> HIDE DEF whole
  <2>6. lines = Append(whole, l)
    BY <2>2 DEF whole
  <2>7. /\ lines \in Text /\ Len(lines) = k
        /\ \A i \in 1 .. k - 1 : lines[i] = whole[i]
        /\ lines[k] = l
    BY <2>3, <2>5, <2>6 DEF Text
  <2>8. ASSUME NEW i \in 1 .. Len(lines) PROVE TornLine(lines[i])
    <3>1. i \in 1 .. k - 1 \/ i = k
      BY <2>7
    <3>2. CASE i = k
      BY <2>3, <2>7, <3>2
    <3>3. CASE i \in 1 .. k - 1
      BY <2>5, <2>7, <3>3
    <3>4. QED
      BY <3>1, <3>2, <3>3
  <2>9. QED
    BY <2>7, <2>8
<1>4. QED
  <2>1. DOMAIN DefaultFile = 1 .. 4 /\ Len(DefaultFile) - 1 = 3
    BY DefaultFileLines DEF Text
  <2>2. QED
    BY <1>2, <1>3, <2>1 DEF Truncations

\* No line of a torn file names an input device.
LEMMA TornNamesNoDevice ==
  ASSUME text \in Truncations, NEW i \in 1 .. Len(text),
         Directive(i) = <<"device">>, Argument(i) \in DOMAIN Globs
  PROVE  Globs[Argument(i)] \cap DOMAIN Caps = {}
<1>1. text \in Text /\ TornLine(text[i])
  BY TruncationsAreTorn
<1>2. ASSUME NEW a \in {"key", "sym", "retry"}, NEW w \in Words \ {Blank},
             text[i] = <<a, Blank, w>>
      PROVE  FALSE
  <2>1. Directive(i) = <<a>>
    BY <1>1, <1>2, LineOfTwoWords, WordsAreSolid
  <2>2. QED
    BY <2>1
<1>3. ASSUME NEW a \in {"cut", "key", "sym", "retry", "device"}, text[i] = <<a>>
      PROVE  Argument(i) = <<>>
  BY <1>1, <1>3, LineOfOneWord, WordsAreSolid
<1>4. ASSUME NEW w \in Shorter["by-id/*"], text[i] = <<"device", Blank, w>>
      PROVE  Argument(i) = <<w>>
  BY <1>1, <1>4, LineOfTwoWords, WordsAreSolid
<1>5. Argument(i) \in {<<>>} \cup {<<w>> : w \in Shorter["by-id/*"]}
  BY <1>1, <1>2, <1>3, <1>4 DEF TornLine
<1>6. QED
  BY <1>5, StartupAssumption

----------------------------------------------------------------------------
(* The steps of the service *)

\* Every step is of one of these kinds: the file is written, the service ends,
\* begins to parse, reads a line, starts its listeners, hears of a listener, has
\* a sender, or a node comes or goes.
LEMMA StepKinds ==
  ASSUME StartupNext
  PROVE  \/ CreateFile \/ WriteFile
         \/ \E st : Ends(st)
         \/ spc = "down" /\ disk.state = "file" /\ Begins(disk.lines, disk.torn)
         \/ spc = "down" /\ Begins(DefaultFile, FALSE)
         \/ ParseLine \/ ParseDone
         \/ \E i \in DOMAIN lst : \E s :
              /\ spc = "start" /\ Becomes(i, s)
              /\ s = "listening" => c.devices[i] \in DOMAIN Caps
         \/ NewSender
         \/ \E n \in Nodes :
              /\ NodeLeaves(n) \/ NodeAppears(n)
              /\ UNCHANGED <<fileVars, serviceVars>>
<1>1. CASE Start
  BY <1>1 DEF Start
<1>2. CASE ParseFails \/ ReadFails \/ NoDevices \/ SenderFails \/ Stop
  BY <1>2 DEF ParseFails, ReadFails, NoDevices, SenderFails, Stop
<1>3. ASSUME NEW i \in DOMAIN lst, CheckDevice(i) \/ OpenFails(i) \/ OpenAgain(i)
      PROVE  \/ \E st : Ends(st)
             \/ \E s : /\ spc = "start" /\ Becomes(i, s)
                       /\ s = "listening" => c.devices[i] \in DOMAIN Caps
  <2>1. CASE CheckDevice(i)
    BY <2>1 DEF CheckDevice, Starting
  <2>2. CASE OpenFails(i)
    <3>1. spc = "start" /\ (Becomes(i, "ignored") \/ Becomes(i, "waiting"))
      BY <2>2 DEF OpenFails, Starting
    <3>2. "ignored" # "listening" /\ "waiting" # "listening"
      OBVIOUS
    <3>3. QED
      BY <3>1, <3>2
  <2>3. CASE OpenAgain(i)
    <3>1. spc = "start" /\ Becomes(i, "new")
      BY <2>3 DEF OpenAgain, Starting
    <3>2. "new" # "listening"
      OBVIOUS
    <3>3. QED
      BY <3>1, <3>2
  <2>4. QED
    BY <1>3, <2>1, <2>2, <2>3
<1>4. QED
  BY <1>1, <1>2, <1>3 DEF StartupNext

\* Users write strings.
LEMMA FilesAreText == Files \subseteq Text
<1>1. ASSUME NEW lines \in Files PROVE lines \in Text
  <2>1. lines \in Seq(Seq(STRING))
    BY StartupAssumption
  <2>2. \A l \in Seq(STRING) : l \in Seq(Words)
    BY SeqMonotonic DEF Words
  <2>3. Seq(STRING) \subseteq Seq(Words)
    BY <2>2
  <2>4. QED
    BY <2>1, <2>3, SeqMonotonic DEF Text
<1>2. QED
  BY <1>1

LEMMA DiskTypes ==
  /\ \A lines \in Text, b \in BOOLEAN : File(lines, b) \in Disks
  /\ \A why \in {"missing", "denied"} : NoFile(why) \in Disks
<1>1. <<>> \in Text
  BY DEF Text
<1>2. ASSUME NEW lines \in Text, NEW b \in BOOLEAN PROVE File(lines, b) \in Disks
  BY DEF File, Disks
<1>3. ASSUME NEW why \in {"missing", "denied"} PROVE NoFile(why) \in Disks
  BY <1>1 DEF NoFile, Disks
<1>4. QED
  BY <1>2, <1>3

LEMMA ZeroConfigType == ZeroConfig \in Configs /\ Range(ZeroConfig.devices) = {}
<1>1. <<>> \in Seq(Words) /\ <<>> \in Seq(Nodes) /\ 0 \in Nat /\ 0 \in Int
  OBVIOUS
<1>2. DOMAIN <<>> = {}
  OBVIOUS
<1>3. QED
  BY <1>1, <1>2 DEF ZeroConfig, Configs, Symbols, Range

LEMMA StartupTypeInit == StartupInit => StartupTypeOK
<1> SUFFICES ASSUME StartupInit PROVE StartupTypeOK
  OBVIOUS
<1>1. <<>> \in Text /\ Len(<<>>) = 0
  BY DEF Text
<1>2. ParserTypeOK
  BY <1>1, ZeroConfigType DEF StartupInit, ParserTypeOK
<1>3. disk \in Disks
  BY FilesAreText, DiskTypes DEF StartupInit
<1>4. ServiceTypeOK
  BY <1>3 DEF StartupInit, ServiceTypeOK
<1>5. PhaseInv
  BY DEF StartupInit, PhaseInv
<1>6. QED
  BY <1>2, <1>4, <1>5 DEF StartupTypeOK

LEMMA StartupTypeNext ==
  StartupTypeOK /\ [StartupNext]_startupVars => StartupTypeOK'
<1> SUFFICES ASSUME StartupTypeOK, [StartupNext]_startupVars PROVE StartupTypeOK'
  OBVIOUS
<1> USE DEF StartupTypeOK, fileVars, serviceVars, configVars
<1>1. <<>> \in Text /\ Len(<<>>) = 0
  BY DEF Text
<1>2. CASE UNCHANGED startupVars
  BY <1>2 DEF startupVars, ParserTypeOK, ServiceTypeOK, PhaseInv
<1>3. CASE CreateFile
  <2>1. disk' \in Disks
    BY <1>1, <1>3, DiskTypes DEF CreateFile
  <2>2. QED
    BY <1>3, <2>1 DEF CreateFile, ParserTypeOK, ServiceTypeOK, PhaseInv
<1>4. CASE WriteFile
  <2>1. DefaultFile \in Text /\ Truncations \subseteq Text
    BY DefaultFileLines, TruncationsAreTorn
  <2>2. disk' \in Disks
    BY <1>4, <2>1, DiskTypes DEF WriteFile
  <2>3. QED
    BY <1>4, <2>2 DEF WriteFile, ParserTypeOK, ServiceTypeOK, PhaseInv
<1>5. ASSUME NEW st, Ends(st) PROVE StartupTypeOK'
  <2>1. ZeroConfig' = ZeroConfig
    BY DEF ZeroConfig
  <2>2. ParserTypeOK'
    BY <1>1, <1>5, ZeroConfigType DEF Ends, ParserTypeOK
  <2>3. ServiceTypeOK'
    BY <1>5 DEF Ends, ServiceTypeOK
  <2>4. PhaseInv'
    BY <1>5, <2>1 DEF Ends, PhaseInv
  <2>5. QED
    BY <2>2, <2>3, <2>4
<1>6. ASSUME NEW lines \in Text, NEW isTorn \in BOOLEAN, spc = "down", Begins(lines, isTorn)
      PROVE  StartupTypeOK'
  <2>1. num' = 0 /\ Len(lines) \in Nat /\ text' = lines
    BY <1>6 DEF Begins, PhaseInv, Text
  <2>2. ParserTypeOK'
    BY <1>6, <2>1 DEF Begins, ParserTypeOK
  <2>3. QED
    BY <1>6, <2>2 DEF Begins, ServiceTypeOK, PhaseInv
<1>7. CASE ParseLine
  <2>1. ReadLine /\ spc = "parse" /\ UNCHANGED <<fileVars, serviceVars>>
    BY <1>7 DEF ParseLine
  <2>2. num + 1 \in 1 .. Len(text) /\ c' \in Configs
    BY <2>1, ReadLineReads
  <2>3. num' = num + 1 /\ text' = text /\ nodes' = nodes
    BY <2>1 DEF ReadLine
  <2>4. ParserTypeOK'
    BY <2>2, <2>3 DEF ParserTypeOK
  <2>5. QED
    BY <2>1, <2>4 DEF ServiceTypeOK, PhaseInv
<1>8. CASE ParseDone
  BY <1>8 DEF ParseDone, ParserTypeOK, ServiceTypeOK, PhaseInv
<1>9. ASSUME NEW i \in DOMAIN lst, NEW s, spc = "start", Becomes(i, s)
      PROVE  StartupTypeOK'
  BY <1>9 DEF Becomes, ParserTypeOK, ServiceTypeOK, PhaseInv
<1>10. CASE NewSender
  BY <1>10 DEF NewSender, ParserTypeOK, ServiceTypeOK, PhaseInv
<1>11. ASSUME NEW n \in Nodes, NodeLeaves(n) \/ NodeAppears(n),
              UNCHANGED <<fileVars, serviceVars>>
       PROVE  StartupTypeOK'
  BY <1>11 DEF NodeLeaves, NodeAppears, ParserTypeOK, ServiceTypeOK, PhaseInv
<1>12. disk.lines \in Text /\ disk.torn \in BOOLEAN
  BY DEF ServiceTypeOK, Disks
<1>13. DefaultFile \in Text
  BY DefaultFileLines
<1>14. QED
  BY <1>2, <1>3, <1>4, <1>5, <1>6, <1>7, <1>8, <1>9, <1>10, <1>11, <1>12, <1>13, StepKinds

----------------------------------------------------------------------------
(* The theorems about the parser *)

ParsedInv == SetTwiceOnlyAfterZero /\ SymIsSet /\ MatchesAreListed /\ MissingIsFlapped

LEMMA PartsOfSetTwice == SetTwiceOnlyAfterZero <=> KeysLast /\ RetriesLast /\ SymOnce
  BY DEF SetTwiceOnlyAfterZero, KeysLast, RetriesLast, SymOnce

\* Nothing has been read.
LEMMA ParsedOfNothing ==
  ASSUME num = 0, c = ZeroConfig
  PROVE  SetTwiceOnlyAfterZero /\ SymIsSet /\ MatchesAreListed
<1>1. ASSUME NEW d PROVE LinesWith(d) = {}
  BY DEF LinesWith
<1>2. Range(c.devices) = {}
  BY ZeroConfigType
<1>3. QED
  BY <1>1, <1>2 DEF SetTwiceOnlyAfterZero, SymIsSet, MatchesAreListed

\* What was read does not change while nothing is read.
LEMMA ParsedUnchanged ==
  ASSUME SetTwiceOnlyAfterZero, SymIsSet, MatchesAreListed,
         text' = text, num' = num, c' = c, flapped \subseteq flapped'
  PROVE  SetTwiceOnlyAfterZero' /\ SymIsSet' /\ MatchesAreListed'
<1>1. \A i : Directive(i)' = Directive(i) /\ Argument(i)' = Argument(i)
  BY DEF Directive, Argument, Line
<1>2. ASSUME NEW d PROVE LinesWith(d)' = LinesWith(d)
  BY <1>1 DEF LinesWith
<1>3. ZeroConfig' = ZeroConfig
  BY DEF ZeroConfig
<1>4. SetTwiceOnlyAfterZero'
  BY <1>1, <1>2 DEF SetTwiceOnlyAfterZero
<1>5. SymIsSet'
  BY <1>2, <1>3 DEF SymIsSet
<1> DEFINE matched == UNION {Globs[Argument(i)] : i \in LinesWith("device")}
<1>6. matched' = matched
  BY <1>1, <1>2
<1>7. matched \ flapped \subseteq Range(c.devices) /\ Range(c.devices) \subseteq matched
  BY DEF MatchesAreListed
<1> HIDE DEF matched
<1>8. matched' \ flapped' \subseteq Range(c'.devices) /\ Range(c'.devices) \subseteq matched'
  BY <1>6, <1>7
<1>9. MatchesAreListed'
  BY <1>8 DEF MatchesAreListed, matched
<1>10. QED
  BY <1>4, <1>5, <1>9

LEMMA ParsedInvNext ==
  StartupTypeOK /\ ParsedInv /\ [StartupNext]_startupVars => ParsedInv'
<1> SUFFICES ASSUME StartupTypeOK, ParsedInv, [StartupNext]_startupVars
             PROVE  ParsedInv'
  OBVIOUS
<1> USE DEF fileVars, serviceVars, configVars
<1>a. SetTwiceOnlyAfterZero /\ SymIsSet /\ MatchesAreListed /\ MissingIsFlapped
  BY DEF ParsedInv
<1>b. ASSUME text' = text, num' = num, c' = c, flapped \subseteq flapped', MissingIsFlapped'
      PROVE  ParsedInv'
  BY <1>a, <1>b, ParsedUnchanged DEF ParsedInv
<1>1. CASE UNCHANGED startupVars
  BY <1>1, <1>a, <1>b DEF startupVars, MissingIsFlapped
<1>2. CASE CreateFile \/ WriteFile
  BY <1>2, <1>a, <1>b DEF CreateFile, WriteFile, MissingIsFlapped
<1>3. ASSUME NEW st, Ends(st) PROVE ParsedInv'
  <2>1. num' = 0 /\ c' = ZeroConfig' /\ spc' = "down"
    BY <1>3 DEF Ends, ZeroConfig
  <2>2. (num = 0 /\ c = ZeroConfig => SetTwiceOnlyAfterZero /\ SymIsSet /\ MatchesAreListed)'
    BY ParsedOfNothing, PTL
  <2>3. MissingIsFlapped'
    BY <2>1 DEF MissingIsFlapped
  <2>4. QED
    BY <2>1, <2>2, <2>3 DEF ParsedInv
<1>4. ASSUME NEW lines, NEW isTorn, spc = "down", Begins(lines, isTorn) PROVE ParsedInv'
  <2>1. num' = 0 /\ c' = ZeroConfig'
    BY <1>4 DEF Begins, StartupTypeOK, PhaseInv, ZeroConfig
  <2>2. (num = 0 /\ c = ZeroConfig => SetTwiceOnlyAfterZero /\ SymIsSet /\ MatchesAreListed)'
    BY ParsedOfNothing, PTL
  <2>3. MissingIsFlapped'
    BY <1>4 DEF Begins, MissingIsFlapped
  <2>4. QED
    BY <2>1, <2>2, <2>3 DEF ParsedInv
<1>5. CASE ParseLine
  <2>1. ReadLine /\ spc = "parse" /\ spc' = spc /\ nodes' = nodes /\ flapped' = flapped
    BY <1>5 DEF ParseLine, ReadLine
  <2>2. ParserTypeOK /\ Reads(num + 1)
    BY <2>1, ReadLineReads DEF StartupTypeOK
  <2>3. KeysLast /\ RetriesLast /\ SymOnce
    BY <1>a, PartsOfSetTwice
  <2>4. KeysLast' /\ RetriesLast' /\ SymOnce' /\ SymIsSet'
    BY <1>a, <2>1, <2>2, <2>3, KeysLastNext, RetriesLastNext, SymOnceNext
  <2>5. SetTwiceOnlyAfterZero'
    BY <2>4 DEF SetTwiceOnlyAfterZero, KeysLast, RetriesLast, SymOnce
  <2>6. Nodes \ nodes \subseteq flapped
    BY <1>a, <2>1 DEF MissingIsFlapped
  <2>7. MatchesAreListed'
    BY <1>a, <2>1, <2>2, <2>6, MatchesAreListedNext
  <2>8. MissingIsFlapped'
    BY <2>1, <2>6 DEF MissingIsFlapped
  <2>9. QED
    BY <2>4, <2>5, <2>7, <2>8 DEF ParsedInv
<1>6. CASE ParseDone
  <2>1. UNCHANGED configVars /\ spc' = "start"
    BY <1>6 DEF ParseDone
  <2>2. QED
    BY <1>b, <2>1 DEF MissingIsFlapped
<1>7. ASSUME NEW i, NEW s, spc = "start", Becomes(i, s) PROVE ParsedInv'
  BY <1>7, <1>b DEF Becomes, MissingIsFlapped
<1>8. CASE NewSender
  BY <1>8, <1>b DEF NewSender, MissingIsFlapped
<1>9. ASSUME NEW n \in Nodes, NodeLeaves(n) \/ NodeAppears(n),
             UNCHANGED <<fileVars, serviceVars>>
      PROVE  ParsedInv'
  <2>1. /\ text' = text /\ num' = num /\ c' = c /\ spc' = spc
        /\ flapped \subseteq flapped'
        /\ Nodes \ nodes \subseteq flapped => Nodes \ nodes' \subseteq flapped'
    BY <1>9 DEF NodeLeaves, NodeAppears
  <2>2. MissingIsFlapped'
    BY <1>a, <2>1 DEF MissingIsFlapped
  <2>3. QED
    BY <1>b, <2>1, <2>2
<1>10. QED
  BY <1>1, <1>2, <1>3, <1>4, <1>5, <1>6, <1>7, <1>8, <1>9, StepKinds

\* The invariants of the parser in the life of the service.
THEOREM ParsedInvariant == StartupSpec => [](StartupTypeOK /\ ParsedInv)
<1>1. StartupInit => StartupTypeOK /\ ParsedInv
  <2>1. StartupInit => num = 0 /\ c = ZeroConfig /\ MissingIsFlapped
    BY DEF StartupInit, MissingIsFlapped
  <2>2. QED
    BY <2>1, StartupTypeInit, ParsedOfNothing DEF ParsedInv
<1>2. StartupTypeOK /\ ParsedInv /\ [StartupNext]_startupVars => (StartupTypeOK /\ ParsedInv)'
  BY StartupTypeNext, ParsedInvNext
<1>3. QED
  BY <1>1, <1>2, PTL DEF StartupSpec

\* No value a user gave is ever replaced: a directive comes twice only if its
\* earlier values were zero, for any file and any tables of numbers.
THEOREM SetTwiceTheorem == StartupSpec => []SetTwiceOnlyAfterZero
  BY ParsedInvariant, PTL DEF ParsedInv

\* A matching node that exists throughout the parse is among the devices, and
\* nothing is that does not match, for any sets of nodes and any globs.
THEOREM MatchesTheorem == StartupSpec => []MatchesAreListed
  BY ParsedInvariant, PTL DEF ParsedInv

----------------------------------------------------------------------------
(* Torn files never listen *)

TornInv == TornIsTruncated /\ TornFileNeverListens

LEMMA TornInvNext ==
  StartupTypeOK /\ TornInv /\ [StartupNext]_startupVars => TornInv'
<1> SUFFICES ASSUME StartupTypeOK, TornInv, [StartupNext]_startupVars PROVE TornInv'
  OBVIOUS
<1> USE DEF fileVars, serviceVars, configVars
<1>a. TornIsTruncated /\ TornFileNeverListens
  BY DEF TornInv
<1>b. Truncations' = Truncations
  BY DEF Truncations, Cuts, DefaultFile, Blank
<1>1. CASE UNCHANGED startupVars
  BY <1>1, <1>a, <1>b DEF startupVars, TornInv, TornIsTruncated, TornFileNeverListens
<1>2. CASE CreateFile
  <2>1. <<>> \in Truncations
    <3>1. Len(DefaultFile) = 4 /\ SubSeq(DefaultFile, 1, 0) = <<>>
      BY DefaultFileLines, SubSeqEmpty
    <3>2. 0 \in 0 .. Len(DefaultFile) - 1
      BY <3>1
    <3>3. SubSeq(DefaultFile, 1, 0) \in Truncations
      BY <3>2 DEF Truncations
    <3>4. QED
      BY <3>1, <3>3
  <2>2. disk'.lines = <<>>
    BY <1>2 DEF CreateFile, File
  <2>3. QED
    BY <1>2, <1>a, <1>b, <2>1, <2>2
      DEF CreateFile, TornInv, TornIsTruncated, TornFileNeverListens
<1>3. CASE WriteFile
  <2>1. disk'.torn => disk'.lines \in Truncations
    BY <1>3 DEF WriteFile, File
  <2>2. QED
    BY <1>3, <1>a, <1>b, <2>1
      DEF WriteFile, TornInv, TornIsTruncated, TornFileNeverListens
<1>4. ASSUME NEW st, Ends(st) PROVE TornInv'
  BY <1>4, <1>a, <1>b DEF Ends, TornInv, TornIsTruncated, TornFileNeverListens
<1>5. ASSUME NEW lines, NEW isTorn \in BOOLEAN, spc = "down", Begins(lines, isTorn),
             isTorn => lines \in Truncations
      PROVE  TornInv'
  <2>1. lst = <<>> /\ DOMAIN <<>> = {} /\ c = ZeroConfig
    BY <1>5 DEF StartupTypeOK, PhaseInv
  <2>2. Range(c.devices) = {}
    BY <2>1, ZeroConfigType
  <2>3. TornIsTruncated'
    BY <1>5, <1>a, <1>b, <2>2 DEF Begins, TornIsTruncated
  <2>4. TornFileNeverListens'
    BY <1>5, <2>1 DEF Begins, TornFileNeverListens
  <2>5. QED
    BY <2>3, <2>4 DEF TornInv
<1>6. CASE ParseLine
  <2>1. ReadLine /\ UNCHANGED <<fileVars, serviceVars>> /\ text' = text
    BY <1>6 DEF ParseLine, ReadLine
  <2>2. ParserTypeOK /\ num + 1 \in 1 .. Len(text) /\ Reads(num + 1)
    BY <2>1, ReadLineReads DEF StartupTypeOK
  <2>3. ASSUME torn PROVE Range(c'.devices) \cap DOMAIN Caps = {}
    <3>1. text \in Truncations /\ Range(c.devices) \cap DOMAIN Caps = {}
      BY <1>a, <2>3 DEF TornIsTruncated
    <3>2. CASE Directive(num + 1) = <<"device">>
      <4> DEFINE arg == Argument(num + 1)
                 new == Globs[arg] \cap nodes
      <4>1. arg \in DOMAIN Globs /\ c'.devices = c.devices \o Ascending(new)
        BY <2>2, <3>2 DEF Reads, Listing
      <4>2. Globs[arg] \cap DOMAIN Caps = {} /\ Globs[arg] \subseteq Nodes
        BY <2>2, <3>1, <3>2, <4>1, TornNamesNoDevice, ConfigAssumption
      <4>3. Ascending(new) \in Seq(Nodes) /\ Range(Ascending(new)) = new
        BY <4>2, GlobListsAll
      <4>4. c.devices \in Seq(Nodes)
        BY <2>2 DEF ParserTypeOK, Configs
      <4>5. Range(c.devices \o Ascending(new)) = Range(c.devices) \cup Range(Ascending(new))
        BY <4>3, <4>4, RangeConcatenation
      <4>6. QED
        BY <3>1, <4>1, <4>2, <4>3, <4>5
    <3>3. CASE Directive(num + 1) # <<"device">>
      BY <2>2, <3>1, <3>3 DEF Reads
    <3>4. QED
      BY <3>2, <3>3
  <2>4. QED
    BY <1>a, <1>b, <2>1, <2>3 DEF TornInv, TornIsTruncated, TornFileNeverListens
<1>7. CASE ParseDone
  <2>1. UNCHANGED <<configVars, disk, torn>> /\ lst' = [i \in DOMAIN c.devices |-> "new"]
    BY <1>7 DEF ParseDone
  <2>2. TornIsTruncated'
    BY <1>a, <1>b, <2>1 DEF TornIsTruncated
  <2>3. "new" # "listening"
    OBVIOUS
  <2>4. TornFileNeverListens'
    BY <2>1, <2>3 DEF TornFileNeverListens
  <2>5. QED
    BY <2>2, <2>4 DEF TornInv
<1>8. ASSUME NEW i \in DOMAIN lst, NEW s, spc = "start", Becomes(i, s),
             s = "listening" => c.devices[i] \in DOMAIN Caps
      PROVE  TornInv'
  <2>1. UNCHANGED <<configVars, disk, torn>> /\ lst' = [lst EXCEPT ![i] = s]
    BY <1>8 DEF Becomes
  <2>2. TornIsTruncated'
    BY <1>a, <1>b, <2>1 DEF TornIsTruncated
  <2>3. ASSUME torn PROVE s # "listening"
    <3>1. i \in DOMAIN c.devices
      BY <1>8 DEF StartupTypeOK, PhaseInv
    <3>2. c.devices[i] \in Range(c.devices)
      BY <3>1 DEF Range
    <3>3. QED
      BY <1>8, <1>a, <2>3, <3>2 DEF TornIsTruncated
  <2>4. TornFileNeverListens'
    BY <1>a, <2>1, <2>3 DEF TornFileNeverListens
  <2>5. QED
    BY <2>2, <2>4 DEF TornInv
<1>9. CASE NewSender
  BY <1>9, <1>a, <1>b DEF NewSender, TornInv, TornIsTruncated, TornFileNeverListens
<1>10. ASSUME NEW n \in Nodes, NodeLeaves(n) \/ NodeAppears(n),
              UNCHANGED <<fileVars, serviceVars>>
       PROVE  TornInv'
  <2>1. text' = text /\ c' = c
    BY <1>10 DEF NodeLeaves, NodeAppears
  <2>2. QED
    BY <1>10, <1>a, <1>b, <2>1 DEF TornInv, TornIsTruncated, TornFileNeverListens
<1>11. disk.torn \in BOOLEAN /\ (disk.torn => disk.lines \in Truncations)
  BY <1>a DEF StartupTypeOK, ServiceTypeOK, Disks, TornIsTruncated
<1>12. QED
  BY <1>1, <1>2, <1>3, <1>4, <1>5, <1>6, <1>7, <1>8, <1>9, <1>10, <1>11, StepKinds

\* No beginning of the default file, whatever the cut leaves of its last line,
\* makes a service that listens to a device.
THEOREM TornFileTheorem == StartupSpec => []TornFileNeverListens
<1>1. StartupInit => StartupTypeOK /\ TornInv
  <2>1. ASSUME StartupInit PROVE TornInv
    <3>1. ~ torn /\ ~ disk.torn
      BY <2>1 DEF StartupInit, File, NoFile
    <3>2. QED
      BY <3>1 DEF TornInv, TornIsTruncated, TornFileNeverListens
  <2>2. QED
    BY <2>1, StartupTypeInit
<1>2. StartupTypeOK /\ TornInv /\ [StartupNext]_startupVars => (StartupTypeOK /\ TornInv)'
  BY StartupTypeNext, TornInvNext
<1>3. QED
  BY <1>1, <1>2, PTL DEF StartupSpec, TornInv

----------------------------------------------------------------------------
(* The check of a device *)

\* The requests reach the kernel as they are meant.
LEMMA RequestFields ==
  /\ RequestNr(Eviocgbit(0, 31)) - 32 = 0 /\ RequestSize(Eviocgbit(0, 31)) = 31
  /\ \A n \in {99, 103} :
       RequestNr(Eviocgbit(1, n)) - 32 = 1 /\ RequestSize(Eviocgbit(1, n)) = n
  BY DEF RequestNr, RequestSize, Eviocgbit, Ioc

LEMMA TypeOfKeys ==
  /\ EvKey \in DOMAIN TypeCodes /\ TypeCodes[EvKey] = "KEY"
  /\ "KEY" \in Arrays /\ TypeOf["KEY"] = EvKey /\ CodeCount["KEY"] = 768
<1>1. EvKey \in DOMAIN TypeCodes
  BY DEF TypeCodes
<1>2. EvKey \notin {EvRel, EvAbs, EvMsc, EvSw, EvLed, EvSnd, EvFf}
  BY DEF EvKey, EvRel, EvAbs, EvMsc, EvSw, EvLed, EvSnd, EvFf
<1>3. TypeCodes[EvKey] = "KEY"
  BY <1>2 DEF TypeCodes
<1>4. "KEY" \in Arrays /\ TypeOf["KEY"] = EvKey
  BY DEF Arrays, TypeOf
<1>5. CodeCount["KEY"] = 768
  BY DEF CodeCount
<1>6. QED
  BY <1>1, <1>3, <1>4, <1>5

\* The array of keys is long enough for all of them.
LEMMA KeyArrayBytes ==
  /\ ArrayBytes(768) \in {99, 103}
  /\ \A b \in 0 .. 767 : b < 8 * ArrayBytes(768)
  /\ \A key \in Nat : key \div 8 >= ArrayBytes(768) => key > 767
<1>1. CASE WordBits = 32
  <2>1. ArrayBytes(768) = 99
    BY <1>1 DEF ArrayBytes
  <2>2. QED
    BY <2>1
<1>2. CASE WordBits = 64
  <2>1. ArrayBytes(768) = 103
    BY <1>2 DEF ArrayBytes
  <2>2. QED
    BY <2>1
<1>3. QED
  BY <1>1, <1>2, WordBitsAssumption


\* The two arrays that the check reads.
LEMMA TypesArray ==
  ASSUME NEW node \in DOMAIN Caps
  PROVE  FilledArray(node, 0, 31) =
           [bytes |-> 31, set |-> {b \in {0} \cup DOMAIN Caps[node] : b < 248}]
<1>1. KernelBits(node, Eviocgbit(0, 31)) = {b \in {0} \cup DOMAIN Caps[node] : b < 248}
  BY RequestFields DEF KernelBits
<1>2. QED
  BY <1>1 DEF FilledArray

LEMMA KeysArray ==
  ASSUME NEW node \in DOMAIN Caps, EvKey \in DOMAIN Caps[node], NEW n \in {99, 103}
  PROVE  FilledArray(node, EvKey, n) =
           [bytes |-> n, set |-> {b \in Caps[node][EvKey] : b < 8 * n}]
<1>1. EvKey = 1 /\ 1 # 0
  BY DEF EvKey
<1>2. RequestNr(Eviocgbit(1, n)) - 32 = 1 /\ RequestSize(Eviocgbit(1, n)) = n
  BY RequestFields
<1>3. KernelBits(node, Eviocgbit(1, n)) = {b \in Caps[node][1] : b < 8 * n}
  BY <1>1, <1>2 DEF KernelBits
<1>4. QED
  BY <1>1, <1>3 DEF FilledArray

LEMMA HasKeys ==
  ASSUME NEW node \in DOMAIN Caps
  PROVE  HasEventType(DeviceOf(node), EvKey)
           = IF EvKey \in DOMAIN Caps[node] THEN "yes" ELSE "no"
<1>1. DeviceOf(node).types = FilledArray(node, 0, 31)
  BY Zenon DEF DeviceOf
<1>2. EvKey = 1
  BY DEF EvKey
<1>3. EvKey \in Int /\ EvKey # 0 /\ EvKey < 248 /\ ~ (EvKey \div 8 >= 31)
  BY <1>2
<1>4. EvKey \in {b \in {0} \cup DOMAIN Caps[node] : b < 248} <=> EvKey \in DOMAIN Caps[node]
  BY <1>3
<1>5. HasEventType(DeviceOf(node), EvKey) = IsBitSet(FilledArray(node, 0, 31), EvKey)
  BY <1>1, Zenon DEF HasEventType
<1>6. QED
  BY <1>3, <1>4, <1>5, TypesArray DEF IsBitSet

LEMMA KeysAreIndexed ==
  ASSUME NEW node \in DOMAIN Caps
  PROVE  DeviceOf(node).codes["KEY"] = FilledArray(node, EvKey, ArrayBytes(768))
<1>1. DeviceOf(node).codes =
        [a \in Arrays |-> FilledArray(node, TypeOf[a], ArrayBytes(CodeCount[a]))]
  BY Zenon DEF DeviceOf
<1>2. QED
  BY <1>1, TypeOfKeys

LEMMA HasKey ==
  ASSUME NEW node \in DOMAIN Caps, EvKey \in DOMAIN Caps[node], NEW key \in Nat
  PROVE  HasEventCode(DeviceOf(node), EvKey, key)
           = IsBitSet(FilledArray(node, EvKey, ArrayBytes(768)), key)
<1>1. HasEventType(DeviceOf(node), EvKey) = "yes"
  BY HasKeys, Zenon
<1>2. QED
  BY <1>1, TypeOfKeys, KeysAreIndexed DEF HasEventCode

LEMMA HasNoKey ==
  ASSUME NEW node \in DOMAIN Caps, EvKey \notin DOMAIN Caps[node], NEW key
  PROVE  HasEventCode(DeviceOf(node), EvKey, key) = "no"
<1>1. HasEventType(DeviceOf(node), EvKey) = "no"
  BY HasKeys, Zenon
<1>2. "no" # "yes"
  OBVIOUS
<1>3. QED
  BY <1>1, <1>2, Zenon DEF HasEventCode

\* HasEventCode of a key is right for the kernel's keys, and for all others as
\* long as the index is within the array.
LEMMA CheckIsRight ==
  ASSUME NEW node \in DOMAIN Caps, NEW key \in Nat
  PROVE  /\ HasEventCode(DeviceOf(node), EvKey, key) = "yes"
              <=> EvKey \in DOMAIN Caps[node] /\ key \in Caps[node][EvKey]
         /\ HasEventCode(DeviceOf(node), EvKey, key) = "panic" => key > 767
<1>1. CASE EvKey \notin DOMAIN Caps[node]
  <2>1. HasEventCode(DeviceOf(node), EvKey, key) = "no"
    BY <1>1, HasNoKey, Zenon
  <2>2. QED
    BY <1>1, <2>1
<1>2. CASE EvKey \in DOMAIN Caps[node]
  <2>1. PICK n \in {99, 103} : n = ArrayBytes(768)
    BY KeyArrayBytes
  <2>2. HasEventCode(DeviceOf(node), EvKey, key) = IsBitSet(FilledArray(node, EvKey, n), key)
    BY <1>2, <2>1, HasKey
  <2>3. FilledArray(node, EvKey, n) =
          [bytes |-> n, set |-> {b \in Caps[node][EvKey] : b < 8 * n}]
    BY <1>2, KeysArray
  <2>4. \A b \in Caps[node][EvKey] : b \in 0 .. 767 /\ b < 8 * n
    BY <1>2, <2>1, CapsAssumption, KeyArrayBytes
  <2>5. {b \in Caps[node][EvKey] : b < 8 * n} = Caps[node][EvKey]
    BY <2>4
  <2>6. HasEventCode(DeviceOf(node), EvKey, key)
          = IF key \div 8 >= n THEN "panic" ELSE IF key \in Caps[node][EvKey] THEN "yes" ELSE "no"
    BY <2>2, <2>3, <2>5 DEF IsBitSet
  <2>7. key \div 8 >= n => key > 767
    BY <2>1, KeyArrayBytes
  <2>8. key \in Caps[node][EvKey] => ~ (key > 767)
    BY <2>4, SMTT(30)
  <2>9. QED
    BY <1>2, <2>6, <2>7, <2>8
<1>3. QED
  BY <1>1, <1>2

LEMMA KeycodeIsNatural ==
  ASSUME c.key \in Nat
  PROVE  Keycode \in Nat
BY DEF Keycode

LEMMA CheckOfListener ==
  ASSUME c.key \in Nat, NEW i, c.devices[i] \in DOMAIN Caps
  PROVE  /\ Check(i) = "yes" <=> EvKey \in DOMAIN Caps[c.devices[i]]
                                   /\ Keycode \in Caps[c.devices[i]][EvKey]
         /\ Check(i) = "panic" => Keycode > 767
BY KeycodeIsNatural, CheckIsRight, Zenon DEF Check

\* A device is listened to exactly if it can send the key, and no key of the
\* kernel makes the check panic, for words of either size and any devices.
THEOREM CapabilityTheorem == StartupSpec => []CheckMeansCapability
<1>1. StartupTypeOK => c.key \in Nat
  BY DEF StartupTypeOK, ParserTypeOK, Configs
<1>2. StartupTypeOK => CheckMeansCapability
  <2>1. SUFFICES ASSUME StartupTypeOK, NEW i \in DOMAIN lst, c.devices[i] \in DOMAIN Caps
                 PROVE  /\ Check(i) = "yes" <=> EvKey \in DOMAIN Caps[c.devices[i]]
                                                  /\ Keycode \in Caps[c.devices[i]][EvKey]
                        /\ Check(i) = "panic" => Keycode > 767
    BY Zenon DEF CheckMeansCapability
  <2>2. QED
    BY <1>1, <2>1, CheckOfListener, Zenon
<1>3. QED
  BY <1>2, ParsedInvariant, PTL

----------------------------------------------------------------------------
(* The mouse sender *)

\* The byte in a mouse sender's requests is the configured number, whatever
\* numbers users write.
THEOREM ButtonTheorem == StartupSpec => []ButtonIsConfigured
<1>1. StartupInit => ButtonIsConfigured
  BY DEF StartupInit, ButtonIsConfigured, NoSender
<1>2. ButtonIsConfigured /\ [StartupNext]_startupVars => ButtonIsConfigured'
  <2> SUFFICES ASSUME ButtonIsConfigured, [StartupNext]_startupVars
               PROVE  ButtonIsConfigured'
    OBVIOUS
  <2> USE DEF fileVars, serviceVars, configVars
  <2>1. CASE NewSender
    <3>1. sender' \in Senders(c.sym)
      BY <2>1 DEF NewSender
    <3>2. ASSUME sender'.type = "mouse"
          PROVE  \E b \in Int : /\ ValidButton(b)
                                /\ sender' = [NoSender EXCEPT !.type = "mouse", !.val = b,
                                                             !.detail = Detail(b)]
      <4>1. \A s : \A syms : [NoSender EXCEPT !.type = "key", !.syms = syms].type = "key"
        BY DEF NoSender
      <4>2. \E b \in {Ints[s] : s \in {c.sym.val} \cap DOMAIN Ints} :
              /\ ValidButton(b)
              /\ sender' = [NoSender EXCEPT !.type = "mouse", !.val = b, !.detail = Detail(b)]
        BY <3>1, <3>2, <4>1 DEF Senders
      <4>3. QED
        BY <4>2, StartupAssumption
    <3>3. ASSUME NEW b \in Int, ValidButton(b) PROVE Detail(b) = b /\ b \in 1 .. 255
      BY <3>3 DEF ValidButton, Detail
    <3>4. QED
      BY <3>2, <3>3 DEF ButtonIsConfigured, NoSender
  <2>2. ASSUME NEW st, Ends(st) PROVE ButtonIsConfigured'
    BY <2>2 DEF Ends, ButtonIsConfigured, NoSender
  <2>3. CASE sender' = sender
    BY <2>3 DEF ButtonIsConfigured
  <2>4. NewSender \/ (\E st : Ends(st)) \/ sender' = sender
    BY StepKinds DEF startupVars, CreateFile, WriteFile, Begins, ParseLine, ParseDone, Becomes
  <2>5. QED
    BY <2>1, <2>2, <2>3, <2>4
<1>3. QED
  BY <1>1, <1>2, PTL DEF StartupSpec

----------------------------------------------------------------------------
(* What a sender stands for *)

\* The symbol in the Config is what the one sym line says, and the sender is
\* one for this symbol.
SymIsRead ==
  /\ \A i \in LinesWith("sym") : c.sym = SymOf(Argument(i))
  /\ c.sym # ZeroConfig.sym => LinesWith("sym") # {}

SenderIsOfSym ==
  /\ spc # "start" => sender = NoSender
  /\ sender # NoSender => sender \in Senders(c.sym)

SenderInv == SymIsRead /\ SenderIsOfSym

\* A line more leaves the symbol alone, or is the first to set it.
LEMMA SymIsReadNext ==
  ASSUME ParserTypeOK, ReadLine, Reads(num + 1), SymIsRead, SymIsSet
  PROVE  SymIsRead'
<1> DEFINE lines == LinesWith("sym")
<1>1. /\ lines' = IF Directive(num + 1) = <<"sym">> THEN lines \cup {num + 1} ELSE lines
      /\ \A i : Argument(i)' = Argument(i)
  BY LinesGrow
<1>2. ZeroConfig' = ZeroConfig
  BY DEF ZeroConfig
<1>3. CASE Directive(num + 1) = <<"sym">>
  <2>1. c.sym = ZeroConfig.sym /\ c'.sym = SymOf(Argument(num + 1))
    BY <1>3 DEF Reads
  <2>2. lines' = {num + 1}
    BY <1>1, <1>3, <2>1 DEF SymIsSet
  <2>3. QED
    BY <1>1, <2>1, <2>2 DEF SymIsRead
<1>4. CASE Directive(num + 1) # <<"sym">>
  BY <1>1, <1>2, <1>4 DEF SymIsRead, Reads
<1>5. QED
  BY <1>3, <1>4

\* What was read does not change while nothing is read.
LEMMA SymIsReadUnchanged ==
  ASSUME SymIsRead, text' = text, num' = num, c' = c
  PROVE  SymIsRead'
<1>1. \A i : Directive(i)' = Directive(i) /\ Argument(i)' = Argument(i)
  BY DEF Directive, Argument, Line
<1>2. LinesWith("sym")' = LinesWith("sym") /\ ZeroConfig' = ZeroConfig
  BY <1>1 DEF LinesWith, ZeroConfig
<1>3. QED
  BY <1>1, <1>2 DEF SymIsRead

\* It is preserved by every step of the service, its file and the nodes.
LEMMA SenderInvNext ==
  StartupTypeOK /\ SymIsSet /\ SenderInv /\ [StartupNext]_startupVars => SenderInv'
<1> SUFFICES ASSUME StartupTypeOK, SymIsSet, SenderInv, [StartupNext]_startupVars
             PROVE  SenderInv'
  OBVIOUS
<1> USE DEF fileVars, serviceVars, configVars
<1>a. SymIsRead /\ SenderIsOfSym
  BY DEF SenderInv
<1>b. NoSender' = NoSender
  BY DEF NoSender
<1>c. ASSUME text' = text, num' = num, c' = c, sender' = sender, spc' = spc \/ spc' = "start"
      PROVE  SenderInv'
  <2>1. SymIsRead'
    BY <1>a, <1>c, SymIsReadUnchanged
  <2>2. SenderIsOfSym'
    BY <1>a, <1>b, <1>c DEF SenderIsOfSym
  <2>3. QED
    BY <2>1, <2>2 DEF SenderInv
<1>1. CASE UNCHANGED startupVars
  BY <1>1, <1>c DEF startupVars
<1>2. CASE CreateFile \/ WriteFile
  BY <1>2, <1>c DEF CreateFile, WriteFile
<1>3. ASSUME num' = 0, c' = ZeroConfig, sender' = NoSender
      PROVE  SenderInv'
  <2>1. LinesWith("sym")' = {} /\ ZeroConfig' = ZeroConfig
    BY <1>3 DEF LinesWith, ZeroConfig
  <2>2. QED
    BY <1>3, <1>b, <2>1 DEF SenderInv, SymIsRead, SenderIsOfSym
<1>4. ASSUME NEW st, Ends(st) PROVE SenderInv'
  BY <1>3, <1>4 DEF Ends
<1>5. ASSUME NEW lines, NEW isTorn, spc = "down", Begins(lines, isTorn) PROVE SenderInv'
  <2>1. num' = 0 /\ c' = ZeroConfig
    BY <1>5 DEF Begins, StartupTypeOK, PhaseInv
  <2>2. sender' = NoSender
    BY <1>a, <1>5 DEF Begins, SenderIsOfSym
  <2>3. QED
    BY <1>3, <2>1, <2>2
<1>6. CASE ParseLine
  <2>1. ReadLine /\ spc = "parse" /\ UNCHANGED <<fileVars, serviceVars>>
    BY <1>6 DEF ParseLine
  <2>2. ParserTypeOK /\ Reads(num + 1)
    BY <2>1, ReadLineReads DEF StartupTypeOK
  <2>3. SymIsRead'
    BY <1>a, <2>1, <2>2, SymIsReadNext
  <2>4. sender' = NoSender
    BY <1>a, <2>1 DEF SenderIsOfSym
  <2>5. QED
    BY <1>b, <2>3, <2>4 DEF SenderInv, SenderIsOfSym
<1>7. CASE ParseDone
  BY <1>7, <1>c DEF ParseDone
<1>8. ASSUME NEW i, NEW s, spc = "start", Becomes(i, s) PROVE SenderInv'
  BY <1>8, <1>c DEF Becomes
<1>9. CASE NewSender
  <2>1. spc' = "start" /\ UNCHANGED configVars /\ sender' \in Senders(c.sym)
    BY <1>9 DEF NewSender
  <2>2. SymIsRead'
    BY <1>a, <2>1, SymIsReadUnchanged
  <2>3. SenderIsOfSym'
    BY <2>1 DEF SenderIsOfSym
  <2>4. QED
    BY <2>2, <2>3 DEF SenderInv
<1>10. ASSUME NEW n \in Nodes, NodeLeaves(n) \/ NodeAppears(n),
              UNCHANGED <<fileVars, serviceVars>>
       PROVE  SenderInv'
  BY <1>10, <1>c DEF NodeLeaves, NodeAppears
<1>11. QED
  BY <1>1, <1>2, <1>4, <1>5, <1>6, <1>7, <1>8, <1>9, <1>10, StepKinds

\* An argument of two words is the first, a blank and the second.
LEMMA TypedArgument ==
  ASSUME NEW arg \in Seq(Words), NEW w, Cut(arg).found, Cut(arg).before = <<w>>
  PROVE  /\ IsPrefix(<<w, Blank>>, arg)
         /\ Cut(arg).after = SubSeq(arg, 3, Len(arg))
<1>1. PICK i \in 1 .. Len(arg) : arg[i] = Blank /\ \A j \in 1 .. i - 1 : arg[j] # Blank
  <2>1. ~ \A j \in 1 .. Len(arg) : arg[j] # Blank
    BY CutWithoutBlank
  <2>2. QED
    BY <2>1, BlankOrNone
<1> DEFINE b == SubSeq(arg, 1, i - 1)
<1>2. /\ Cut(arg) = [before |-> b, after |-> SubSeq(arg, i + 1, Len(arg)), found |-> TRUE]
      /\ Len(b) = i - 1
      /\ \A j \in 1 .. i - 1 : b[j] = arg[j]
  BY <1>1, CutAtBlank
<1> HIDE DEF b
<1>3. b = <<w>> /\ Len(b) = 1 /\ b[1] = w
  <2>1. b = <<w>>
    <3>1. Cut(arg).before = b
      BY <1>2
    <3>2. QED
      BY <3>1
  <2>2. QED
    BY <2>1
<1>4. i = 2 /\ Len(arg) \in Nat
  BY <1>2, <1>3
<1>5. arg[1] = w /\ arg[2] = Blank /\ Len(arg) >= 2
  BY <1>1, <1>2, <1>3, <1>4
<1>6. SubSeq(arg, 1, 2) = <<w, Blank>>
  <2> DEFINE s == SubSeq(arg, 1, 2)
  <2>1. /\ s \in Seq(Words)
        /\ Len(s) = (IF 1 <= 2 THEN 2 - 1 + 1 ELSE 0)
        /\ \A j \in 1 .. 2 - 1 + 1 : s[j] = arg[1 + j - 1]
    <3>1. 1 \in 1 .. Len(arg) + 1 /\ 2 \in 0 .. Len(arg)
      BY <1>4, <1>5
    <3>2. \A j \in 1 .. 2 : arg[j] \in Words
      BY <1>4, <1>5
    <3>3. QED
      BY <3>1, <3>2, SubSeqProperties
  <2>2. Len(s) = 2 /\ s[1] = arg[1] /\ s[2] = arg[2]
    BY <2>1
  <2> HIDE DEF s
  <2>3. s = <<s[1], s[2]>>
    BY <2>1, <2>2
  <2>4. QED
    BY <1>5, <2>2, <2>3 DEF s
<1>7. SubSeq(<<w, Blank>>, 1, 2) = <<w, Blank>> /\ Len(<<w, Blank>>) = 2
  <2>1. <<w, Blank>> \in Seq({w, Blank}) /\ Len(<<w, Blank>>) = 2
    OBVIOUS
  <2>2. QED
    BY <2>1, SubSeqFull
<1>8. QED
  BY <1>2, <1>4, <1>5, <1>6, <1>7 DEF IsPrefix

\* An argument without a blank has no first word.
LEMMA UntypedArgument ==
  ASSUME NEW arg \in Seq(Words), ~ Cut(arg).found
  PROVE  \A w : ~ IsPrefix(<<w, Blank>>, arg)
<1>1. \A j \in 1 .. Len(arg) : arg[j] # Blank
  <2>1. ASSUME NEW i \in 1 .. Len(arg), arg[i] = Blank, \A j \in 1 .. i - 1 : arg[j] # Blank
        PROVE  FALSE
    BY <2>1, CutAtBlank
  <2>2. QED
    BY <2>1, BlankOrNone
<1>2. ASSUME NEW w, IsPrefix(<<w, Blank>>, arg) PROVE FALSE
  <2>1. Len(arg) >= 2 /\ SubSeq(<<w, Blank>>, 1, 2) = SubSeq(arg, 1, 2)
    BY <1>2 DEF IsPrefix
  <2>2. SubSeq(arg, 1, 2)[2] = arg[2] /\ SubSeq(<<w, Blank>>, 1, 2)[2] = Blank
    BY <2>1
  <2>3. QED
    BY <1>1, <2>1, <2>2
<1>3. QED
  BY <1>2

\* A sender of a symbol that is what a line says is a sender of the line.
LEMMA SenderOfLine ==
  StartupTypeOK /\ SenderInv => SenderMeansLine
<1> SUFFICES ASSUME StartupTypeOK, SenderInv, sender # NoSender
             PROVE  SenderMeansLine
  BY DEF SenderMeansLine
<1>1. sender \in Senders(c.sym) /\ SymIsRead
  BY DEF SenderInv, SenderIsOfSym
<1>2. \/ /\ c.sym.type = <<"key">> /\ sender.type = "key"
         /\ sender.syms = ResolveNames(Table, c.sym.val)
      \/ /\ c.sym.type = <<"mouse">> /\ sender.type = "mouse"
         /\ c.sym.val \in DOMAIN Ints /\ sender.val = Ints[c.sym.val]
  BY <1>1 DEF Senders, NoSender
<1>3. PICK i \in LinesWith("sym") : c.sym = SymOf(Argument(i))
  <2>1. <<"key">> # <<>> /\ <<"mouse">> # <<>>
    OBVIOUS
  <2>2. c.sym.type # <<>> /\ ZeroConfig.sym.type = <<>>
    BY <1>2, <2>1, Zenon DEF ZeroConfig
  <2>3. QED
    BY <1>1, <2>2 DEF SymIsRead
<1> DEFINE arg == Argument(i)
           rest == SubSeq(arg, 3, Len(arg))
<1>4. arg \in Seq(Words)
  <2>1. text \in Text /\ num \in 0 .. Len(text)
    BY DEF StartupTypeOK, ParserTypeOK
  <2>2. i \in 1 .. Len(text)
    BY <2>1 DEF LinesWith, Text
  <2>3. QED
    BY <2>1, <2>2, LineTypes
<1>5. CASE Cut(arg).found
  <2>1. c.sym.type = Cut(arg).before /\ c.sym.val = Cut(arg).after
    BY <1>3, <1>5 DEF SymOf
  <2> HIDE DEF arg
  <2>2. ASSUME NEW w \in {"key", "mouse"}, c.sym.type = <<w>>
        PROVE  IsPrefix(<<w, Blank>>, arg) /\ c.sym.val = rest
    <3>1. Cut(arg).before = <<w>>
      BY <2>1, <2>2
    <3>2. IsPrefix(<<w, Blank>>, arg) /\ Cut(arg).after = rest
      BY <1>4, <1>5, <3>1, TypedArgument
    <3>3. QED
      BY <2>1, <3>2
  <2>3. QED
    BY <1>2, <2>2 DEF SenderMeansLine, arg
<1>6. CASE ~ Cut(arg).found
  <2>1. c.sym.type = <<"key">> /\ c.sym.val = arg
    BY <1>3, <1>6 DEF SymOf
  <2>2. ~ IsPrefix(<<"key", Blank>>, arg)
    BY <1>4, <1>6, UntypedArgument
  <2>3. <<"key">> # <<"mouse">>
    OBVIOUS
  <2>4. QED
    BY <1>2, <2>1, <2>2, <2>3 DEF SenderMeansLine
<1>7. QED
  BY <1>5, <1>6

\* The sender stands for a whole sym line, for any file, any table of keysyms
\* and any numbers: no line makes a sender of some of its names only.
THEOREM SenderTheorem == StartupSpec => []SenderMeansLine
<1>1. StartupInit => SenderInv
  <2>1. StartupInit => num = 0 /\ c = ZeroConfig /\ sender = NoSender
    BY DEF StartupInit
  <2>2. num = 0 => LinesWith("sym") = {}
    BY DEF LinesWith
  <2>3. QED
    BY <2>1, <2>2 DEF SenderInv, SymIsRead, SenderIsOfSym
<1>2. ParsedInv => SymIsSet
  BY DEF ParsedInv
<1>3. QED
  BY <1>1, <1>2, SenderInvNext, SenderOfLine, ParsedInvariant, PTL DEF StartupSpec
=============================================================================

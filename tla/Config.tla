------------------------------- MODULE Config -------------------------------
(***************************************************************************)
(* The configuration parser (internal/config): Parse reads one line after  *)
(* another into a Config.  A device directive is a glob that is evaluated  *)
(* as its line is read, against device nodes that come and go meanwhile.   *)
(***************************************************************************)
EXTENDS Strings, Integers, FiniteSets

CONSTANTS
  Nodes,      \* device nodes, numbers in the order of their names
  Hotplug,    \* those that come and go
  Uints,      \* the strings strconv.ParseUint accepts, with their values
  Durations,  \* the strings time.ParseDuration accepts, in seconds
  Globs       \* well-formed patterns, with the nodes whose names they match

ASSUME ConfigAssumption ==
  /\ Nodes \subseteq Nat /\ Hotplug \subseteq Nodes
  /\ IsFiniteSet(Nodes)
  /\ \A p \in DOMAIN Globs : Globs[p] \subseteq Nodes
  /\ \A s \in DOMAIN Uints : Uints[s] \in Nat
  /\ \A s \in DOMAIN Durations : Durations[s] \in Int

VARIABLES
  nodes,    \* device nodes that exist now
  flapped,  \* history: nodes that were missing at some time of this parse
  text,     \* the lines being parsed
  num,      \* lines read
  c         \* the Config

configVars == <<nodes, flapped, text, num, c>>

ZeroConfig ==
  [key |-> 0, sym |-> [type |-> <<>>, val |-> <<>>], retry |-> 0,
   devices |-> <<>>]

\* Mutant of DefaultFile: retry comes last.
DefaultFileRetryLast ==
  << <<"key", Blank, "56">>, <<"sym", Blank, "Alt_L">>,
     <<"device", Blank, "by-id/*">>, <<"retry", Blank, "10s">> >>

\* The embedded default file, without its comments.
DefaultFile ==
  << <<"key", Blank, "56">>, <<"sym", Blank, "Alt_L">>, <<"retry", Blank, "10s">>,
     <<"device", Blank, "by-id/*">> >>

----------------------------------------------------------------------------
(* One line *)

Line(i) == TrimSpace(text[i])
Directive(i) == Cut(Line(i)).before
Argument(i) == Cut(Line(i)).after

Comment(i) == Line(i) = <<>> \/ IsPrefix(<<"#">>, Line(i))

\* Zero stands for "not set yet".
SetsKey(i) ==
  Directive(i) = <<"key">> /\ c.key = 0 /\ Argument(i) \in DOMAIN Uints
SetsSym(i) == Directive(i) = <<"sym">> /\ c.sym = ZeroConfig.sym

\* Mutant of SetsRetry: a value can be replaced.
SetsRetryAgain(i) ==
  Directive(i) = <<"retry">> /\ Argument(i) \in DOMAIN Durations
SetsRetry(i) ==
  /\ Directive(i) = <<"retry">> /\ c.retry = 0
  /\ Argument(i) \in DOMAIN Durations

AddsDevices(i) == Directive(i) = <<"device">> /\ Argument(i) \in DOMAIN Globs

\* Mutant of SymOf: what follows a word of no type is dropped.
SymOfFirstWord(arg) ==
  LET cut == Cut(arg)
  IN  IF cut.before \in {<<"key">>, <<"mouse">>} /\ cut.found
        THEN [type |-> cut.before, val |-> cut.after]
        ELSE [type |-> <<"key">>, val |-> cut.before]

\* The symbol's type is "key" unless the argument has two words.
SymOf(arg) ==
  LET cut == Cut(arg)
  IN  IF cut.found THEN [type |-> cut.before, val |-> cut.after]
                   ELSE [type |-> <<"key">>, val |-> arg]

\* Mutant of Listing: the matches of this directive only.
ListingOfLast(pattern) == Ascending(Globs[pattern] \cap nodes)

\* The devices after one more directive: filepath.Glob's result, the matches
\* that exist now in the order of their names, is appended to the earlier ones,
\* also those that are there already.
Listing(pattern) == c.devices \o Ascending(Globs[pattern] \cap nodes)

\* A line that is not refused changes one field, or none.
ReadLine ==
  /\ num < Len(text)
  /\ num' = num + 1
  /\ LET i == num + 1 arg == Argument(i)
     IN  \/ Comment(i) /\ UNCHANGED c
         \/ SetsKey(i) /\ c' = [c EXCEPT !.key = Uints[arg]]
         \/ SetsSym(i) /\ c' = [c EXCEPT !.sym = SymOf(arg)]
         \/ SetsRetry(i) /\ c' = [c EXCEPT !.retry = Durations[arg]]
         \/ AddsDevices(i) /\ c' = [c EXCEPT !.devices = Listing(arg)]
  /\ UNCHANGED <<nodes, flapped, text>>

\* Parse returns an error: an unknown directive, a value set twice, a value
\* that does not parse.
LineRefused ==
  /\ num < Len(text)
  /\ LET i == num + 1
     IN  ~(Comment(i) \/ SetsKey(i) \/ SetsSym(i) \/ SetsRetry(i) \/ AddsDevices(i))

Parsed == num = Len(text)

----------------------------------------------------------------------------
(* Device nodes come and go *)

NodeLeaves(n) ==
  /\ n \in nodes \cap Hotplug
  /\ nodes' = nodes \ {n}
  /\ flapped' = flapped \cup {n}
  /\ UNCHANGED <<text, num, c>>

NodeAppears(n) ==
  /\ n \notin nodes
  /\ nodes' = nodes \cup {n}
  /\ UNCHANGED <<flapped, text, num, c>>

----------------------------------------------------------------------------
(* Properties *)

\* The lines read so far with a directive; the parser has refused none.
LinesWith(d) == {i \in 1 .. num : Directive(i) = <<d>>}

\* The Config has the last value of each directive, and a directive comes
\* twice only if its earlier values were zero (config.go:81, 94, 108): no
\* value a user gave is ever replaced.
SetTwiceOnlyAfterZero ==
  /\ \A i \in LinesWith("key") :
       Uints[Argument(i)] = IF i = Max(LinesWith("key")) THEN c.key ELSE 0
  /\ \A i \in LinesWith("retry") :
       Durations[Argument(i)] = IF i = Max(LinesWith("retry")) THEN c.retry ELSE 0
  /\ \A i, j \in LinesWith("sym") : i = j

\* A node that some directive matches is among the devices unless it was
\* missing at some time of the parse, whatever the directives' order and
\* overlap, and nothing else is (config.go:120-127).
MatchesAreListed ==
  LET matched == UNION {Globs[Argument(i)] : i \in LinesWith("device")}
  IN  /\ matched \ flapped \subseteq Range(c.devices)
      /\ Range(c.devices) \subseteq matched
=============================================================================

------------------------------ MODULE Keysyms ------------------------------
(***************************************************************************)
(* The generator of the table of keysym names (internal/xdo): it reads X11 *)
(* header files line by line and replaces keysyms.go, which the next build *)
(* of the program looks names up in.                                       *)
(***************************************************************************)
EXTENDS KeysymNames

CONSTANTS
  Trees,     \* what the include directory may hold: for each header file
             \* whether it is found, and its #define lines
  Inputs     \* strings a configuration may ask for

VARIABLES
  tree,    \* the include directory
  file,    \* index of the header being read
  line,    \* lines of it that are done
  table,   \* the names found so far and their keysyms
  gpc,     \* "parse", "write", "done" or "failed"
  output,  \* keysyms.go: "old", "new", or "torn", which does not compile
  asked,   \* the last string looked up
  answer   \* its keysyms, <<>> for an error

keysymVars == <<tree, file, line, table, gpc, output, asked, answer>>

\* Mutant of HeaderFiles: the macros of XFree86 come first.
HeaderFilesSwapped ==
  <<"XF86keysym.h", "keysymdef.h", "Sunkeysym.h",
    "DECkeysym.h", "HPkeysym.h", "ap_keysym.h">>

HeaderFiles ==
  <<"keysymdef.h", "XF86keysym.h", "Sunkeysym.h",
    "DECkeysym.h", "HPkeysym.h", "ap_keysym.h">>

ASSUME TreesAssumption ==
  \A t \in Trees : \A f \in Range(HeaderFiles) :
    t[f] \in [found : BOOLEAN,
              lines : Seq([prefix : STRING, name : STRING, val : Nat])]

\* The macros of one header have one prefix, and one value each.
Unambiguous(lines, prefix) ==
  \A l, m \in Range(lines) :
    /\ l.prefix = prefix /\ l.name \notin KeysymPrefixes \cup {Blank}
    /\ l.name = m.name => l.val = m.val

\* X11's own two headers are so; those of vendors may be anything.
ASSUME HeadersAssumption ==
  \A t \in Trees : /\ Unambiguous(t["keysymdef.h"].lines, "XK_")
                   /\ Unambiguous(t["XF86keysym.h"].lines, "XF86XK_")

ASSUME InputsAssumption == Inputs \subseteq Seq(STRING)

----------------------------------------------------------------------------
(* The generator *)

Header == tree[HeaderFiles[file]]
Parsing == gpc = "parse" /\ file <= Len(HeaderFiles)

KeysymsInit ==
  /\ tree \in Trees
  /\ file = 1
  /\ line = 0
  /\ table = <<>>
  /\ gpc = "parse"
  /\ output = "old"
  /\ asked = <<>>
  /\ answer = <<>>

\* Mutant of Add: the last definition wins.
AddLast(t, name, val) ==
  [n \in DOMAIN t \cup {name} |-> IF n = name THEN val ELSE t[n]]

\* A name that is already there keeps its value.
Add(t, name, val) ==
  [n \in DOMAIN t \cup {name} |-> IF n \in DOMAIN t THEN t[n] ELSE val]

\* A macro is known by its bare name; one of XFree86 also as XF86<name>.
AddDefine(t, l) ==
  LET bare == Add(t, <<l.name>>, l.val)
  IN  IF l.prefix = "XF86XK_" THEN Add(bare, <<"XF86", l.name>>, l.val)
                              ELSE bare

\* The next #define of the header; lines defineRe does not match are skipped.
ParseDefine ==
  /\ Parsing /\ Header.found /\ line < Len(Header.lines)
  /\ Header.lines[line + 1].val <= MaxValue
  /\ table' = AddDefine(table, Header.lines[line + 1])
  /\ line' = line + 1
  /\ UNCHANGED <<tree, file, gpc, output, asked, answer>>

\* A value that does not fit, or a read error, ends the program.
ParseFails ==
  /\ Parsing /\ Header.found
  /\ gpc' = "failed"
  /\ UNCHANGED <<tree, file, line, table, output, asked, answer>>

\* The end of a header, or a header that does not exist.
NextHeader ==
  /\ Parsing
  /\ Header.found => line = Len(Header.lines)
  /\ file' = file + 1
  /\ line' = 0
  /\ UNCHANGED <<tree, table, gpc, output, asked, answer>>

\* All headers are done; a table without any name is an error.
ParsingDone ==
  /\ gpc = "parse" /\ file > Len(HeaderFiles)
  /\ gpc' = IF DOMAIN table = {} THEN "failed" ELSE "write"
  /\ UNCHANGED <<tree, file, line, table, output, asked, answer>>

\* writeKeysyms: the sorted table replaces the file, which is truncated first.
Write ==
  /\ gpc = "write"
  /\ \/ gpc' = "done" /\ output' = "new"
     \/ gpc' = "failed" /\ output' \in {output, "torn"}
  /\ UNCHANGED <<tree, file, line, table, asked, answer>>

\* A program built with the new table looks a configured string up.
Lookup(keys) ==
  /\ output = "new" /\ asked = <<>>
  /\ asked' = keys
  /\ answer' = ResolveNames(table, keys)
  /\ UNCHANGED <<tree, file, line, table, gpc, output>>

GeneratorStopped ==
  /\ gpc = "failed" \/ asked # <<>>
  /\ UNCHANGED keysymVars

KeysymsNext ==
  \/ ParseDefine \/ ParseFails \/ NextHeader \/ ParsingDone \/ Write
  \/ \E keys \in Inputs : Lookup(keys)
  \/ GeneratorStopped

KeysymsSpec == KeysymsInit /\ [][KeysymsNext]_keysymVars

----------------------------------------------------------------------------
(* Properties *)

\* The lines of the headers that exist, in the order the generator's comment
\* and headerFiles give them: keysymdef.h is the canonical one.
LinesOf(f) == IF tree[f].found THEN tree[f].lines ELSE <<>>
AllLines ==
  LinesOf("keysymdef.h") \o LinesOf("XF86keysym.h") \o LinesOf("Sunkeysym.h")
    \o LinesOf("DECkeysym.h") \o LinesOf("HPkeysym.h") \o LinesOf("ap_keysym.h")

\* The names under which a macro is known.
NamesOf(l) ==
  {<<l.name>>} \cup IF l.prefix = "XF86XK_" THEN {<<"XF86", l.name>>} ELSE {}

\* A table that is written is complete and canonical: each name of each macro
\* of each header that exists has the value of the first macro with that name
\* (gen_keysyms.go:123), whatever a later header says; nothing is written
\* after an error in the middle of a header.
FirstDefinitionWins ==
  output = "new" =>
    /\ DOMAIN table = UNION {NamesOf(AllLines[i]) : i \in DOMAIN AllLines}
    /\ \A i \in DOMAIN AllLines : \A n \in NamesOf(AllLines[i]) :
         (\A j \in 1 .. i - 1 : n \notin NamesOf(AllLines[j]))
           => table[n] = AllLines[i].val

\* Whatever vendor headers define, the macros of keysymdef.h keep their own
\* keysyms under each spelling the documentation allows, and those of XFree86
\* under XF86<name>, provided these two headers are unambiguous.
CoreNamesKeepKeysyms ==
  output = "new" =>
    /\ \A l \in Range(LinesOf("keysymdef.h")) :
         \A p \in {<<>>, <<"XK_">>, <<"XKB_KEY_">>} :
           LookupKeysym(table, p \o <<l.name>>) = l.val
    /\ \A l \in Range(LinesOf("XF86keysym.h")) :
         \A p \in {<<>>, <<"XKB_KEY_">>} :
           LookupKeysym(table, p \o <<"XF86", l.name>>) = l.val

\* The maximal stretches of a string between "+", without blanks around them.
IsStretch(s, i, j) ==
  /\ i <= j /\ \A k \in i .. j : s[k] # "+"
  /\ s[i] # Blank /\ s[j] # Blank
  /\ \A k \in 1 .. i - 1 : s[k] = Blank \/ \E m \in k .. i : s[m] = "+"
  /\ \A k \in j + 1 .. Len(s) : s[k] = Blank \/ \E m \in j .. k : s[m] = "+"

Stretches(s) ==
  {st \in (DOMAIN s) \X (DOMAIN s) : IsStretch(s, st[1], st[2])}

\* A sequence resolves exactly when it has a name and every name of it is
\* known, and then to one keysym for each name: blanks and doubled or trailing
\* "+" never turn into a name, and no name is dropped (xdo.go:200-217).
SequenceKeepsEveryName ==
  asked # <<>> =>
    LET names == Stretches(asked)
        known == \A st \in names :
                   LookupKeysym(table, SubSeq(asked, st[1], st[2])) # Unknown
    IN  Len(answer) = IF known THEN Cardinality(names) ELSE 0

\* xdo.go:12-13: "Names match the usual X11 / xkbcommon macros with optional
\* prefixes stripped (XKB_KEY_, XK_, XF86XK_)".
MacrosMeanThemselves ==
  output = "new" =>
    \A f \in {"keysymdef.h", "XF86keysym.h"} : \A l \in Range(LinesOf(f)) :
      LookupKeysym(table, <<l.prefix, l.name>>) = l.val
=============================================================================

------------------------------ MODULE MCStartup ------------------------------
(***************************************************************************)
(* Startup for TLC: a keyboard, a mouse, a directory that a cut glob        *)
(* matches, and files with every kind of line.                             *)
(***************************************************************************)
EXTENDS Startup

\* 1 and 2 are input devices, 3 is the directory they are in.
MCNodes == {1, 2, 3}
MCCaps ==
  1 :> (EvKey :> {5, 28, 56, 767} @@ EvMsc :> {4}) @@ 2 :> (EvRel :> {0, 1})

\* 768 and 823 are beyond the kernel's keys and within the array, 824 is
\* beyond both, 65592 is 56 in 16 bits.
MCUints ==
  <<"0">> :> 0 @@ <<"5">> :> 5 @@ <<"56">> :> 56 @@ <<"767">> :> 767
    @@ <<"823">> :> 823 @@ <<"824">> :> 824 @@ <<"65592">> :> 65592
MCInts ==
  <<"-1">> :> -1 @@ <<"0">> :> 0 @@ <<"2">> :> 2 @@ <<"255">> :> 255
    @@ <<"256">> :> 256
MCDurations == <<"0">> :> 0 @@ <<"10s">> :> 10 @@ <<"-1s">> :> -1
MCGlobs ==
  <<"by-id/*">> :> {1, 2} @@ <<"by-id/kbd">> :> {1} @@ <<"by-id">> :> {3}
    @@ <<"nothing">> :> {} @@ <<>> :> {}
MCShorter ==
  "56" :> {"5"} @@ "Alt_L" :> {"Alt"} @@ "10s" :> {"10"} @@ "by-id/*" :> {"by-id"}

MCMaxValue == 9
MCTable == <<"Alt_L">> :> 1 @@ <<"Clear">> :> 2

Directives(d, args) == {<<d, " ">> \o a : a \in args}
Keys == Directives("key", {<<"0">>, <<"56">>, <<"767">>, <<"823">>, <<"824">>,
                           <<"65592">>, <<"many">>})
Syms ==
  Directives("sym", {<<"Alt_L">>, <<"XK_", "Alt_L", "+", "Clear">>, <<"alt_l">>,
                     <<"Alt_L", " ", "+", " ", "Clear">>, <<" ", "Alt_L">>,
                     <<"key", " ", "Alt_L", "+", "Clear">>,
                     <<"key", " ", "Clear", " ", "+", " ", "Alt_L">>}
                    \cup {<<"mouse", " ", n>> : n \in {"-1", "0", "2", "256", "two"}})

\* One file for each key and each symbol, and files with every other kind of
\* line: comments, doubled directives, overlapping and bad globs.
MCFiles ==
  {<<k, <<"sym", " ", "Alt_L">>, <<"device", " ", "by-id/*">> >> : k \in Keys}
    \cup {<< <<"key", " ", "56">>, s, <<"device", " ", "by-id/kbd">> >> : s \in Syms}
    \cup {<< <<"key", " ", k>>, <<"key", " ", "56">> >> : k \in {"0", "5"}}
    \cup {<< <<"retry", " ", r>>, <<"retry", " ", "10s">> >> : r \in {"0", "10s", "-1s"}}
    \cup {<< <<"sym", " ", "Clear">>, <<"sym", " ", "Alt_L">> >>,
          << <<"#", " ", "x">>, <<" ">>, <<" ", "key", " ", "56">>, <<"nope", " ", "1">> >>,
          << <<"retry", " ", "10s">>, <<"key", " ", "56">>,
             <<"device", " ", "by-id/*">>, <<"device", " ", "by-id/kbd">> >>,
          << <<"device">>, <<"device", " ", "nothing">>, <<"device", " ", "[">> >>}
=============================================================================

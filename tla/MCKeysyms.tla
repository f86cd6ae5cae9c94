----------------------------- MODULE MCKeysyms -----------------------------
(***************************************************************************)
(* Keysyms for TLC: headers with names they share and names they do not.   *)
(***************************************************************************)
EXTENDS Keysyms

MCMaxValue == 9

Define(p, n, v) == [prefix |-> p, name |-> n, val |-> v]
Missing == {[found |-> FALSE, lines |-> <<>>]}
Found(texts) == {[found |-> TRUE, lines |-> t] : t \in texts}

\* "Clear" is a macro of keysymdef.h, of XF86keysym.h and of Sunkeysym.h, each
\* with a keysym of its own; one header has a value that does not fit.
MCTrees ==
  {[f \in {"keysymdef.h", "XF86keysym.h", "Sunkeysym.h", "DECkeysym.h",
           "HPkeysym.h", "ap_keysym.h"} |->
      CASE f = "keysymdef.h" -> core [] f = "XF86keysym.h" -> xf86
        [] f = "Sunkeysym.h" -> sun [] OTHER -> rest] :
     core \in Missing \cup Found({<<Define("XK_", "Alt_L", 1),
                                    Define("XK_", "Clear", 2)>>}),
     xf86 \in Missing \cup Found({<<Define("XF86XK_", "Mute", 3)>>,
                                  <<Define("XF86XK_", "Mute", 3),
                                    Define("XF86XK_", "Clear", 4)>>}),
     sun \in Missing \cup Found({<<Define("SunXK_", "Clear", 5),
                                   Define("SunXK_", "Props", 10)>>,
                                 <<Define("SunXK_", "Props", 6)>>}),
     rest \in Missing \cup Found({<<Define("DXK_", "Alt_L", 7)>>})}

MCInputs ==
  {<<"Alt_L">>, <<"XK_", "Clear", "+", "XKB_KEY_", "XF86", "Mute">>,
   <<" ", "Alt_L", " ", "+", " ", "Mute", " ">>, <<"+", "Alt_L", "+", "+">>,
   <<"+">>, <<" ">>, <<"XKB_KEY_", "XK_", "Alt_L">>, <<"alt_l">>,
   <<"Alt_L", "+", " ", "+", "Alt_L">>, <<"XK_">>}
=============================================================================

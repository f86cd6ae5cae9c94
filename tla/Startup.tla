------------------------------ MODULE Startup ------------------------------
(***************************************************************************)
(* From the command line to the running service (run in ptt-fix.go and     *)
(* newSender in handle.go): the configuration file and its creation by     *)
(* -createconfig, which may be cut short at any time, the choice between   *)
(* file and default, the parse, the check of each device and the sender.   *)
(* Module PttFix takes over once listeners and sender work.                *)
(***************************************************************************)
EXTENDS Config, Evdev, KeysymNames

CONSTANTS
  Table,    \* the table of keysym names
  Ints,     \* the strings strconv.ParseInt accepts, with their values
  Files,    \* what users have written to the configuration file
  Shorter   \* beginnings of the words of the default file

\* A beginning of the default file's glob, or nothing, matches at most
\* directories, no input device.
ASSUME StartupAssumption ==
  /\ \A s \in DOMAIN Ints : Ints[s] \in Int
  /\ Files \subseteq Seq(Seq(STRING))
  /\ \A w \in {"56", "Alt_L", "10s", "by-id/*"} : Shorter[w] \subseteq STRING \ {Blank}
  /\ \A arg \in {<<>>} \cup {<<w>> : w \in Shorter["by-id/*"]} :
       arg \in DOMAIN Globs => Globs[arg] \cap DOMAIN Caps = {}

VARIABLES
  given,   \* the path of the configuration file is not the default one
  disk,    \* that file
  writing, \* a -createconfig has truncated it and has not written it yet
  spc,     \* the service: "down", "parse" or "start"
  torn,    \* history: it has read a file that a -createconfig left unfinished
  lst,     \* its listeners: "new", "waiting", "ignored" or "listening"
  sender,  \* its sender
  status   \* how it ended last: "none", "ok", "failed" or "panic"

fileVars == <<given, disk, writing>>
serviceVars == <<spc, torn, lst, sender, status>>
startupVars == <<configVars, fileVars, serviceVars>>

File(lines, isTorn) == [state |-> "file", lines |-> lines, torn |-> isTorn]
NoFile(why) == [state |-> why, lines |-> <<>>, torn |-> FALSE]
NoSender == [type |-> "none", syms |-> <<>>, val |-> 0, detail |-> 0]

StartupInit ==
  /\ nodes \in SUBSET Nodes /\ Nodes \ nodes \subseteq Hotplug
  /\ flapped = {} /\ text = <<>> /\ num = 0 /\ c = ZeroConfig
  /\ given \in BOOLEAN
  /\ disk \in {NoFile("missing"), NoFile("denied")}
               \cup {File(lines, FALSE) : lines \in Files}
  /\ writing = FALSE
  /\ spc = "down" /\ torn = FALSE /\ lst = <<>> /\ sender = NoSender
  /\ status = "none"

----------------------------------------------------------------------------
(* -createconfig, in a process of its own, with the same -config *)

\* The last line of a file that was cut short.
Cuts(l) == {<<"cut">>, <<l[1]>>} \cup {<<l[1], Blank, w>> : w \in Shorter[l[3]]}

\* What can be left of the default file when its write fails or is killed.
Truncations ==
  {SubSeq(DefaultFile, 1, k) : k \in 0 .. Len(DefaultFile) - 1}
    \cup UNION {{Append(SubSeq(DefaultFile, 1, k - 1), l) :
                   l \in Cuts(DefaultFile[k])} : k \in DOMAIN DefaultFile}

\* os.Create truncates a file that exists.
CreateFile ==
  /\ ~writing /\ disk.state # "denied"
  /\ writing' = TRUE
  /\ disk' = File(<<>>, TRUE)
  /\ UNCHANGED <<configVars, given, serviceVars>>

\* WriteString succeeds, fails, or is killed; the error of the deferred Close
\* is lost.
WriteFile ==
  /\ writing
  /\ disk' \in {File(DefaultFile, FALSE)} \cup {File(l, TRUE) : l \in Truncations}
  /\ writing' = FALSE
  /\ UNCHANGED <<configVars, given, serviceVars>>

----------------------------------------------------------------------------
(* The service *)

\* The process ends, and with it everything it has in memory.
Ends(st) ==
  /\ spc' = "down"
  /\ status' = st
  /\ torn' = FALSE /\ lst' = <<>> /\ sender' = NoSender
  /\ text' = <<>> /\ num' = 0 /\ c' = ZeroConfig /\ flapped' = {}
  /\ UNCHANGED <<nodes, fileVars>>

\* Parse begins on these lines.
Begins(lines, isTorn) ==
  /\ spc' = "parse"
  /\ torn' = isTorn
  /\ text' = lines
  /\ flapped' = Nodes \ nodes
  /\ UNCHANGED <<nodes, num, c, fileVars, lst, sender, status>>

\* config.Load, and the default file instead of a missing default path.
Start ==
  /\ spc = "down"
  /\ \/ disk.state = "file" /\ Begins(disk.lines, disk.torn)
     \/ disk.state = "missing" /\ ~given /\ Begins(DefaultFile, FALSE)
     \/ disk.state = "missing" /\ given /\ Ends("failed")
     \/ disk.state = "denied" /\ Ends("failed")

ParseLine ==
  /\ spc = "parse" /\ ReadLine
  /\ UNCHANGED <<fileVars, serviceVars>>

ParseFails == spc = "parse" /\ LineRefused /\ Ends("failed")

\* The scanner stops at a read error, or at a line too long for it.
ReadFails == spc = "parse" /\ Ends("failed")

\* A listener is started for each entry of Devices, and handle beside them.
ParseDone ==
  /\ spc = "parse" /\ Parsed
  /\ spc' = "start"
  /\ lst' = [i \in DOMAIN c.devices |-> "new"]
  /\ UNCHANGED <<configVars, fileVars, torn, sender, status>>

\* uint16(c.Key)
Keycode == c.key % 65536

\* What HasEventCode says of the device of listener i.
Check(i) == HasEventCode(DeviceOf(c.devices[i]), EvKey, Keycode)

Becomes(i, s) ==
  /\ lst' = [lst EXCEPT ![i] = s]
  /\ UNCHANGED <<configVars, fileVars, spc, torn, sender, status>>

Starting(i, s) == spc = "start" /\ i \in DOMAIN lst /\ lst[i] = s

\* The device opens; a panic in any listener ends the process.
CheckDevice(i) ==
  /\ Starting(i, "new")
  /\ c.devices[i] \in nodes \cap DOMAIN Caps
  /\ \/ Check(i) = "yes" /\ Becomes(i, "listening")
     \/ Check(i) = "no" /\ Becomes(i, "ignored")
     \/ Check(i) = "panic" /\ Ends("panic")

\* It is not an input device, or opening it fails, for now or for good; see
\* module Listener.
OpenFails(i) ==
  /\ Starting(i, "new")
  /\ \/ Becomes(i, "ignored")
     \/ c.retry > 0 /\ Becomes(i, "waiting")

OpenAgain(i) == Starting(i, "waiting") /\ Becomes(i, "new")

\* Every listener has given its device up.
NoDevices ==
  /\ spc = "start" /\ \A i \in DOMAIN lst : lst[i] = "ignored"
  /\ Ends("failed")

\* Mutant of ValidButton: no upper bound.
ValidButtonAnyPositive(button) == button >= 1
ValidButton(button) == button >= 1 /\ button <= 255

\* byte(button), which ButtonDown and ButtonUp put into their requests.
Detail(button) == button % 256

\* newSender, for the name of a key or the number of a mouse button.
Senders(sym) ==
  LET syms == ResolveNames(Table, sym.val)
      ints == {Ints[s] : s \in {sym.val} \cap DOMAIN Ints}
  IN  IF sym.type = <<"key">> /\ syms # <<>>
        THEN {[NoSender EXCEPT !.type = "key", !.syms = syms]}
      ELSE IF sym.type = <<"mouse">>
        THEN {[NoSender EXCEPT !.type = "mouse", !.val = b, !.detail = Detail(b)] :
                b \in {b \in ints : ValidButton(b)}}
      ELSE {}

NewSender ==
  /\ spc = "start" /\ sender = NoSender
  /\ sender' \in Senders(c.sym)
  /\ UNCHANGED <<configVars, fileVars, spc, torn, lst, status>>

\* The symbol is no good, or the X server is not there.
SenderFails == spc = "start" /\ sender = NoSender /\ Ends("failed")

\* A signal, a panic or an error of later: module PttFix.
Stop == spc # "down" /\ \E st \in {"ok", "failed"} : Ends(st)

StartupNext ==
  \/ CreateFile \/ WriteFile \/ Start
  \/ ParseLine \/ ParseFails \/ ReadFails \/ ParseDone
  \/ \E i \in DOMAIN lst : CheckDevice(i) \/ OpenFails(i) \/ OpenAgain(i)
  \/ NoDevices \/ NewSender \/ SenderFails \/ Stop
  \/ \E n \in Nodes :
       /\ NodeLeaves(n) \/ NodeAppears(n)
       /\ UNCHANGED <<fileVars, serviceVars>>

StartupSpec == StartupInit /\ [][StartupNext]_startupVars

----------------------------------------------------------------------------
(* Properties *)

\* A file that -createconfig has left unfinished, after a full disk, a kill or
\* an error of Close that nobody sees, never makes a service that listens to
\* what the file only seems to say, such as "key 5" of "key 56": the devices
\* come last in the default file (ptt-fix.go:69-77, default:42).
TornFileNeverListens == torn => \A i \in DOMAIN lst : lst[i] # "listening"

\* The check of a device, from the requests of init over the arrays and their
\* lengths to the test of one bit, says of the key the listener will compare
\* events with whether the device has it, and panics for no key the kernel
\* knows (evdev.go:211-213, KEY_MAX is 767).
CheckMeansCapability ==
  spc = "start" =>
    \A i \in DOMAIN lst : c.devices[i] \in DOMAIN Caps =>
      LET caps == Caps[c.devices[i]]
          has == EvKey \in DOMAIN caps /\ Keycode \in caps[EvKey]
      IN  /\ Check(i) = "yes" <=> has
          /\ Check(i) = "panic" => Keycode > 767

\* The byte in the requests of a mouse sender is the number that was
\* configured: no number is cut to a byte, and none is 0 (xdo.go:343-366).
ButtonIsConfigured ==
  sender.type = "mouse" =>
    sender.detail = sender.val /\ sender.detail \in 1 .. 255

\* A sender stands for all that a sym line says: for the button after the word
\* mouse, or for every name of the sequence, which may follow the word key.  A
\* sequence with blanks, cut at the first of them like any argument of two
\* words, never makes a sender of a part of its names (config.go:98, handle.go).
SenderMeansLine ==
  sender # NoSender =>
    \E i \in LinesWith("sym") :
      LET arg == Argument(i)
          rest == SubSeq(arg, 3, Len(arg))
      IN  \/ /\ sender.type = "mouse" /\ IsPrefix(<<"mouse", Blank>>, arg)
             /\ rest \in DOMAIN Ints /\ sender.val = Ints[rest]
          \/ /\ sender.type = "key"
             /\ sender.syms =
                  ResolveNames(Table, IF IsPrefix(<<"key", Blank>>, arg) THEN rest ELSE arg)
=============================================================================

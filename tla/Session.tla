------------------------------ MODULE Session ------------------------------
(***************************************************************************)
(* One X server and the service on it, process after process: only         *)
(* os.Interrupt is caught, so that SIGTERM, SIGKILL or a panic ends a      *)
(* process at any step without Close, and systemd or the user starts the   *)
(* next one (ptt-fix.service: Restart=on-failure).  The server keeps what  *)
(* a process leaves: its keyboard map, and the keys pressed through XTEST. *)
(* A request the process has sent is carried out before its successor      *)
(* connects, or never.                                                     *)
(***************************************************************************)
EXTENDS Talk

VARIABLES
  leftover,  \* history: keycodes that hold a scratch of an earlier process
  foreign    \* history: another client has changed the map since a process
             \* connected while no key was pressed

sessionVars == <<talkVars, leftover, foreign>>

SessionInit == TalkInit /\ leftover = {} /\ foreign = FALSE

\* A scratch is no leftover any more once its row has been written over.
Remains(set) == {k \in set : server'[k] = server[k]}

\* A step of the process that runs.
ProcessStep ==
  /\ TalkStep
  /\ leftover' = Remains(leftover)
  /\ foreign' = (foreign /\ ~(xpc = "new" /\ down = {}))

OtherClientStep ==
  /\ xpc # "closed" /\ OtherClient
  /\ leftover' = Remains(leftover)
  /\ foreign' = TRUE

\* The next process, with nothing of the last one but what the server has.
NewProcess ==
  /\ local' = server
  /\ scratches' = [s \in Wanted |-> NoKeycode]
  /\ xpc' = "new" /\ todo' = {} /\ out' = <<>> /\ result' = "none"
  /\ alive' = TRUE /\ changed' = {} /\ mine' = {} /\ unrestored' = FALSE
  /\ call' = "bind"
  /\ assigned' = [n \in DOMAIN Keys |-> MinKeycode]
  /\ held' = <<>> /\ bpc' = "idle" /\ kcs' = <<>> /\ i' = 0
  /\ failed' = FALSE /\ before' = {} /\ repressed' = FALSE
  /\ leftover' = leftover \cup mine
  /\ UNCHANGED <<server, down, foreign>>

Kill == xpc \notin {"new", "closed"} /\ NewProcess

\* After an exit, which has closed the connection.
Restart == xpc = "closed" /\ NewProcess

SessionNext == ProcessStep \/ OtherClientStep \/ Kill \/ Restart

SessionSpec == SessionInit /\ [][SessionNext]_sessionVars

----------------------------------------------------------------------------
(* Properties *)

\* The scratches of killed, broken and failed processes do not add up: each
\* process finds the ones of its predecessors and uses them, so that however
\* often the service restarts a name never occupies a second keycode.
RestartsDoNotLeak ==
  \A j, k \in mine \cup leftover : server[j].base = server[k].base => j = k

\* A key that a process has left pressed when it was killed, lost its
\* connection, failed, or closed and took the binding away, is released by
\* the first Up of a later process, which holds nothing and resolves the names
\* anew, unless another client has changed the map (xdo.go:257-268).
UpReleasesForPredecessors ==
  [][bpc = "release" /\ bpc' = "idle" /\ xpc' = "idle" /\ ~foreign
       => down' = {}]_sessionVars
=============================================================================

------------------------------- MODULE PttFix -------------------------------
(***************************************************************************)
(* The running program (run and main in ptt-fix.go): one listener per      *)
(* device, the handler, the unbuffered channel between them, the two error *)
(* groups that supervise them, the interrupt signal and the exit status.   *)
(***************************************************************************)
EXTENDS Listener, Handler

VARIABLES
  g1,           \* the goroutine waiting for liseg: "wait" or "done"
  interrupted,  \* history: SIGINT arrived
  status        \* "running", "ok" (exit 0) or "failed" (exit 1)

processVars == <<g1, interrupted, status>>
vars == <<ctx, egErr, deviceVars, listenerVars, handlerVars, processVars>>

TypeOK ==
  /\ ContextTypeOK
  /\ DeviceTypeOK
  /\ ListenerTypeOK
  /\ HandlerTypeOK
  /\ g1 \in {"wait", "done"}
  /\ interrupted \in BOOLEAN
  /\ status \in {"running", "ok", "failed"}

Init ==
  /\ ContextInit
  /\ DeviceInit
  /\ ListenerInit
  /\ HandlerInit
  /\ g1 = "wait"
  /\ interrupted = FALSE
  /\ status = "running"

----------------------------------------------------------------------------
\* Mutant of Deliver: the event is sent once more.
DeliverAgain(d) ==
  /\ lpc[d] = "send"
  /\ Receive(d, pending[d])
  /\ UNCHANGED <<lpc, pending>>
  /\ UNCHANGED <<ctx, egErr, deviceVars, lerr, lisErr, stray, processVars>>

(* The listener of d sends, the handler receives. *)
Deliver(d) ==
  /\ lpc[d] = "send"
  /\ Receive(d, pending[d])
  /\ Goto(d, "read")
  /\ pending' = [pending EXCEPT ![d] = "none"]
  /\ UNCHANGED <<ctx, egErr, deviceVars, lerr, lisErr, stray, processVars>>

\* Mutants of ListenersDone: the first listener that returns ends the group;
\* the group's error is ignored; no error is made up when there is none.
ListenersDoneOnFirst ==
  /\ g1 = "wait" /\ \E d \in Devices : lpc[d] = "done"
  /\ g1' = "done"
  /\ GroupReturn(IF lisErr # "nil" THEN lisErr ELSE "noDevices")
  /\ UNCHANGED <<deviceVars, listenerVars, handlerVars, interrupted, status>>
ListenersDoneBlindly ==
  /\ g1 = "wait" /\ AllListenersDone
  /\ g1' = "done"
  /\ GroupReturn("noDevices")
  /\ UNCHANGED <<deviceVars, listenerVars, handlerVars, interrupted, status>>
ListenersDoneSilently ==
  /\ g1 = "wait" /\ AllListenersDone
  /\ g1' = "done"
  /\ IF lisErr # "nil" THEN GroupReturn(lisErr) ELSE UNCHANGED <<ctx, egErr>>
  /\ UNCHANGED <<deviceVars, listenerVars, handlerVars, interrupted, status>>

\* liseg.Wait returns.
ListenersDone ==
  /\ g1 = "wait" /\ AllListenersDone
  /\ g1' = "done"
  /\ GroupReturn(IF lisErr # "nil" THEN lisErr ELSE "noDevices")
  /\ UNCHANGED <<deviceVars, listenerVars, handlerVars, interrupted, status>>

\* Mutant of Exit: a lack of devices is no failure either.
ExitForgives ==
  /\ status = "running"
  /\ g1 = "done" /\ hpc = "done"
  /\ status' = IF egErr \in {"nil", "canceled", "noDevices"} THEN "ok" ELSE "failed"
  /\ UNCHANGED <<ctx, egErr, deviceVars, listenerVars, handlerVars, g1,
                 interrupted>>

\* eg.Wait returns and main exits: context.Canceled is no failure.
Exit ==
  /\ status = "running"
  /\ g1 = "done" /\ hpc = "done"
  /\ status' = IF egErr \in {"nil", "canceled"} THEN "ok" ELSE "failed"
  /\ UNCHANGED <<ctx, egErr, deviceVars, listenerVars, handlerVars, g1,
                 interrupted>>

\* SIGINT: the signal context is cancelled unless the scope already was.
Interrupt ==
  /\ status = "running" /\ ~interrupted
  /\ interrupted' = TRUE
  /\ IF Canceled THEN UNCHANGED ctx ELSE ctx' \in SignalCauses
  /\ UNCHANGED <<egErr, deviceVars, listenerVars, handlerVars, g1, status>>

----------------------------------------------------------------------------
ListenerStep(d) ==
  ListenerNext(d) /\ UNCHANGED <<handlerVars, processVars>>

HandlerStep ==
  HandlerNext /\ UNCHANGED <<deviceVars, listenerVars, processVars>>

DeviceStep(d) ==
  /\ status = "running"
  /\ DeviceNext(d)
  /\ UNCHANGED <<ctx, egErr, listenerVars, handlerVars, processVars>>

\* The process is gone.
Terminated == status # "running" /\ UNCHANGED vars

\* The steps of the program's own goroutines.
ProgramStep ==
  \/ \E d \in Devices : ListenerStep(d) \/ Deliver(d)
  \/ HandlerStep
  \/ ListenersDone \/ Exit

Next ==
  \/ ProgramStep
  \/ \E d \in Devices : DeviceStep(d)
  \/ Interrupt
  \/ Terminated

Spec == Init /\ [][Next]_vars

(***************************************************************************)
(* Fairness.  The Go scheduler runs every goroutine that can run, the X    *)
(* server answers, and timers fire: weak fairness of each goroutine.  A    *)
(* select with several ready cases picks one at random, so a case that is  *)
(* ready again and again is taken, and the senders blocked on a channel    *)
(* are served first come, first served: strong fairness of those cases.    *)
(* The devices and the signal are never obliged to act.                    *)
(***************************************************************************)
Fairness ==
  /\ WF_vars(HandlerStep)
  /\ SF_vars(HandleCanceled /\ HandlerStep)
  /\ WF_vars(ListenersDone)
  /\ WF_vars(Exit)
  /\ \A d \in Devices :
       /\ WF_vars(ListenerStep(d))
       /\ WF_vars(WatcherFires(d) /\ ListenerStep(d))
       /\ SF_vars(SendCanceled(d) /\ ListenerStep(d))
       /\ SF_vars(WaitCanceled(d) /\ ListenerStep(d))
       /\ SF_vars(Deliver(d))

FairSpec == Spec /\ Fairness

(***************************************************************************)
(* The same fairness without ENABLED: in its place is a guard, a condition *)
(* under which the step can be taken.  The proofs of liveness assume this. *)
(***************************************************************************)
Listening(d) == lpc[d] \in {"check", "read", "send"}

FairHandler ==
  /\ \/ []<>~(hpc \in {"open", "apply"} \/ (hpc = "select" /\ Canceled))
     \/ []<><<HandlerStep>>_vars
  /\ <>[]~(hpc = "select" /\ Canceled) \/ []<><<HandleCanceled /\ HandlerStep>>_vars

FairSupervision ==
  /\ []<>~(g1 = "wait" /\ AllListenersDone) \/ []<><<ListenersDone>>_vars
  /\ []<>~(status = "running" /\ g1 = "done" /\ hpc = "done") \/ []<><<Exit>>_vars

FairListener(d) ==
  /\ []<>~(Canceled /\ lpc[d] # "done") \/ []<><<ListenerStep(d)>>_vars
  /\ \/ []<>~(Canceled /\ Listening(d) /\ file[d] \in {"open", "dead"})
     \/ []<><<WatcherFires(d) /\ ListenerStep(d)>>_vars
  /\ <>[]~(Canceled /\ lpc[d] = "send") \/ []<><<SendCanceled(d) /\ ListenerStep(d)>>_vars
  /\ <>[]~(Canceled /\ lpc[d] = "wait") \/ []<><<WaitCanceled(d) /\ ListenerStep(d)>>_vars
  /\ <>[]~(lpc[d] = "send" /\ hpc = "select") \/ []<><<Deliver(d)>>_vars

\* No goroutine of the program is blocked where a guard says it is not: what
\* FairSpec promises of enabled steps it promises whenever a guard holds.
GuardedFairness ==
  /\ FairHandler /\ FairSupervision
  /\ \A d \in Devices : FairListener(d)

----------------------------------------------------------------------------
(* The pipeline from a device to the X server *)

\* Transitions of d that were read or can still be read, oldest first.
Applying(d) == IF hpc = "apply" /\ hev.dev = d THEN <<hev.type>> ELSE <<>>
Sending(d) == IF pending[d] # "none" THEN <<pending[d]>> ELSE <<>>
InFlight(d) == Applying(d) \o Sending(d) \o TransitionsOf(kq[d])

\* The newest transition of d the program knows of.
Latest(d) ==
  LET q == <<applied[d]>> \o InFlight(d) IN q[Len(q)]

\* As long as events are injected, the end of each device's pipeline is the
\* physical state of its key, unless the last transition was lost to an
\* overflow, a disconnect or a closed file: listen forgets no transition and
\* handle injects them in the order of the reads.
PipelineEndsAtKey ==
  hpc # "done" => \A d \in Devices : lost[d] \/ Latest(d) = phys[d]

\* Once every transition has been injected and none was lost, the X server
\* agrees with the devices whenever these agree with each other: no key is
\* left stuck by the order in which listeners reach the channel.
SettledKeyAgrees ==
  (/\ hpc = "select"
   /\ \A d \in Devices : ~lost[d] /\ InFlight(d) = <<>>)
    => \A s \in Transitions :
         {phys[d] : d \in Devices} = {s} => pressed = (s = "down")

Promise == INSTANCE PushToTalk WITH
  key <- phys,
  inflight <- [d \in Devices |-> InFlight(d)],
  talk <- pressed,
  serving <- hpc # "done"

\* The program does what PushToTalk promises: injections follow the order of
\* the key's transitions, each happens at most once, and losses take the
\* newest events, through every interleaving of listeners and handler.
ImplementsPushToTalk == Promise!Spec

----------------------------------------------------------------------------
(* Supervision *)

\* Where errors come from, the inductive form of the next two properties: an
\* error the groups hold is context.Canceled only after an interrupt, a
\* goroutine that has returned has left an error behind, and "no devices
\* available" can be the cause of the scope only when no listener is left to
\* return it as its own.
ErrorInv ==
  /\ "canceled" \in {ctx, egErr, lisErr} => interrupted
  /\ g1 = "done" \/ hpc = "done" => egErr # "nil"
  /\ status = "ok" => interrupted
  /\ "noDevices" \in {ctx, egErr} => AllListenersDone /\ lisErr = "nil"
  /\ lisErr # "noDevices"
  /\ lisErr = "nil" => \A d \in Devices : lpc[d] = "done" => lerr[d] = "nil"

\* Exit status 0 means that the user interrupted the program: no device or
\* injection error, and no lack of devices, ends in a clean exit that keeps
\* the service from being restarted (ptt-fix.go:127, ptt-fix.service:10).
CleanExitMeansInterrupted == status = "ok" => interrupted

\* Who holds what, the inductive form of the next and of ExitReleasesAll: a
\* file is closed under a reader by a cancelled scope only, a listener outside
\* of listen has none, those it has left open without an owner are files of
\* which an ioctl of init failed, as evdev.Open returns them with the error
\* (evdev.go:32) and listen defers Close later (listen.go:55), and the process
\* ends after both goroutines of the group.
FileInv ==
  /\ \A d \in Devices :
       /\ file[d] = "closed" => Canceled
       /\ lpc[d] \in {"open", "wait", "done"} => file[d] = "none"
  /\ stray \subseteq {"init"}
  /\ hpc \in {"open", "done"} => ~conn
  /\ g1 = "done" => AllListenersDone
  /\ status # "running" => g1 = "done" /\ hpc = "done"

\* A listener sees its file closed only under a cancelled scope: the branch
\* of listen.go:81 that ignores the device for good is never taken, as only
\* the watcher of line 57 closes a file that is being read.
NoReadOfClosedFile ==
  \A d \in Devices : file[d] = "closed" => Canceled

\* "no devices available" is reported only when every device was ignored on
\* purpose; an error of any listener is reported instead of it, and an
\* interrupt before the last listener gave up is too.
NoDevicesMeansAllIgnored ==
  egErr = "noDevices" => \A d \in Devices : lpc[d] = "done" /\ lerr[d] = "nil"

\* When the program ends by itself it has closed every device that was ready
\* to be read and its X connection, which is what restores the keyboard map,
\* and nothing it has read is still waiting to be injected.  Only files of
\* which an ioctl of init failed are left to the garbage collector.
ExitReleasesAll ==
  status # "running" =>
    /\ ~conn /\ hev = NoEvent
    /\ \A d \in Devices : file[d] = "none" /\ pending[d] = "none"
    /\ stray \subseteq {"init"}

\* The trouble of one device is its own: while the scope is live, it is
\* cancelled only by an interrupt, by the handler's return, or when no
\* listener is left (liseg has no context of its own, ptt-fix.go:103).
DeviceFailureIsolated ==
  [][(ctx = "live" /\ ctx' # "live") =>
       \/ interrupted' # interrupted
       \/ hpc' = "done"
       \/ AllListenersDone]_vars

\* With retries configured, a listener that reads a capable device gives it
\* up only under a cancelled scope (listen.go:85-91, default:34).
ReaderRetries ==
  [][RetryOn =>
       \A d \in Devices :
         (lpc[d] \in {"read", "send"} /\ lpc'[d] = "done") => Canceled]_vars

\* default:34-36: a device that "has a potentially temporary error, such as
\* having been disconnected from the computer" is retried.
DisconnectedIsRetried ==
  [][RetryOn =>
       \A d \in Devices :
         (~plugged[d] /\ lpc[d] # "done" /\ lpc'[d] = "done") => Canceled]_vars

\* No goroutine waits for one that waits for it: once the scope is cancelled,
\* some goroutine can move until the process has exited, without any help
\* from a device (the select of each blocked send and receive has a Done case).
NeverWedged == Canceled /\ status = "running" => ENABLED ProgramStep

\* Whatever ends the scope, an interrupt or an error, ends the process:
\* no listener stays blocked on its device, its send or its retry timer.
CancelLeadsToExit == Canceled ~> status # "running"

\* A listener with nobody left beside it does not keep the process alive.
NoListenerLeadsToExit == AllListenersDone ~> status # "running"

\* A listener never stays in its send: the handler takes the event or the
\* scope is cancelled, whatever the other listeners send.
SendCompletes == \A d \in Devices : lpc[d] = "send" ~> lpc[d] # "send"
=============================================================================

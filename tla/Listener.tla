------------------------------ MODULE Listener ------------------------------
(***************************************************************************)
(* One goroutine per device (listen.go): Run calls listen again after a    *)
(* retryable failure, listen opens the device, checks that it can send the *)
(* configured key, and turns its key events into sends on the channel      *)
(* handle receives from.  The send itself is a rendezvous and belongs to   *)
(* module PttFix.                                                          *)
(***************************************************************************)
EXTENDS Context, InputDevice

CONSTANT RetryOn   \* Listener.Retry > 0

ASSUME RetryAssumption == RetryOn \in BOOLEAN

VARIABLES
  lpc,      \* where the listener of d is
  pending,  \* the event its select is trying to send, "none" outside "send"
  lerr,     \* what Run returned, meaningful once lpc[d] = "done"
  lisErr,   \* first non-nil error kept by liseg
  stray     \* history: where listen has returned without closing its file

listenerVars == <<lpc, pending, lerr, lisErr, stray>>

\* "open": about to call evdev.Open; "init": the file is open, its ioctls are
\* not done; "check": about to call HasEventCode, the watcher goroutine is
\* running; "read": in NextEvent; "send": in a select of lines 101 and 107;
\* "wait": in Run's select.
Locations == {"open", "init", "check", "read", "send", "wait", "done"}

ListenerTypeOK ==
  /\ lpc \in [Devices -> Locations]
  /\ pending \in [Devices -> Transitions \cup {"none"}]
  /\ \A d \in Devices : lpc[d] = "send" <=> pending[d] # "none"
  /\ lerr \in [Devices -> Errors]
  /\ lisErr \in Errors
  /\ stray \subseteq Locations

ListenerInit ==
  /\ lpc = [d \in Devices |-> "open"]
  /\ pending = [d \in Devices |-> "none"]
  /\ lerr = [d \in Devices |-> "nil"]
  /\ lisErr = "nil"
  /\ stray = {}

Goto(d, l) == lpc' = [lpc EXCEPT ![d] = l]

\* Mutant of RunReturns: the last result wins, not the first error.
RunReturnsLastWins(d, err) ==
  /\ Goto(d, "done")
  /\ lerr' = [lerr EXCEPT ![d] = err]
  /\ lisErr' = err

\* Run returns err to liseg, which keeps the first error and cancels nothing.
RunReturns(d, err) ==
  /\ Goto(d, "done")
  /\ lerr' = [lerr EXCEPT ![d] = err]
  /\ lisErr' = IF lisErr = "nil" THEN err ELSE lisErr

\* listen returns (retry, err) to Run, whose deferred calls are the caller's.
ListenReturns(d, retry, err) ==
  IF RetryOn /\ retry
  THEN /\ Goto(d, "wait")
       /\ UNCHANGED <<lerr, lisErr>>
  ELSE RunReturns(d, err)

\* listen drops its file without closing it: it stays open, with nobody to
\* read it, until the garbage collector finds it or the process ends.
AbandonFile(d, dropped) ==
  /\ CloseFile(d, "none", dropped)
  /\ stray' = IF file[d] = "closed" THEN stray ELSE stray \cup {lpc[d]}

\* Mutant of Return: no deferred Close.
ReturnLeaksFile(d, retry, err) ==
  /\ AbandonFile(d, pending[d] # "none")
  /\ pending' = [pending EXCEPT ![d] = "none"]
  /\ ListenReturns(d, retry, err)

\* The same once the file is open and usable: the deferred cancel and Close
\* run first, and what was queued or about to be sent is gone.
Return(d, retry, err) ==
  /\ CloseFile(d, "none", pending[d] # "none")
  /\ UNCHANGED stray
  /\ pending' = [pending EXCEPT ![d] = "none"]
  /\ ListenReturns(d, retry, err)

KeepsFile == UNCHANGED <<file, kq, lost, stray>>
KeepsGroup == UNCHANGED <<ctx, egErr>>
KeepsDevice == UNCHANGED <<plugged, phys>>

----------------------------------------------------------------------------
(* listen *)

\* os.Open succeeds.
Open(d) ==
  /\ lpc[d] = "open" /\ plugged[d]
  /\ OpenFile(d)
  /\ Goto(d, "init")
  /\ UNCHANGED <<stray, pending, lerr, lisErr>>
  /\ KeepsGroup /\ KeepsDevice

\* The errors of evdev.Open, up to what listen tells apart.
IsTemporary(e) == e = "temporary"
Retryable(e) == IsTemporary(e) \/ e = "notExist"

\* A device whose error is not retryable is ignored.
OpenError(d, e) ==
  ListenReturns(d, Retryable(e), IF Retryable(e) THEN "device" ELSE "nil")

\* os.Open fails: the path does not exist, the process is out of files (a
\* temporary errno), or it may not read the node.
OpenRefused(d) ==
  /\ lpc[d] = "open"
  /\ \E e \in {"temporary", "notExist", "other"} :
       (e = "other" => plugged[d]) /\ OpenError(d, e)
  /\ UNCHANGED pending
  /\ KeepsFile /\ KeepsGroup /\ KeepsDevice

\* The ioctls of init succeed and the watcher goroutine starts.
InitOk(d) ==
  /\ lpc[d] = "init" /\ file[d] = "open"
  /\ Goto(d, "check")
  /\ UNCHANGED <<pending, lerr, lisErr>>
  /\ KeepsFile /\ KeepsGroup /\ KeepsDevice

\* An ioctl of init fails: the device has vanished (ENODEV), the node never
\* was an evdev device (ENOTTY), or the call was interrupted (EINTR, which is
\* temporary).  d.Close is not deferred yet, so the file stays behind.
InitFails(d) ==
  /\ lpc[d] = "init"
  /\ \E e \in {"temporary", "other"} : OpenError(d, e)
  /\ AbandonFile(d, FALSE)
  /\ UNCHANGED pending
  /\ KeepsGroup /\ KeepsDevice

\* HasEventCode; which keys a device has is not modelled.
Capable(d) ==
  /\ lpc[d] = "check"
  /\ Goto(d, "read")
  /\ UNCHANGED <<pending, lerr, lisErr>>
  /\ KeepsFile /\ KeepsGroup /\ KeepsDevice

Incapable(d) ==
  /\ lpc[d] = "check"
  /\ Return(d, FALSE, "nil")
  /\ KeepsGroup /\ KeepsDevice

\* Mutants of Classify: no Is, and a switch without default.
ClassifySendsForeign(e) == IF e = "repeat" THEN "none" ELSE e
ClassifyDropsUp(e) == IF e = "down" THEN e ELSE "none"

\* What listen makes of an event: transitions of the key are sent, its
\* repeats and everything Is rejects are skipped.
Classify(e) == IF IsTransition(e) THEN e ELSE "none"

ReadEvent(d) ==
  /\ lpc[d] = "read" /\ file[d] = "open" /\ kq[d] # <<>>
  /\ kq' = [kq EXCEPT ![d] = Tail(@)]
  /\ pending' = [pending EXCEPT ![d] = Classify(Head(kq[d]))]
  /\ Goto(d, IF Classify(Head(kq[d])) = "none" THEN "read" ELSE "send")
  /\ UNCHANGED <<file, lost, stray, lerr, lisErr>>
  /\ KeepsGroup /\ KeepsDevice

\* Mutant of ReadOutcome: a vanished device is not retried.
ReadOutcomeFinal(d) == [retry |-> FALSE, err |-> ReadError(d)]

\* What listen returns for a read error: under a cancelled scope the error as
\* it is, for a file closed under a live one nothing, otherwise a retry.
ReadOutcome(d) ==
  LET err == ReadError(d)
  IN  [retry |-> ~Canceled /\ err # "closed",
       err   |-> IF ~Canceled /\ err = "closed" THEN "nil" ELSE err]

\* NextEvent fails.
ReadFails(d) ==
  /\ lpc[d] = "read" /\ file[d] \in {"dead", "closed"}
  /\ Return(d, ReadOutcome(d).retry, ReadOutcome(d).err)
  /\ KeepsGroup /\ KeepsDevice

\* Mutant of SendCanceled: a plain send.
SendNeverCanceled(d) == FALSE

\* The send select takes <-ctx.Done().
SendCanceled(d) ==
  /\ lpc[d] = "send" /\ Canceled
  /\ Return(d, FALSE, ctx)
  /\ KeepsGroup /\ KeepsDevice

\* Mutants of WatcherFires: one that does not wait for Done, and none at all.
WatcherFiresEarly(d) ==
  /\ lpc[d] \in {"check", "read", "send"} /\ file[d] \in {"open", "dead"}
  /\ CloseFile(d, "closed", FALSE)
  /\ UNCHANGED <<lpc, pending, lerr, lisErr, stray>>
  /\ KeepsGroup /\ KeepsDevice
WatcherNeverFires(d) == FALSE

\* The watcher goroutine of line 57 closes the device.
WatcherFires(d) ==
  /\ Canceled
  /\ lpc[d] \in {"check", "read", "send"} /\ file[d] \in {"open", "dead"}
  /\ CloseFile(d, "closed", FALSE)
  /\ UNCHANGED <<lpc, pending, lerr, lisErr, stray>>
  /\ KeepsGroup /\ KeepsDevice

----------------------------------------------------------------------------
(* Run *)

\* time.After fires.
RetryTimer(d) ==
  /\ lpc[d] = "wait"
  /\ Goto(d, "open")
  /\ UNCHANGED <<pending, lerr, lisErr>>
  /\ KeepsFile /\ KeepsGroup /\ KeepsDevice

WaitCanceled(d) ==
  /\ lpc[d] = "wait" /\ Canceled
  /\ RunReturns(d, ctx)
  /\ UNCHANGED pending
  /\ KeepsFile /\ KeepsGroup /\ KeepsDevice

ListenerNext(d) ==
  \/ Open(d) \/ OpenRefused(d) \/ InitOk(d) \/ InitFails(d)
  \/ Capable(d) \/ Incapable(d)
  \/ ReadEvent(d) \/ ReadFails(d) \/ SendCanceled(d) \/ WatcherFires(d)
  \/ RetryTimer(d) \/ WaitCanceled(d)

\* Run has returned for every device.
AllListenersDone == \A d \in Devices : lpc[d] = "done"
=============================================================================

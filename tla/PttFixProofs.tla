---------------------------- MODULE PttFixProofs ----------------------------
(***************************************************************************)
(* Theorems about PttFix, for every set of devices and every value of the  *)
(* other constants: types, errors and files first; then the pipeline from  *)
(* the devices to the X server, with queues of any length, whose end       *)
(* agrees with the keys; that the program implements PushToTalk; and that  *)
(* its goroutines, sends and the process come to their ends.               *)
(***************************************************************************)
EXTENDS PttFix, Lemmas

----------------------------------------------------------------------------
(* Type correctness *)

\* The kernel's queue of a device stays a sequence of events when one joins.
LEMMA EnqueueType ==
  ASSUME DeviceTypeOK, NEW d \in Devices, NEW e \in Events, Enqueue(d, e)
  PROVE  /\ kq' \in [Devices -> Seq(Events)]
         /\ lost' \in [Devices -> BOOLEAN]
<1>1. <<"other", e>> \in Seq(Events) /\ Append(kq[d], e) \in Seq(Events)
  BY DEF DeviceTypeOK, Events
<1>2. kq' \in [Devices -> Seq(Events)]
  BY <1>1 DEF Enqueue, DeviceTypeOK
<1>3. lost' \in [Devices -> BOOLEAN]
  <2> DEFINE full == Len(kq[d]) >= MaxQueue
             new == ~IsTransition(e) /\ (lost[d] \/ (full /\ HasTransition(kq[d])))
  <2>1. lost' = [lost EXCEPT ![d] = new]
    BY Zenon DEF Enqueue
  <2>2. new \in BOOLEAN
    OBVIOUS
  <2> HIDE DEF new
  <2> QED BY <2>1, <2>2 DEF DeviceTypeOK
<1> QED BY <1>2, <1>3

\* Closing a file leaves it in one of its states, with an empty queue.
LEMMA CloseFileType ==
  ASSUME DeviceTypeOK, NEW d \in Devices, NEW s \in {"none", "closed"},
         NEW dropped \in BOOLEAN, CloseFile(d, s, dropped)
  PROVE  /\ file' \in [Devices -> {"none", "open", "dead", "closed"}]
         /\ kq' \in [Devices -> Seq(Events)]
         /\ lost' \in [Devices -> BOOLEAN]
<1>1. file' \in [Devices -> {"none", "open", "dead", "closed"}]
  BY DEF CloseFile, DeviceTypeOK
<1>2. kq' \in [Devices -> Seq(Events)]
  BY DEF CloseFile, DeviceTypeOK
<1>3. lost' \in [Devices -> BOOLEAN]
  <2> DEFINE new == lost[d] \/ dropped \/ HasTransition(kq[d])
  <2>1. lost' = [lost EXCEPT ![d] = new]
    BY Zenon DEF CloseFile
  <2>2. new \in BOOLEAN
    OBVIOUS
  <2> HIDE DEF new
  <2> QED BY <2>1, <2>2 DEF DeviceTypeOK
<1> QED BY <1>1, <1>2, <1>3

\* A device's own steps keep its variables in their types.
LEMMA DeviceNextType ==
  ASSUME DeviceTypeOK, NEW d \in Devices, DeviceNext(d)
  PROVE  DeviceTypeOK'
<1>1. ASSUME NEW e \in Transitions, KeyMoves(d, e)
      PROVE  DeviceTypeOK'
  <2>1. e \in Events
    BY DEF Events
  <2>2. UNCHANGED <<plugged, file>> /\ phys' \in [Devices -> Transitions]
    BY <1>1 DEF KeyMoves, DeviceTypeOK
  <2>3. CASE file[d] = "open" /\ Enqueue(d, e)
    BY <2>1, <2>2, <2>3, EnqueueType DEF DeviceTypeOK
  <2>4. CASE lost' = [lost EXCEPT ![d] = TRUE] /\ UNCHANGED kq
    BY <2>2, <2>4 DEF DeviceTypeOK
  <2> QED BY <1>1, <2>3, <2>4 DEF KeyMoves
<1>2. ASSUME NEW e \in Noise, OtherEvent(d, e)
      PROVE  DeviceTypeOK'
  <2>1. e \in Events
    BY NoiseAssumption DEF Events
  <2>2. UNCHANGED <<plugged, phys, file>> /\ Enqueue(d, e)
    BY <1>2 DEF OtherEvent
  <2> QED BY <2>1, <2>2, EnqueueType DEF DeviceTypeOK
<1>3. CASE Unplug(d)
  <2>1. /\ plugged' \in [Devices -> BOOLEAN]
        /\ phys' \in [Devices -> Transitions]
        /\ file' \in [Devices -> {"none", "open", "dead", "closed"}]
        /\ kq' \in [Devices -> Seq(Events)]
    BY <1>3 DEF Unplug, DeviceTypeOK, Transitions
  <2>2. lost' \in [Devices -> BOOLEAN]
    <3> DEFINE new == lost[d] \/ phys[d] = "down" \/ HasTransition(kq[d])
    <3>1. lost' = [lost EXCEPT ![d] = new]
      BY <1>3, Zenon DEF Unplug
    <3>2. new \in BOOLEAN
      OBVIOUS
    <3> HIDE DEF new
    <3> QED BY <3>1, <3>2 DEF DeviceTypeOK
  <2> QED BY <2>1, <2>2 DEF DeviceTypeOK
<1>4. CASE Plug(d)
  BY <1>4 DEF Plug, DeviceTypeOK
<1>5. CASE Fault(d)
  <2>1. /\ UNCHANGED <<plugged, phys>>
        /\ file' \in [Devices -> {"none", "open", "dead", "closed"}]
        /\ kq' \in [Devices -> Seq(Events)]
    BY <1>5 DEF Fault, DeviceTypeOK
  <2>2. lost' \in [Devices -> BOOLEAN]
    <3> DEFINE new == lost[d] \/ HasTransition(kq[d])
    <3>1. lost' = [lost EXCEPT ![d] = new]
      BY <1>5, Zenon DEF Fault
    <3>2. new \in BOOLEAN
      OBVIOUS
    <3> HIDE DEF new
    <3> QED BY <3>1, <3>2 DEF DeviceTypeOK
  <2> QED BY <2>1, <2>2 DEF DeviceTypeOK
<1> QED BY <1>1, <1>2, <1>3, <1>4, <1>5 DEF DeviceNext

\* An error an action hands on is an error the program knows.
LEMMA CtxIsError ==
  ASSUME ContextTypeOK, Canceled
  PROVE  ctx \in Errors
BY DEF ContextTypeOK, Canceled

\* Recording an error of the group keeps the scope's types.
LEMMA GroupReturnType ==
  ASSUME ContextTypeOK, NEW err \in Errors \ {"nil"}, GroupReturn(err)
  PROVE  ContextTypeOK'
BY DEF GroupReturn, ContextTypeOK

\* Run's part of a return keeps the listener's types, retried or not.
LEMMA ListenReturnsType ==
  ASSUME ListenerTypeOK, NEW d \in Devices, NEW retry, NEW err \in Errors,
         ListenReturns(d, retry, err) \/ RunReturns(d, err)
  PROVE  /\ lpc' \in [Devices -> Locations]
         /\ lerr' \in [Devices -> Errors]
         /\ lisErr' \in Errors
BY DEF ListenReturns, RunReturns, Goto, ListenerTypeOK, Locations

\* After it the listener sends nothing.
LEMMA ListenReturnsNotSend ==
  ASSUME ListenerTypeOK, NEW d \in Devices, NEW retry, NEW err,
         ListenReturns(d, retry, err) \/ RunReturns(d, err)
  PROVE  \A x \in Devices : IF x = d THEN lpc'[x] # "send" ELSE lpc'[x] = lpc[x]
BY DEF ListenReturns, RunReturns, Goto, ListenerTypeOK

\* listen's return keeps the types of the device and of the listener.
LEMMA ReturnType ==
  ASSUME DeviceTypeOK, ListenerTypeOK, KeepsDevice,
         NEW d \in Devices, NEW retry, NEW err \in Errors,
         Return(d, retry, err)
  PROVE  DeviceTypeOK' /\ ListenerTypeOK'
<1>1. CloseFile(d, "none", pending[d] # "none")
  BY DEF Return
<1>2. DeviceTypeOK'
  <2>1. (pending[d] # "none") \in BOOLEAN
    OBVIOUS
  <2>2. plugged' = plugged /\ phys' = phys
    BY DEF KeepsDevice
  <2>3. /\ file' \in [Devices -> {"none", "open", "dead", "closed"}]
        /\ kq' \in [Devices -> Seq(Events)]
        /\ lost' \in [Devices -> BOOLEAN]
    BY <1>1, <2>1, CloseFileType
  <2> QED BY <2>2, <2>3 DEF DeviceTypeOK
<1>3. pending' \in [Devices -> Transitions \cup {"none"}]
  BY DEF Return, ListenerTypeOK
<1>4. /\ lpc' \in [Devices -> Locations]
      /\ lerr' \in [Devices -> Errors]
      /\ lisErr' \in Errors
  BY ListenReturnsType DEF Return
<1>5. \A x \in Devices : lpc'[x] = "send" <=> pending'[x] # "none"
  BY ListenReturnsNotSend DEF Return, ListenerTypeOK
<1>6. stray' \subseteq Locations
  BY DEF Return, ListenerTypeOK
<1> QED BY <1>2, <1>3, <1>4, <1>5, <1>6 DEF ListenerTypeOK

\* A listener's own steps keep every type.
LEMMA ListenerNextType ==
  ASSUME ContextTypeOK, DeviceTypeOK, ListenerTypeOK,
         NEW d \in Devices, ListenerNext(d)
  PROVE  ContextTypeOK' /\ DeviceTypeOK' /\ ListenerTypeOK'
<1>1. UNCHANGED <<ctx, egErr>> /\ KeepsDevice
  BY DEF ListenerNext, Open, OpenRefused, InitOk, InitFails,
         Capable, Incapable, ReadEvent, ReadFails, SendCanceled, WatcherFires,
         RetryTimer, WaitCanceled, KeepsGroup
<1>2. SUFFICES DeviceTypeOK' /\ ListenerTypeOK'
  BY <1>1 DEF ContextTypeOK
<1>3. ASSUME NEW retry, NEW err \in Errors, Return(d, retry, err)
      PROVE  DeviceTypeOK' /\ ListenerTypeOK'
  BY <1>1, <1>3, ReturnType
<1>4. ASSUME NEW retry, NEW err \in Errors, lpc[d] # "send",
             ListenReturns(d, retry, err) \/ RunReturns(d, err),
             UNCHANGED pending, KeepsFile
      PROVE  DeviceTypeOK' /\ ListenerTypeOK'
  <2>1. /\ lpc' \in [Devices -> Locations]
        /\ lerr' \in [Devices -> Errors]
        /\ lisErr' \in Errors
    BY <1>4, ListenReturnsType
  <2>2. \A x \in Devices : lpc'[x] = "send" <=> pending'[x] # "none"
    BY <1>4, ListenReturnsNotSend DEF ListenerTypeOK
  <2> QED BY <1>1, <1>4, <2>1, <2>2
          DEF DeviceTypeOK, ListenerTypeOK, KeepsDevice, KeepsFile
<1>5. ASSUME NEW l \in Locations \ {"send"}, Goto(d, l), lpc[d] # "send",
             UNCHANGED <<pending, lerr, lisErr>>, KeepsFile
      PROVE  DeviceTypeOK' /\ ListenerTypeOK'
  BY <1>1, <1>5 DEF DeviceTypeOK, ListenerTypeOK, KeepsDevice, KeepsFile, Goto
<1>6. {"nil", "device", "closed"} \subseteq Errors
  BY DEF Errors
<1>7. CASE Open(d)
  <2>1. /\ file' \in [Devices -> {"none", "open", "dead", "closed"}]
        /\ kq' \in [Devices -> Seq(Events)]
        /\ lost' = lost
    BY <1>7 DEF Open, OpenFile, DeviceTypeOK
  <2>2. ListenerTypeOK'
    BY <1>7 DEF Open, Goto, ListenerTypeOK, Locations
  <2> QED BY <1>1, <2>1, <2>2 DEF DeviceTypeOK, KeepsDevice
<1>8. CASE OpenRefused(d)
  BY <1>4, <1>6, <1>8 DEF OpenRefused, OpenError
<1>16. CASE InitFails(d)
  <2>1. PICK e : OpenError(d, e)
    BY <1>16 DEF InitFails
  <2>2. lpc[d] = "init" /\ AbandonFile(d, FALSE) /\ UNCHANGED pending
    BY <1>16 DEF InitFails
  <2>3. /\ lpc' \in [Devices -> Locations]
        /\ lerr' \in [Devices -> Errors]
        /\ lisErr' \in Errors
    BY <1>6, <2>1, ListenReturnsType DEF OpenError
  <2>4. \A x \in Devices : lpc'[x] = "send" <=> pending'[x] # "none"
    BY <2>1, <2>2, ListenReturnsNotSend DEF OpenError, ListenerTypeOK
  <2>5. stray' \subseteq Locations
    BY <2>2 DEF AbandonFile, ListenerTypeOK
  <2>6. /\ file' \in [Devices -> {"none", "open", "dead", "closed"}]
        /\ kq' \in [Devices -> Seq(Events)]
        /\ lost' \in [Devices -> BOOLEAN]
    BY <2>2, CloseFileType DEF AbandonFile
  <2> QED BY <1>1, <2>2, <2>3, <2>4, <2>5, <2>6
          DEF DeviceTypeOK, ListenerTypeOK, KeepsDevice
<1>9. CASE InitOk(d) \/ Capable(d) \/ RetryTimer(d)
  BY <1>5, <1>9 DEF InitOk, Capable, RetryTimer, Locations
<1>10. CASE Incapable(d)
  BY <1>3, <1>6, <1>10 DEF Incapable
<1>11. CASE ReadEvent(d)
  <2>1. kq[d] \in Seq(Events) /\ kq[d] # <<>>
    BY <1>11 DEF ReadEvent, DeviceTypeOK
  <2>2. Tail(kq[d]) \in Seq(Events) /\ Classify(Head(kq[d])) \in Transitions \cup {"none"}
    BY <2>1 DEF Classify, IsTransition
  <2>3. DeviceTypeOK'
    BY <1>1, <1>11, <2>2 DEF ReadEvent, DeviceTypeOK, KeepsDevice
  <2>4. ListenerTypeOK'
    BY <1>11, <2>2 DEF ReadEvent, ListenerTypeOK, Goto, Locations
  <2> QED BY <2>3, <2>4
<1>12. CASE ReadFails(d)
  BY <1>3, <1>6, <1>12 DEF ReadFails, ReadOutcome, ReadError
<1>13. CASE SendCanceled(d)
  BY <1>3, <1>13, CtxIsError DEF SendCanceled
<1>14. CASE WatcherFires(d)
  <2>1. /\ file' \in [Devices -> {"none", "open", "dead", "closed"}]
        /\ kq' \in [Devices -> Seq(Events)]
        /\ lost' \in [Devices -> BOOLEAN]
    BY <1>14, CloseFileType DEF WatcherFires
  <2> QED BY <1>1, <1>14, <2>1
          DEF WatcherFires, DeviceTypeOK, ListenerTypeOK, KeepsDevice
<1>15. CASE WaitCanceled(d)
  BY <1>4, <1>15, CtxIsError DEF WaitCanceled
<1> QED BY <1>7, <1>8, <1>9, <1>10, <1>11, <1>12, <1>13, <1>14, <1>15, <1>16
        DEF ListenerNext

\* The handler's own steps keep every type.
LEMMA HandlerNextType ==
  ASSUME ContextTypeOK, HandlerTypeOK, HandlerNext
  PROVE  ContextTypeOK' /\ HandlerTypeOK'
<1>1. ASSUME NEW err \in Errors \ {"nil"}, HandleReturns(err),
             applied' = applied, pressed' \in BOOLEAN
      PROVE  ContextTypeOK' /\ HandlerTypeOK'
  <2>1. ContextTypeOK'
    BY <1>1, GroupReturnType DEF HandleReturns
  <2> QED BY <1>1, <2>1 DEF HandleReturns, HandlerTypeOK
<1>2. CASE OpenOk
  BY <1>2 DEF OpenOk, ContextTypeOK, HandlerTypeOK
<1>3. CASE OpenFails
  BY <1>1, <1>3 DEF OpenFails, Errors, HandlerTypeOK
<1>4. CASE HandleCanceled
  BY <1>1, <1>4 DEF HandleCanceled, Canceled, ContextTypeOK, HandlerTypeOK
<1>5. CASE ApplyOk
  <2>1. hev.dev \in Devices /\ hev.type \in Transitions
    BY <1>5 DEF ApplyOk, HandlerTypeOK, Event
  <2>2. applied' \in [Devices -> Transitions]
    BY <1>5, <2>1 DEF ApplyOk, HandlerTypeOK
  <2> QED BY <1>5, <2>2 DEF ApplyOk, ContextTypeOK, HandlerTypeOK
<1>6. CASE ApplyFails
  <2>1. pressed' \in BOOLEAN
    BY <1>6 DEF ApplyFails, HandlerTypeOK
  <2> QED BY <1>1, <1>6, <2>1 DEF ApplyFails, Errors
<1> QED BY <1>2, <1>3, <1>4, <1>5, <1>6 DEF HandlerNext

\* The initial states are well typed.
LEMMA InitType == Init => TypeOK
<1> SUFFICES ASSUME Init
             PROVE  TypeOK
  OBVIOUS
<1> USE DEF Init
<1>1. ContextTypeOK
  BY DEF ContextInit, ContextTypeOK, Errors
<1>2. DeviceTypeOK
  BY DEF DeviceInit, DeviceTypeOK, Transitions
<1>3. ListenerTypeOK
  BY DEF ListenerInit, ListenerTypeOK, Locations, Errors
<1>4. HandlerTypeOK
  BY DEF HandlerInit, HandlerTypeOK, Transitions
<1> QED BY <1>1, <1>2, <1>3, <1>4 DEF TypeOK

\* Every step of the program, its devices or the user keeps every type.
LEMMA NextType == TypeOK /\ [Next]_vars => TypeOK'
<1> SUFFICES ASSUME TypeOK, [Next]_vars
             PROVE  TypeOK'
  OBVIOUS
<1> USE DEF TypeOK
<1>1. ASSUME NEW d \in Devices, ListenerStep(d)
      PROVE  TypeOK'
  <2>1. HandlerTypeOK'
    BY <1>1 DEF ListenerStep, handlerVars, HandlerTypeOK
  <2> QED BY <1>1, <2>1, ListenerNextType DEF ListenerStep, processVars
<1>2. ASSUME NEW d \in Devices, Deliver(d)
      PROVE  TypeOK'
  <2>1. ContextTypeOK' /\ DeviceTypeOK'
    BY <1>2 DEF Deliver, deviceVars, ContextTypeOK, DeviceTypeOK
  <2>2. ListenerTypeOK'
    BY <1>2 DEF Deliver, Goto, ListenerTypeOK, Locations
  <2>3. HandlerTypeOK'
    <3>1. pending[d] \in Transitions
      BY <1>2 DEF Deliver, ListenerTypeOK
    <3> QED BY <1>2, <3>1 DEF Deliver, Receive, HandlerTypeOK, ListenerTypeOK, Event
  <2> QED BY <1>2, <2>1, <2>2, <2>3 DEF Deliver, processVars
<1>3. ASSUME NEW d \in Devices, DeviceStep(d)
      PROVE  TypeOK'
  <2>1. ContextTypeOK' /\ ListenerTypeOK' /\ HandlerTypeOK'
    BY <1>3 DEF DeviceStep, listenerVars, handlerVars, ContextTypeOK,
                ListenerTypeOK, HandlerTypeOK
  <2> QED BY <1>3, <2>1, DeviceNextType DEF DeviceStep, processVars
<1>4. CASE HandlerStep
  <2>1. DeviceTypeOK' /\ ListenerTypeOK'
    BY <1>4 DEF HandlerStep, deviceVars, listenerVars, DeviceTypeOK, ListenerTypeOK
  <2> QED BY <1>4, <2>1, HandlerNextType DEF HandlerStep, processVars
<1>5. CASE ListenersDone
  <2>1. DeviceTypeOK' /\ ListenerTypeOK' /\ HandlerTypeOK'
    BY <1>5 DEF ListenersDone, deviceVars, listenerVars, handlerVars,
                DeviceTypeOK, ListenerTypeOK, HandlerTypeOK
  <2>2. ContextTypeOK'
    BY <1>5, GroupReturnType DEF ListenersDone, ListenerTypeOK, Errors
  <2> QED BY <1>5, <2>1, <2>2 DEF ListenersDone
<1>6. CASE Exit \/ Interrupt \/ Terminated \/ UNCHANGED vars
  <2>1. DeviceTypeOK' /\ ListenerTypeOK' /\ HandlerTypeOK'
    BY <1>6 DEF Exit, Interrupt, Terminated, vars, deviceVars, listenerVars,
                handlerVars, DeviceTypeOK, ListenerTypeOK, HandlerTypeOK
  <2>2. ContextTypeOK'
    BY <1>6, SignalCausesAssumption
       DEF Exit, Interrupt, Terminated, vars, ContextTypeOK, Errors
  <2> QED BY <1>6, <2>1, <2>2 DEF Exit, Interrupt, Terminated, vars, processVars
<1> QED BY <1>1, <1>2, <1>3, <1>4, <1>5, <1>6 DEF Next, ProgramStep

\* Every variable keeps its type: in particular the handler holds an event of
\* a configured device exactly while it applies one.
THEOREM TypeCorrect == Spec => []TypeOK
BY InitType, NextType, PTL DEF Spec

----------------------------------------------------------------------------
(* Supervision *)

\* A listener's step either leaves the results alone, or Run returns: nothing,
\* a device error, or the cause of the cancelled scope.
LEMMA ListenerMoves ==
  ASSUME TypeOK, NEW d \in Devices, ListenerNext(d)
  PROVE  /\ UNCHANGED <<ctx, egErr>>
         /\ lpc[d] # "done"
         /\ \/ /\ lpc'[d] # "done"
               /\ \A x \in Devices \ {d} : lpc'[x] = lpc[x]
               /\ UNCHANGED <<lerr, lisErr>>
            \/ \E err \in {"nil", "device", "closed"} : RunReturns(d, err)
            \/ Canceled /\ RunReturns(d, ctx)
<1>1. UNCHANGED <<ctx, egErr>> /\ lpc[d] # "done"
  BY DEF ListenerNext, Open, OpenRefused, InitOk, InitFails,
         Capable, Incapable, ReadEvent, ReadFails, SendCanceled, WatcherFires,
         RetryTimer, WaitCanceled, KeepsGroup
<1>2. ASSUME NEW retry, NEW err, ListenReturns(d, retry, err)
      PROVE  \/ /\ lpc'[d] # "done"
                /\ \A x \in Devices \ {d} : lpc'[x] = lpc[x]
                /\ UNCHANGED <<lerr, lisErr>>
             \/ RunReturns(d, err)
  BY <1>2 DEF ListenReturns, Goto, TypeOK, ListenerTypeOK
<1>3. ASSUME NEW l \in Locations \ {"done"}, Goto(d, l),
             UNCHANGED <<lerr, lisErr>>
      PROVE  /\ lpc'[d] # "done"
             /\ \A x \in Devices \ {d} : lpc'[x] = lpc[x]
  BY <1>3 DEF Goto, TypeOK, ListenerTypeOK
<1>4. CASE Open(d) \/ InitOk(d) \/ Capable(d) \/ ReadEvent(d) \/ RetryTimer(d)
  BY <1>1, <1>3, <1>4
     DEF Open, InitOk, Capable, ReadEvent, RetryTimer, Locations
<1>5. CASE \/ OpenRefused(d) \/ InitFails(d)
           \/ Incapable(d) \/ ReadFails(d)
  BY <1>1, <1>2, <1>5
     DEF OpenRefused, OpenError, KeepsFile, InitFails, Incapable, ReadFails, Return,
         ReadOutcome, ReadError
<1>6. CASE SendCanceled(d)
  BY <1>1, <1>2, <1>6 DEF SendCanceled, Return
<1>7. CASE WatcherFires(d)
  BY <1>1, <1>7 DEF WatcherFires
<1>8. CASE WaitCanceled(d)
  BY <1>1, <1>8 DEF WaitCanceled
<1> QED BY <1>4, <1>5, <1>6, <1>7, <1>8 DEF ListenerNext

\* A step of the handler either leaves the scope and its place outside "done"
\* alone, or handle returns an error: its own, or the cause of the scope.
LEMMA HandlerMoves ==
  ASSUME TypeOK, HandlerNext
  PROVE  /\ hpc # "done"
         /\ \/ hpc' # "done" /\ UNCHANGED <<ctx, egErr>>
            \/ HandleReturns("handler")
            \/ Canceled /\ HandleReturns(ctx)
BY DEF HandlerNext, OpenOk, OpenFails, HandleCanceled, ApplyOk, ApplyFails

\* The errors the two groups hold say what really happened: canceled only
\* after an interrupt, "no devices" only when every listener returned none.
THEOREM ErrorsInvariant == Spec => []ErrorInv
<1>1. Init => ErrorInv
  BY DEF Init, ContextInit, ListenerInit, HandlerInit, ErrorInv, AllListenersDone
<1>2. TypeOK /\ ErrorInv /\ [Next]_vars => ErrorInv'
  <2> SUFFICES ASSUME TypeOK, ErrorInv, [Next]_vars
               PROVE  ErrorInv'
    OBVIOUS
  <2>1. ASSUME NEW d \in Devices, ListenerStep(d)
        PROVE  ErrorInv'
    <3>1. UNCHANGED <<ctx, egErr, hpc, g1, interrupted, status>>
      BY <2>1, ListenerMoves DEF ListenerStep, handlerVars, processVars
    <3>2. lpc[d] # "done" /\ ctx # "noDevices" /\ egErr # "noDevices"
      BY <2>1, ListenerMoves DEF ListenerStep, ErrorInv, AllListenersDone
    <3>3. CASE /\ lpc'[d] # "done"
               /\ \A x \in Devices \ {d} : lpc'[x] = lpc[x]
               /\ UNCHANGED <<lerr, lisErr>>
      BY <3>1, <3>2, <3>3 DEF ErrorInv
    <3>4. ASSUME NEW err \in {"nil", "device", "closed"}, RunReturns(d, err)
          PROVE  ErrorInv'
      BY <3>1, <3>2, <3>4 DEF RunReturns, Goto, ErrorInv, TypeOK, ListenerTypeOK
    <3>5. CASE Canceled /\ RunReturns(d, ctx)
      BY <3>1, <3>2, <3>5
         DEF RunReturns, Goto, ErrorInv, Canceled, TypeOK, ListenerTypeOK,
             ContextTypeOK
    <3> QED BY <2>1, <3>3, <3>4, <3>5, ListenerMoves DEF ListenerStep
  <2>2. ASSUME NEW d \in Devices, Deliver(d)
        PROVE  ErrorInv'
    BY <2>2 DEF Deliver, Receive, Goto, processVars, ErrorInv, AllListenersDone,
                TypeOK, ListenerTypeOK
  <2>3. ASSUME NEW d \in Devices, DeviceStep(d)
        PROVE  ErrorInv'
    BY <2>3 DEF DeviceStep, listenerVars, handlerVars, processVars, ErrorInv,
                AllListenersDone
  <2>4. CASE HandlerStep
    <3>1. UNCHANGED <<lpc, lerr, lisErr, g1, interrupted, status>>
      BY <2>4 DEF HandlerStep, listenerVars, processVars
    <3>2. CASE hpc' # "done" /\ UNCHANGED <<ctx, egErr>>
      BY <3>1, <3>2, <2>4, HandlerMoves DEF HandlerStep, ErrorInv, AllListenersDone
    <3>3. CASE HandleReturns("handler") \/ (Canceled /\ HandleReturns(ctx))
      BY <3>1, <3>3
         DEF HandleReturns, GroupReturn, ErrorInv, AllListenersDone, Canceled,
             TypeOK, ContextTypeOK
    <3> QED BY <2>4, <3>2, <3>3, HandlerMoves DEF HandlerStep
  <2>5. CASE ListenersDone
    BY <2>5 DEF ListenersDone, GroupReturn, listenerVars, handlerVars, ErrorInv,
                AllListenersDone, Canceled
  <2>6. CASE Exit
    BY <2>6 DEF Exit, listenerVars, handlerVars, ErrorInv, AllListenersDone
  <2>7. CASE Interrupt
    BY <2>7, SignalCausesAssumption
       DEF Interrupt, listenerVars, handlerVars, ErrorInv, AllListenersDone
  <2>8. CASE Terminated \/ UNCHANGED vars
    BY <2>8 DEF Terminated, vars, listenerVars, handlerVars, processVars,
                ErrorInv, AllListenersDone
  <2> QED BY <2>1, <2>2, <2>3, <2>4, <2>5, <2>6, <2>7, <2>8 DEF Next, ProgramStep
<1> QED BY <1>1, <1>2, TypeCorrect, PTL DEF Spec

\* Exit status 0 is the interrupt's alone.
THEOREM CleanExitTheorem == Spec => []CleanExitMeansInterrupted
<1>1. ErrorInv => CleanExitMeansInterrupted
  BY DEF ErrorInv, CleanExitMeansInterrupted
<1> QED BY <1>1, ErrorsInvariant, PTL

\* "no devices available" is reported only if every device was ignored.
THEOREM NoDevicesTheorem == Spec => []NoDevicesMeansAllIgnored
<1>1. ErrorInv => NoDevicesMeansAllIgnored
  BY DEF ErrorInv, NoDevicesMeansAllIgnored, AllListenersDone
<1> QED BY <1>1, ErrorsInvariant, PTL

----------------------------------------------------------------------------
(* Files *)

\* What a listener's step does to its file, and that it leaves the others.
LEMMA ListenerFiles ==
  ASSUME TypeOK, FileInv, NEW d \in Devices, ListenerNext(d)
  PROVE  /\ \A x \in Devices \ {d} : lpc'[x] = lpc[x] /\ file'[x] = file[x]
         /\ file'[d] = "closed" => Canceled
         /\ lpc'[d] \in {"open", "wait", "done"} => file'[d] = "none"
         /\ stray' \subseteq {"init"}
<1> USE DEF TypeOK, DeviceTypeOK, ListenerTypeOK, FileInv
<1>1. ASSUME NEW retry, NEW err, Return(d, retry, err)
      PROVE  /\ \A x \in Devices \ {d} : lpc'[x] = lpc[x] /\ file'[x] = file[x]
             /\ file'[d] = "none" /\ stray' = stray
  BY <1>1 DEF Return, ListenReturns, RunReturns, Goto, CloseFile
<1>2. CASE Open(d) \/ InitOk(d) \/ Capable(d) \/ ReadEvent(d) \/ RetryTimer(d)
  BY <1>2 DEF Open, OpenFile, InitOk, Capable, ReadEvent, RetryTimer, Goto,
              KeepsFile
<1>3. CASE OpenRefused(d) \/ WaitCanceled(d)
  BY <1>3 DEF OpenRefused, OpenError, KeepsFile, WaitCanceled,
              ListenReturns, RunReturns, Goto
<1>4. CASE Incapable(d) \/ ReadFails(d) \/ SendCanceled(d)
  BY <1>1, <1>4 DEF Incapable, ReadFails, SendCanceled
<1>5. CASE WatcherFires(d)
  BY <1>5 DEF WatcherFires, CloseFile
<1>6. CASE InitFails(d)
  BY <1>6 DEF InitFails, AbandonFile, CloseFile, OpenError, ListenReturns,
              RunReturns, Goto
<1> QED BY <1>2, <1>3, <1>4, <1>5, <1>6 DEF ListenerNext

\* A scope that was cancelled stays so.
LEMMA CanceledStays == TypeOK /\ [Next]_vars /\ Canceled => Canceled'
<1> SUFFICES ASSUME TypeOK, [Next]_vars, Canceled
             PROVE  Canceled'
  OBVIOUS
<1>1. ASSUME NEW err, GroupReturn(err)
      PROVE  ctx' = ctx
  BY <1>1 DEF GroupReturn
<1>2. ASSUME NEW d \in Devices, ListenerStep(d) \/ Deliver(d) \/ DeviceStep(d)
      PROVE  ctx' = ctx
  BY <1>2, ListenerMoves DEF ListenerStep, Deliver, DeviceStep
<1>3. CASE HandlerStep
  BY <1>1, <1>3, HandlerMoves DEF HandlerStep, HandleReturns, Canceled
<1>4. CASE ListenersDone \/ Exit \/ Interrupt \/ Terminated \/ UNCHANGED vars
  BY <1>1, <1>4 DEF ListenersDone, Exit, Interrupt, Terminated, vars, Canceled
<1> QED BY <1>2, <1>3, <1>4 DEF Next, ProgramStep, Canceled

\* Who holds a file or the connection at each place of its goroutine.
THEOREM FilesInvariant == Spec => []FileInv
<1>1. Init => FileInv
  BY DEF Init, DeviceInit, ListenerInit, HandlerInit, FileInv
<1>2. TypeOK /\ FileInv /\ [Next]_vars => FileInv'
  <2> SUFFICES ASSUME TypeOK, FileInv, [Next]_vars
               PROVE  FileInv'
    OBVIOUS
  <2>0. Canceled => Canceled'
    BY CanceledStays
  <2>1. ASSUME NEW d \in Devices, ListenerStep(d)
        PROVE  FileInv'
    <3>1. /\ UNCHANGED <<hpc, conn, g1, status>>
          /\ lpc[d] # "done"
      BY <2>1, ListenerMoves DEF ListenerStep, handlerVars, processVars
    <3> QED BY <2>0, <2>1, <3>1, ListenerFiles
            DEF ListenerStep, FileInv, AllListenersDone
  <2>2. ASSUME NEW d \in Devices, Deliver(d)
        PROVE  FileInv'
    BY <2>0, <2>2 DEF Deliver, Receive, Goto, deviceVars, processVars, FileInv,
                AllListenersDone, TypeOK, ListenerTypeOK
  <2>3. ASSUME NEW d \in Devices, DeviceStep(d)
        PROVE  FileInv'
    <3>1. \A x \in Devices : \/ file'[x] = file[x]
                             \/ file[x] = "open" /\ file'[x] = "dead"
      BY <2>3 DEF DeviceStep, DeviceNext, KeyMoves, OtherEvent, Unplug, Plug, Fault,
                  TypeOK, DeviceTypeOK
    <3>2. UNCHANGED <<lpc, stray, hpc, conn, g1, status>>
      BY <2>3 DEF DeviceStep, listenerVars, handlerVars, processVars
    <3> QED BY <2>0, <3>1, <3>2 DEF FileInv, AllListenersDone
  <2>4. CASE HandlerStep
    <3>1. UNCHANGED <<lpc, stray, file, g1, status>>
      BY <2>4 DEF HandlerStep, deviceVars, listenerVars, processVars
    <3>2. hpc # "done" /\ (hpc' \in {"open", "done"} => ~conn')
      BY <2>4 DEF HandlerStep, HandlerNext, OpenOk, OpenFails, HandleCanceled,
                  ApplyOk, ApplyFails, HandleReturns
    <3> QED BY <2>0, <3>1, <3>2 DEF FileInv, AllListenersDone
  <2>5. CASE ListenersDone \/ Exit \/ Interrupt \/ Terminated \/ UNCHANGED vars
    <3>1. UNCHANGED <<lpc, stray, file, hpc, conn>>
      BY <2>5 DEF ListenersDone, Exit, Interrupt, Terminated, vars, deviceVars,
                  listenerVars, handlerVars
    <3>2. CASE UNCHANGED <<g1, status>>
      BY <2>0, <3>1, <3>2 DEF FileInv, AllListenersDone
    <3>3. CASE ListenersDone \/ Exit
      BY <2>0, <3>1, <3>3 DEF ListenersDone, Exit, FileInv, AllListenersDone
    <3> QED BY <2>5, <3>2, <3>3 DEF Interrupt, Terminated, vars, processVars
  <2> QED BY <2>1, <2>2, <2>3, <2>4, <2>5 DEF Next, ProgramStep
<1> QED BY <1>1, <1>2, TypeCorrect, PTL DEF Spec

\* No file is closed under a reader while the scope is live.
THEOREM ClosedFileTheorem == Spec => []NoReadOfClosedFile
<1>1. FileInv => NoReadOfClosedFile
  BY DEF FileInv, NoReadOfClosedFile
<1> QED BY <1>1, FilesInvariant, PTL

\* A process that ends by itself has let go of what it held.
THEOREM ExitTheorem == Spec => []ExitReleasesAll
<1>1. TypeOK /\ FileInv => ExitReleasesAll
  BY DEF TypeOK, ListenerTypeOK, HandlerTypeOK, FileInv, AllListenersDone,
         ExitReleasesAll
<1> QED BY <1>1, TypeCorrect, FilesInvariant, PTL

\* A reader gives a device up only under a cancelled scope: the file a read
\* fails on was not closed under a live scope, so listen asks for a retry.
THEOREM ReaderRetriesTheorem == Spec => ReaderRetries
<1>1. TypeOK /\ FileInv /\ [Next]_vars =>
        [RetryOn =>
           \A d \in Devices :
             (lpc[d] \in {"read", "send"} /\ lpc'[d] = "done") => Canceled]_vars
  <2> SUFFICES ASSUME TypeOK, FileInv, [Next]_vars, RetryOn,
                      NEW d \in Devices,
                      lpc[d] \in {"read", "send"}, lpc'[d] = "done", ~Canceled
               PROVE  FALSE
    OBVIOUS
  <2>1. PICK x \in Devices : ListenerStep(x)
    BY DEF Next, ProgramStep, Deliver, Goto, DeviceStep, HandlerStep,
           ListenersDone, Exit, Interrupt, Terminated, vars, listenerVars,
           TypeOK, ListenerTypeOK
  <2>2. ListenerNext(x)
    BY <2>1 DEF ListenerStep
  <2>3. x = d
    BY <2>2, ListenerFiles
  <2>4. ReadFails(d)
    BY <2>2, <2>3
       DEF ListenerNext, Open, OpenRefused, InitOk, InitFails,
           Capable, Incapable, ReadEvent, SendCanceled, WatcherFires,
           RetryTimer, WaitCanceled, Goto, TypeOK, ListenerTypeOK
  <2>5. ReadOutcome(d).retry
    BY DEF ReadOutcome, ReadError, FileInv
  <2>6. lpc'[d] = "wait"
    BY <2>4, <2>5
       DEF ReadFails, Return, ListenReturns, Goto, TypeOK, ListenerTypeOK
  <2> QED BY <2>6
<1> QED BY <1>1, TypeCorrect, FilesInvariant, PTL DEF Spec, ReaderRetries

\* The scope of the program ends by an interrupt, by the handler, or with the
\* last listener.
THEOREM IsolationTheorem == Spec => DeviceFailureIsolated
<1>1. TypeOK /\ [Next]_vars =>
        [(ctx = "live" /\ ctx' # "live") =>
           \/ interrupted' # interrupted
           \/ hpc' = "done"
           \/ AllListenersDone]_vars
  <2> SUFFICES ASSUME TypeOK, [Next]_vars, ctx = "live", ctx' # "live"
               PROVE  \/ interrupted' # interrupted
                      \/ hpc' = "done"
                      \/ AllListenersDone
    OBVIOUS
  <2>1. ASSUME NEW d \in Devices, ListenerStep(d) \/ Deliver(d) \/ DeviceStep(d)
        PROVE  FALSE
    BY <2>1, ListenerMoves DEF ListenerStep, Deliver, DeviceStep
  <2>2. CASE HandlerStep
    BY <2>2, HandlerMoves DEF HandlerStep, HandleReturns
  <2>3. CASE ListenersDone \/ Exit \/ Interrupt \/ Terminated \/ UNCHANGED vars
    BY <2>3 DEF ListenersDone, Exit, Interrupt, Terminated, vars
  <2> QED BY <2>1, <2>2, <2>3 DEF Next, ProgramStep
<1> QED BY <1>1, TypeCorrect, PTL DEF Spec, DeviceFailureIsolated

----------------------------------------------------------------------------
(* The transitions of a queue *)

\* f holds, for each n up to N, the transitions among the first n events of q.
Selects(q, N, f) ==
  f = [n \in 0 .. N |->
         IF n = 0 THEN <<>>
         ELSE IF IsTransition(q[n]) THEN Append(f[n - 1], q[n]) ELSE f[n - 1]]

\* What is left of one event.
Kept(e) == IF IsTransition(e) THEN <<e>> ELSE <<>>

LEMMA SelectsSteps ==
  ASSUME NEW q, NEW N \in Nat, NEW f, Selects(q, N, f)
  PROVE  /\ f[0] = <<>>
         /\ \A n \in 0 .. N - 1 :
              f[n + 1] = IF IsTransition(q[n + 1]) THEN Append(f[n], q[n + 1]) ELSE f[n]
<1>1. \A n \in 0 .. N : f[n] = IF n = 0 THEN <<>>
                               ELSE IF IsTransition(q[n]) THEN Append(f[n - 1], q[n])
                               ELSE f[n - 1]
  BY DEF Selects
<1>2. \A n \in 0 .. N - 1 : n + 1 \in 0 .. N /\ n + 1 # 0 /\ (n + 1) - 1 = n
  OBVIOUS
<1>3. f[0] = <<>>
  BY <1>1
<1>4. ASSUME NEW n \in 0 .. N - 1
      PROVE  f[n + 1] = IF IsTransition(q[n + 1]) THEN Append(f[n], q[n + 1]) ELSE f[n]
  BY <1>1, <1>2
<1>5. QED
  BY <1>3, <1>4

\* The recursive definition has a value.
LEMMA SelectsExists ==
  ASSUME NEW q, NEW N \in Nat
  PROVE  \E f : Selects(q, N, f)
<1> DEFINE T == {n \in 0 .. N : \E f : Selects(q, n, f)}
<1>1. 0 \in T
  <2>1. Selects(q, 0, [n \in 0 .. 0 |-> <<>>])
    BY DEF Selects
  <2>2. QED
    BY <2>1
<1>2. ASSUME NEW n \in 0 .. N - 1, n \in T
      PROVE  n + 1 \in T
  <2>1. PICK f : Selects(q, n, f)
    BY <1>2
  <2> DEFINE last == IF IsTransition(q[n + 1]) THEN Append(f[n], q[n + 1]) ELSE f[n]
             g == [m \in 0 .. n + 1 |-> IF m = n + 1 THEN last ELSE f[m]]
  <2>2. f = [m \in 0 .. n |-> IF m = 0 THEN <<>>
                              ELSE IF IsTransition(q[m]) THEN Append(f[m - 1], q[m])
                              ELSE f[m - 1]]
    BY <2>1 DEF Selects
  <2>3. ASSUME NEW m \in 0 .. n + 1
        PROVE  g[m] = IF m = 0 THEN <<>>
                      ELSE IF IsTransition(q[m]) THEN Append(g[m - 1], q[m])
                      ELSE g[m - 1]
    <3>1. CASE m = n + 1
      <4>1. m # 0 /\ m - 1 = n /\ n \in 0 .. n + 1 /\ n # n + 1
        BY <3>1
      <4>2. g[m] = last /\ g[m - 1] = f[n]
        BY <3>1, <4>1
      <4>3. QED
        BY <3>1, <4>1, <4>2
    <3>2. CASE m # n + 1
      <4>1. m \in 0 .. n /\ (m # 0 => m - 1 \in 0 .. n + 1 /\ m - 1 # n + 1)
        BY <3>2
      <4>2. g[m] = f[m] /\ (m # 0 => g[m - 1] = f[m - 1])
        BY <3>2, <4>1
      <4> HIDE DEF g
      <4>3. f[m] = IF m = 0 THEN <<>>
                   ELSE IF IsTransition(q[m]) THEN Append(f[m - 1], q[m])
                   ELSE f[m - 1]
        BY <2>2, <4>1
      <4>4. QED
        BY <4>2, <4>3
    <3>3. QED
      BY <3>1, <3>2
  <2>4. g = [m \in 0 .. n + 1 |-> g[m]]
    OBVIOUS
  <2> HIDE DEF g
  <2>5. Selects(q, n + 1, g)
    BY <2>3, <2>4 DEF Selects
  <2>6. QED
    BY <2>5
<1>3. N \in T
  <2> HIDE DEF T
  <2>1. \A n \in 0 .. N : n \in T
    BY <1>1, <1>2, UpToInduction
  <2>2. QED
    BY <2>1
<1>4. QED
  BY <1>3

\* TransitionsOf takes the last one of these.
LEMMA TransitionsSelect ==
  ASSUME NEW q \in Seq(Events)
  PROVE  \E f : Selects(q, Len(q), f) /\ TransitionsOf(q) = f[Len(q)]
<1>1. Len(q) \in Nat
  BY LenProperties
<1>2. \E f : Selects(q, Len(q), f)
  BY <1>1, SelectsExists
<1>3. PICK f : f = [n \in 0 .. Len(q) |->
                      IF n = 0 THEN <<>>
                      ELSE IF IsTransition(q[n]) THEN Append(f[n - 1], q[n])
                      ELSE f[n - 1]]
  BY <1>2 DEF Selects
<1>4. \E g : /\ g = [n \in 0 .. Len(q) |->
                      IF n = 0 THEN <<>>
                      ELSE IF IsTransition(q[n]) THEN Append(g[n - 1], q[n])
                      ELSE g[n - 1]]
             /\ TransitionsOf(q) = g[Len(q)]
  BY <1>3 DEF TransitionsOf
<1>5. QED
  BY <1>4 DEF Selects

LEMMA SelectsType ==
  ASSUME NEW q \in Seq(Events), NEW f, Selects(q, Len(q), f)
  PROVE  \A n \in 0 .. Len(q) : f[n] \in Seq(Transitions)
<1> DEFINE T == {n \in 0 .. Len(q) : f[n] \in Seq(Transitions)}
<1>1. Len(q) \in Nat
  BY LenProperties
<1>2. 0 \in T
  <2>1. f[0] = <<>>
    BY <1>1, SelectsSteps
  <2>2. <<>> \in Seq(Transitions)
    OBVIOUS
  <2>3. f[0] \in Seq(Transitions)
    BY <2>1, <2>2, Zenon
  <2>4. 0 \in 0 .. Len(q)
    BY <1>1
  <2>5. QED
    BY <2>3, <2>4, Zenon
<1>3. ASSUME NEW n \in 0 .. Len(q) - 1, n \in T
      PROVE  n + 1 \in T
  <2>1. f[n + 1] = IF IsTransition(q[n + 1]) THEN Append(f[n], q[n + 1]) ELSE f[n]
    BY <1>1, SelectsSteps
  <2>2. IsTransition(q[n + 1]) => Append(f[n], q[n + 1]) \in Seq(Transitions)
    BY <1>3, AppendProperties DEF IsTransition
  <2>3. f[n + 1] \in Seq(Transitions)
    BY <1>3, <2>1, <2>2
  <2>4. n + 1 \in 0 .. Len(q)
    BY <1>1
  <2>5. QED
    BY <2>3, <2>4
<1> HIDE DEF T
<1>4. \A n \in 0 .. Len(q) : n \in T
  BY <1>1, <1>2, <1>3, UpToInduction
<1>5. QED
  BY <1>4 DEF T

\* The transitions of a queue are transitions.
LEMMA TransitionsType ==
  ASSUME NEW q \in Seq(Events)
  PROVE  TransitionsOf(q) \in Seq(Transitions)
<1>1. Len(q) \in 0 .. Len(q)
  BY LenProperties
<1>2. QED
  BY <1>1, TransitionsSelect, SelectsType

\* An empty queue has none.
LEMMA TransitionsOfEmpty == TransitionsOf(<<>>) = <<>>
<1>1. <<>> \in Seq(Events) /\ Len(<<>>) = 0
  BY EmptySeq
<1>2. PICK f : Selects(<<>>, 0, f) /\ TransitionsOf(<<>>) = f[0]
  BY <1>1, TransitionsSelect
<1>3. QED
  BY <1>2, SelectsSteps

\* An event that joins a queue joins its transitions if it is one.
LEMMA TransitionsOfAppend ==
  ASSUME NEW q \in Seq(Events), NEW e \in Events
  PROVE  TransitionsOf(Append(q, e)) =
           IF IsTransition(e) THEN Append(TransitionsOf(q), e) ELSE TransitionsOf(q)
<1> DEFINE N == Len(q)
           r == Append(q, e)
<1>1. /\ N \in Nat /\ r \in Seq(Events) /\ Len(r) = N + 1
      /\ r[N + 1] = e /\ \A n \in 1 .. N : r[n] = q[n]
  BY LenProperties, AppendProperties
<1> HIDE DEF r, N
<1>2. PICK f : Selects(q, N, f) /\ TransitionsOf(q) = f[N]
  BY TransitionsSelect DEF N
<1>3. PICK g : Selects(r, N + 1, g) /\ TransitionsOf(r) = g[N + 1]
  BY <1>1, TransitionsSelect
<1> DEFINE T == {n \in 0 .. N : f[n] = g[n]}
<1>4. f[0] = <<>> /\ g[0] = <<>>
  BY <1>1, <1>2, <1>3, SelectsSteps
<1>5. ASSUME NEW n \in 0 .. N - 1, n \in T
      PROVE  n + 1 \in T
  <2>1. n \in 0 .. (N + 1) - 1 /\ n + 1 \in 1 .. N /\ n + 1 \in 0 .. N
    BY <1>1
  <2>2. f[n + 1] = IF IsTransition(q[n + 1]) THEN Append(f[n], q[n + 1]) ELSE f[n]
    BY <1>1, <1>2, SelectsSteps
  <2>3. g[n + 1] = IF IsTransition(r[n + 1]) THEN Append(g[n], r[n + 1]) ELSE g[n]
    <3>1. N + 1 \in Nat
      BY <1>1
    <3>2. QED
      BY <1>3, <2>1, <3>1, SelectsSteps
  <2>4. f[n] = g[n] /\ q[n + 1] = r[n + 1]
    BY <1>1, <1>5, <2>1
  <2>5. f[n + 1] = g[n + 1]
    BY <2>2, <2>3, <2>4
  <2>6. QED
    BY <2>1, <2>5
<1>6. f[N] = g[N]
  <2>1. 0 \in T
    BY <1>1, <1>4
  <2> HIDE DEF T
  <2>2. \A n \in 0 .. N : n \in T
    BY <1>1, <1>5, <2>1, UpToInduction
  <2>3. N \in T
    BY <1>1, <2>2
  <2>4. QED
    BY <2>3 DEF T
<1>7. g[N + 1] = IF IsTransition(r[N + 1]) THEN Append(g[N], r[N + 1]) ELSE g[N]
  <2>1. N \in 0 .. (N + 1) - 1 /\ N + 1 \in Nat
    BY <1>1
  <2>2. QED
    BY <1>3, <2>1, SelectsSteps
<1>8. QED
  BY <1>1, <1>2, <1>3, <1>6, <1>7 DEF r

LEMMA AppendToConcat ==
  \A s, t \in Seq(Transitions), e \in Transitions :
    Append(s \o t, e) = s \o Append(t, e)
<1> SUFFICES ASSUME NEW s \in Seq(Transitions), NEW t \in Seq(Transitions),
                    NEW e \in Transitions
             PROVE  Append(s \o t, e) = s \o Append(t, e)
  OBVIOUS
<1>1. s \o t \in Seq(Transitions) /\ <<e>> \in Seq(Transitions)
  BY ConcatProperties
<1>2. Append(s \o t, e) = (s \o t) \o <<e>> /\ Append(t, e) = t \o <<e>>
  BY <1>1, AppendIsConcat
<1>3. (s \o t) \o <<e>> = s \o (t \o <<e>>)
  BY <1>1, ConcatAssociative
<1>4. QED
  BY <1>2, <1>3

\* The event that is read first comes first, if it is a transition.
LEMMA TransitionsOfTail ==
  ASSUME NEW q \in Seq(Events), q # <<>>
  PROVE  TransitionsOf(q) = Kept(Head(q)) \o TransitionsOf(Tail(q))
<1> DEFINE t == Tail(q)
           N == Len(t)
           k == Kept(Head(q))
<1>1. /\ N \in Nat /\ t \in Seq(Events) /\ Len(q) = N + 1
      /\ q[1] = Head(q) /\ \A n \in 1 .. N : t[n] = q[n + 1]
  BY HeadTailProperties, EmptySeq, LenProperties
<1>2. k \in Seq(Transitions) /\ (k = <<>> \/ k = <<Head(q)>>)
  BY HeadTailProperties DEF Kept, IsTransition
<1> HIDE DEF t, N, k
<1>3. PICK f : Selects(q, N + 1, f) /\ TransitionsOf(q) = f[N + 1]
  BY <1>1, TransitionsSelect
<1>4. PICK g : Selects(t, N, g) /\ TransitionsOf(t) = g[N]
  BY <1>1, TransitionsSelect DEF N
<1>5. \A n \in 0 .. N : g[n] \in Seq(Transitions)
  BY <1>1, <1>4, SelectsType DEF N
<1> DEFINE T == {n \in 0 .. N : f[n + 1] = k \o g[n]}
<1>6. 0 \in T
  <2>1. f[1] = k
    <3>1. 0 \in 0 .. (N + 1) - 1 /\ 0 + 1 = 1 /\ N + 1 \in Nat
      BY <1>1
    <3>2. f[0] = <<>> /\ f[1] = IF IsTransition(q[1]) THEN Append(f[0], q[1]) ELSE f[0]
      BY <1>3, <3>1, SelectsSteps
    <3>3. QED
      BY <1>1, <3>2 DEF k, Kept
  <2>2. g[0] = <<>>
    BY <1>1, <1>4, SelectsSteps
  <2>3. k \o <<>> = k
    BY <1>2, ConcatEmptySeq
  <2>4. f[0 + 1] = k \o g[0]
    BY <2>1, <2>2, <2>3
  <2>5. 0 \in 0 .. N
    BY <1>1
  <2>6. QED
    BY <2>4, <2>5
<1>7. ASSUME NEW n \in 0 .. N - 1, n \in T
      PROVE  n + 1 \in T
  <2> DEFINE e == q[(n + 1) + 1]
  <2>1. /\ n \in 0 .. N /\ n + 1 \in 0 .. N /\ n + 1 \in 1 .. N
        /\ n + 1 \in 0 .. (N + 1) - 1 /\ N + 1 \in Nat
    BY <1>1
  <2>2. f[(n + 1) + 1] = IF IsTransition(e) THEN Append(f[n + 1], e) ELSE f[n + 1]
    BY <1>3, <2>1, SelectsSteps
  <2>3. g[n + 1] = IF IsTransition(e) THEN Append(g[n], e) ELSE g[n]
    <3>1. t[n + 1] = e
      BY <1>1, <2>1
    <3>2. \A m \in 0 .. N - 1 :
            g[m + 1] = IF IsTransition(t[m + 1]) THEN Append(g[m], t[m + 1]) ELSE g[m]
      <4>1. N \in Nat /\ Selects(t, N, g)
        BY <1>1, <1>4
      <4>2. QED
        BY <4>1, SelectsSteps
    <3>3. QED
      BY <3>1, <3>2
  <2> HIDE DEF e
  <2>4. f[n + 1] = k \o g[n] /\ g[n] \in Seq(Transitions)
    BY <1>5, <1>7, <2>1
  <2>5. ASSUME IsTransition(e)
        PROVE  Append(k \o g[n], e) = k \o Append(g[n], e)
    <3>1. e \in Transitions /\ k \in Seq(Transitions) /\ g[n] \in Seq(Transitions)
      BY <1>2, <2>4, <2>5 DEF IsTransition
    <3>2. QED
      BY <3>1, AppendToConcat
  <2>6. f[(n + 1) + 1] = k \o g[n + 1]
    BY <2>2, <2>3, <2>4, <2>5
  <2>7. QED
    BY <2>1, <2>6
<1>8. f[N + 1] = k \o g[N]
  <2> HIDE DEF T
  <2>1. \A n \in 0 .. N : n \in T
    BY <1>1, <1>6, <1>7, UpToInduction
  <2>2. N \in T
    BY <1>1, <2>1
  <2>3. QED
    BY <2>2 DEF T
<1>9. QED
  BY <1>3, <1>4, <1>8 DEF k, t

\* A queue without a transition has none.
LEMMA NoTransitions ==
  ASSUME NEW q \in Seq(Events), ~HasTransition(q)
  PROVE  TransitionsOf(q) = <<>>
<1>1. Len(q) \in Nat /\ DOMAIN q = 1 .. Len(q)
  BY LenProperties
<1>2. PICK f : Selects(q, Len(q), f) /\ TransitionsOf(q) = f[Len(q)]
  BY TransitionsSelect
<1> DEFINE T == {n \in 0 .. Len(q) : f[n] = <<>>}
<1>3. 0 \in T
  BY <1>1, <1>2, SelectsSteps
<1>4. ASSUME NEW n \in 0 .. Len(q) - 1, n \in T
      PROVE  n + 1 \in T
  <2>1. n + 1 \in 1 .. Len(q) /\ n + 1 \in 0 .. Len(q)
    BY <1>1
  <2>2. ~IsTransition(q[n + 1])
    BY <1>1, <2>1 DEF HasTransition
  <2>3. f[n + 1] = f[n]
    BY <1>1, <1>2, <2>2, SelectsSteps
  <2>4. QED
    BY <1>4, <2>1, <2>3
<1>5. Len(q) \in T
  <2> HIDE DEF T
  <2>1. \A n \in 0 .. Len(q) : n \in T
    BY <1>1, <1>3, <1>4, UpToInduction
  <2>2. QED
    BY <1>1, <2>1
<1>6. QED
  BY <1>2, <1>5

----------------------------------------------------------------------------
(* The parts of a device's pipeline *)

\* A full queue keeps the newest event only; without a transition among those
\* it drops, nothing is lost.
LEMMA EnqueueTransitions ==
  ASSUME DeviceTypeOK, NEW d \in Devices, NEW e \in Events, Enqueue(d, e)
  PROVE  /\ \A x \in Devices \ {d} : kq'[x] = kq[x] /\ lost'[x] = lost[x]
         /\ \E s \in {<<>>, TransitionsOf(kq[d])} :
              TransitionsOf(kq'[d]) = IF IsTransition(e) THEN Append(s, e) ELSE s
         /\ IsTransition(e) => ~lost'[d]
         /\ ~IsTransition(e) /\ ~lost'[d] =>
              ~lost[d] /\ TransitionsOf(kq'[d]) = TransitionsOf(kq[d])
<1> DEFINE full == Len(kq[d]) >= MaxQueue
           T == TransitionsOf(kq[d])
<1>1. kq[d] \in Seq(Events)
  BY DEF DeviceTypeOK
<1>2. kq' = [kq EXCEPT ![d] = IF full THEN <<"other", e>> ELSE Append(kq[d], e)]
  BY DEF Enqueue
<1>3. \A x \in Devices \ {d} : kq'[x] = kq[x] /\ lost'[x] = lost[x]
  BY DEF Enqueue, DeviceTypeOK
<1>4. lost'[d] <=> ~IsTransition(e) /\ (lost[d] \/ (full /\ HasTransition(kq[d])))
  <2> DEFINE new == ~IsTransition(e) /\ (lost[d] \/ (full /\ HasTransition(kq[d])))
  <2>1. lost' = [lost EXCEPT ![d] = new]
    BY Zenon DEF Enqueue
  <2> HIDE DEF new
  <2>2. lost'[d] = new
    BY <2>1 DEF DeviceTypeOK
  <2>3. QED
    BY <2>2 DEF new
<1>5. CASE full
  <2>1. kq'[d] = <<"other", e>>
    BY <1>2, <1>5 DEF DeviceTypeOK
  <2>2. TransitionsOf(<<"other">>) = <<>>
    <3>1. <<>> \in Seq(Events) /\ "other" \in Events /\ ~IsTransition("other")
      BY DEF Events, IsTransition, Transitions
    <3>2. TransitionsOf(Append(<<>>, "other")) = <<>>
      BY <3>1, TransitionsOfAppend, TransitionsOfEmpty
    <3>3. Append(<<>>, "other") = <<"other">>
      OBVIOUS
    <3>4. QED
      BY <3>2, <3>3
  <2>3. <<"other">> \in Seq(Events)
    BY DEF Events
  <2>4. TransitionsOf(Append(<<"other">>, e)) =
          IF IsTransition(e) THEN Append(<<>>, e) ELSE <<>>
    BY <2>2, <2>3, TransitionsOfAppend
  <2>5. Append(<<"other">>, e) = <<"other", e>>
    <3> DEFINE one == <<"other">>
               two == <<"other", e>>
    <3>1. one \in Seq(Events) /\ Len(one) = 1 /\ one[1] = "other"
      BY <2>3
    <3>2. two \in Seq(Events) /\ Len(two) = 2 /\ two[1] = "other" /\ two[2] = e
      BY DEF Events
    <3> HIDE DEF one, two
    <3>3. /\ Append(one, e) \in Seq(Events) /\ Len(Append(one, e)) = 2
          /\ Append(one, e)[1] = "other" /\ Append(one, e)[2] = e
      BY <3>1, AppendProperties, SMTT(30)
    <3>4. Append(one, e) = two
      BY <3>2, <3>3, SeqEqual
    <3>5. QED
      BY <3>4 DEF one, two
  <2>6. TransitionsOf(kq'[d]) = IF IsTransition(e) THEN Append(<<>>, e) ELSE <<>>
    BY <2>1, <2>4, <2>5
  <2>7. ~HasTransition(kq[d]) => T = <<>>
    BY <1>1, NoTransitions
  <2> HIDE DEF T
  <2>8. QED
    BY <1>3, <1>4, <1>5, <2>6, <2>7 DEF T
<1>6. CASE ~full
  <2>1. kq'[d] = Append(kq[d], e)
    BY <1>2, <1>6 DEF DeviceTypeOK
  <2>2. TransitionsOf(kq'[d]) = IF IsTransition(e) THEN Append(T, e) ELSE T
    BY <1>1, <2>1, TransitionsOfAppend
  <2> HIDE DEF T
  <2>3. QED
    BY <1>3, <1>4, <1>6, <2>2 DEF T
<1>7. QED
  BY <1>5, <1>6

\* Each part is a sequence of transitions.
LEMMA PartsType ==
  ASSUME TypeOK, NEW d \in Devices
  PROVE  /\ Applying(d) \in Seq(Transitions)
         /\ Sending(d) \in Seq(Transitions)
         /\ TransitionsOf(kq[d]) \in Seq(Transitions)
<1>1. Applying(d) \in Seq(Transitions)
  BY DEF Applying, TypeOK, HandlerTypeOK, Event
<1>2. Sending(d) \in Seq(Transitions)
  BY DEF Sending, TypeOK, ListenerTypeOK
<1>3. TransitionsOf(kq[d]) \in Seq(Transitions)
  BY TransitionsType DEF TypeOK, DeviceTypeOK
<1>4. QED
  BY <1>1, <1>2, <1>3

LEMMA InFlightType ==
  ASSUME TypeOK, NEW d \in Devices
  PROVE  InFlight(d) \in Seq(Transitions)
<1>1. Applying(d) \o Sending(d) \in Seq(Transitions)
  BY PartsType, ConcatProperties, SMTT(30)
<1>2. QED
  BY <1>1, PartsType, ConcatProperties DEF InFlight

\* What is left of a sequence when its end is gone.
LEMMA ConcatPrefix ==
  \A s, t \in Seq(Transitions) : s \in Promise!Prefixes(s \o t)
<1> SUFFICES ASSUME NEW s \in Seq(Transitions), NEW t \in Seq(Transitions)
             PROVE  s \in Promise!Prefixes(s \o t)
  OBVIOUS
<1>1. Len(s) \in Nat /\ Len(t) \in Nat /\ Len(s \o t) = Len(s) + Len(t)
  BY LenProperties, ConcatProperties
<1>2. Len(s) \in 0 .. Len(s \o t)
  BY <1>1
<1>3. SubSeq(s \o t, 1, Len(s)) = s
  <2>1. CASE s = <<>>
    BY <2>1, SubSeqEmpty
  <2>2. CASE s # <<>>
    <3>1. 1 \in 1 .. Len(s) /\ Len(s) \in 1 .. Len(s)
      BY <1>1, <2>2, EmptySeq
    <3>2. SubSeq(s \o t, 1, Len(s)) = SubSeq(s, 1, Len(s))
      BY <3>1, SubSeqOfConcat1
    <3>3. QED
      BY <3>2, SubSeqFull
  <2>3. QED
    BY <2>1, <2>2
<1>4. QED
  BY <1>2, <1>3 DEF Promise!Prefixes

LEMMA InFlightPrefixes ==
  ASSUME TypeOK, NEW d \in Devices
  PROVE  {Applying(d), Applying(d) \o Sending(d), InFlight(d)}
           \subseteq Promise!Prefixes(InFlight(d))
<1> DEFINE A == Applying(d)
           S == Sending(d)
           T == TransitionsOf(kq[d])
<1>1. A \in Seq(Transitions) /\ S \in Seq(Transitions) /\ T \in Seq(Transitions)
  BY PartsType
<1>2. InFlight(d) = (A \o S) \o T
  BY DEF InFlight
<1> HIDE DEF A, S, T
<1>3. A \o S \in Seq(Transitions) /\ S \o T \in Seq(Transitions)
  BY <1>1, ConcatProperties
<1>4. (A \o S) \o T = A \o (S \o T)
  BY <1>1, ConcatAssociative
<1>5. A \in Promise!Prefixes(A \o (S \o T)) /\ A \o S \in Promise!Prefixes((A \o S) \o T)
  BY <1>1, <1>3, ConcatPrefix
<1>6. InFlight(d) \in Promise!Prefixes(InFlight(d))
  <2>1. InFlight(d) \in Seq(Transitions) /\ <<>> \in Seq(Transitions)
    BY InFlightType
  <2>2. InFlight(d) \o <<>> = InFlight(d)
    BY <2>1, ConcatEmptySeq
  <2>3. QED
    BY <2>1, <2>2, ConcatPrefix
<1>7. QED
  BY <1>2, <1>4, <1>5, <1>6 DEF A, S

\* The newest transition of a pipeline.
LastOf(s, x) == IF s = <<>> THEN x ELSE s[Len(s)]

LEMMA LatestIsLast ==
  \A s \in Seq(Transitions), x \in Transitions :
    (<<x>> \o s)[Len(<<x>> \o s)] = LastOf(s, x)
<1> SUFFICES ASSUME NEW s \in Seq(Transitions), NEW x \in Transitions
             PROVE  (<<x>> \o s)[Len(<<x>> \o s)] = LastOf(s, x)
  OBVIOUS
<1> DEFINE a == <<x>>
<1>2. a \in Seq(Transitions) /\ Len(a) = 1 /\ a[1] = x
  OBVIOUS
<1> HIDE DEF a
<1>4. Len(s) \in Nat /\ (s # <<>> => Len(s) > 0) /\ (s = <<>> => Len(s) = 0)
  BY EmptySeq, LenProperties
<1>5. (a \o s)[1 + Len(s)] = IF 1 + Len(s) <= 1 THEN a[1 + Len(s)] ELSE s[Len(s)]
  <2>1. 1 + Len(s) \in 1 .. Len(a) + Len(s) /\ (1 + Len(s)) - 1 = Len(s)
    BY <1>2, <1>4
  <2>2. (a \o s)[1 + Len(s)] =
          IF 1 + Len(s) <= Len(a) THEN a[1 + Len(s)] ELSE s[(1 + Len(s)) - Len(a)]
    BY <1>2, <2>1, ConcatProperties
  <2>3. QED
    BY <1>2, <2>1, <2>2
<1>6. Len(a \o s) = 1 + Len(s)
  <2>1. Len(a \o s) = Len(a) + Len(s)
    BY <1>2, ConcatProperties
  <2>2. QED
    BY <1>2, <2>1
<1>7. CASE s = <<>>
  BY <1>2, <1>4, <1>5, <1>6, <1>7 DEF LastOf, a
<1>8. CASE s # <<>>
  BY <1>4, <1>5, <1>6, <1>8 DEF LastOf, a
<1>9. QED
  BY <1>7, <1>8

----------------------------------------------------------------------------
(* What a step does to the pipelines *)

\* Only an open file has a queue.
QueueInv == \A d \in Devices : file[d] # "open" => kq[d] = <<>>

\* d's pipeline and what is known of its last transition stay.
Keeps(d) == InFlight(d)' = InFlight(d) /\ lost'[d] = lost[d]

\* The newest transitions of d are dropped, and none in silence.
Drops(d) ==
  /\ InFlight(d)' \in Promise!Prefixes(InFlight(d))
  /\ ~lost'[d] => ~lost[d] /\ InFlight(d)' = InFlight(d)

\* The transition e of d joins its pipeline, or is lost.
Joins(d, e) ==
  \E q \in Promise!Prefixes(InFlight(d)) :
    \/ InFlight(d)' = q /\ lost'[d]
    \/ InFlight(d)' = Append(q, e)

LEMMA PrimedTransitions ==
  ASSUME NEW d \in Devices
  PROVE  TransitionsOf(kq[d])' = TransitionsOf(kq'[d])
BY DEF TransitionsOf

\* A pipeline none of whose parts changes is kept.
LEMMA InFlightKept ==
  ASSUME NEW d \in Devices, Applying(d)' = Applying(d),
         pending'[d] = pending[d], kq'[d] = kq[d]
  PROVE  InFlight(d)' = InFlight(d)
<1>1. Sending(d)' = Sending(d)
  BY DEF Sending
<1>2. TransitionsOf(kq[d])' = TransitionsOf(kq[d])
  BY PrimedTransitions
<1>3. QED
  BY <1>1, <1>2 DEF InFlight

\* A pipeline whose queue changes.
LEMMA InFlightQueued ==
  ASSUME NEW d \in Devices, Applying(d)' = Applying(d), pending'[d] = pending[d]
  PROVE  InFlight(d)' = (Applying(d) \o Sending(d)) \o TransitionsOf(kq'[d])
<1>1. Sending(d)' = Sending(d)
  BY DEF Sending
<1>2. QED
  BY <1>1, PrimedTransitions DEF InFlight

\* What the listeners and the devices do leaves the handler's part.
LEMMA ApplyingKept ==
  ASSUME NEW d \in Devices, UNCHANGED <<hpc, hev>>
  PROVE  Applying(d)' = Applying(d)
BY DEF Applying

\* The pipeline a prefix is taken of is one itself.
LEMMA KeptIsDropped ==
  ASSUME TypeOK, NEW d \in Devices, Keeps(d)
  PROVE  Drops(d)
BY InFlightPrefixes DEF Keeps, Drops

\* An emptied queue leaves what was read.
LEMMA QueueEmptied ==
  ASSUME TypeOK, NEW d \in Devices, Applying(d)' = Applying(d),
         pending'[d] = pending[d], kq'[d] = <<>>
  PROVE  /\ InFlight(d)' \in Promise!Prefixes(InFlight(d))
         /\ ~HasTransition(kq[d]) => InFlight(d)' = InFlight(d)
<1>1. InFlight(d)' = (Applying(d) \o Sending(d)) \o <<>>
  BY InFlightQueued, TransitionsOfEmpty
<1>2. Applying(d) \o Sending(d) \in Seq(Transitions)
  BY PartsType, ConcatProperties
<1>3. InFlight(d)' = Applying(d) \o Sending(d)
  BY <1>1, <1>2, ConcatEmptySeq
<1>4. ~HasTransition(kq[d]) => TransitionsOf(kq[d]) = <<>>
  BY NoTransitions DEF TypeOK, DeviceTypeOK
<1>5. QED
  BY <1>1, <1>3, <1>4, InFlightPrefixes DEF InFlight

\* An event of d: its key moves, or the pipeline drops what it had queued.
LEMMA DevicePipelines ==
  ASSUME TypeOK, NEW d \in Devices, DeviceStep(d)
  PROVE  /\ UNCHANGED <<hpc, pressed, applied>>
         /\ \A x \in Devices \ {d} : Keeps(x)
         /\ \/ phys' = phys /\ Drops(d)
            \/ \E e \in Transitions :
                 phys[d] # e /\ phys' = [phys EXCEPT ![d] = e] /\ Joins(d, e)
<1>1. UNCHANGED <<hpc, hev, conn, pressed, applied, pending>> /\ DeviceNext(d)
  BY DEF DeviceStep, listenerVars, handlerVars
<1>2. \A x \in Devices : Applying(x)' = Applying(x)
  BY <1>1, ApplyingKept
<1>3. DeviceTypeOK
  BY DEF TypeOK
<1>4. ASSUME \A x \in Devices \ {d} : kq'[x] = kq[x] /\ lost'[x] = lost[x]
      PROVE  \A x \in Devices \ {d} : Keeps(x)
  BY <1>1, <1>2, <1>4, InFlightKept DEF Keeps
<1> DEFINE B == Applying(d) \o Sending(d)
           T == TransitionsOf(kq[d])
<1>5. B \in Seq(Transitions) /\ T \in Seq(Transitions)
  BY PartsType, ConcatProperties
<1>6. InFlight(d)' = B \o TransitionsOf(kq'[d])
  BY <1>1, <1>2, InFlightQueued
<1>7. \A s \in {<<>>, T} : B \o s \in Promise!Prefixes(InFlight(d))
  <2>1. B \o <<>> = B
    BY <1>5, ConcatEmptySeq
  <2>2. B \o T = InFlight(d)
    BY DEF InFlight
  <2> HIDE DEF B, T
  <2>3. B \in Promise!Prefixes(InFlight(d))
    BY InFlightPrefixes DEF B
  <2>4. InFlight(d) \in Promise!Prefixes(InFlight(d))
    BY InFlightPrefixes
  <2>5. QED
    BY <2>1, <2>2, <2>3, <2>4
<1>8. \A s \in {<<>>, T} : s \in Seq(Transitions)
  <2>1. <<>> \in Seq(Transitions)
    OBVIOUS
  <2> HIDE DEF T
  <2>2. QED
    BY <1>5, <2>1, Zenon
<1>9. InFlight(d) = B \o T
  BY DEF InFlight
<1> HIDE DEF B, T
<1>10. ASSUME NEW e \in Transitions, KeyMoves(d, e)
       PROVE  /\ \A x \in Devices \ {d} : Keeps(x)
              /\ phys[d] # e /\ phys' = [phys EXCEPT ![d] = e] /\ Joins(d, e)
  <2>1. phys[d] # e /\ phys' = [phys EXCEPT ![d] = e]
    BY <1>10 DEF KeyMoves
  <2>2. CASE Enqueue(d, e)
    <3>1. e \in Events /\ IsTransition(e)
      BY DEF Events, IsTransition
    <3>2. \A x \in Devices \ {d} : kq'[x] = kq[x] /\ lost'[x] = lost[x]
      BY <1>3, <2>2, <3>1, EnqueueTransitions
    <3>3. PICK s \in {<<>>, T} : TransitionsOf(kq'[d]) = Append(s, e)
      BY <1>3, <2>2, <3>1, EnqueueTransitions DEF T
    <3>4. Append(B \o s, e) = B \o Append(s, e)
      BY <1>5, <1>8, AppendToConcat
    <3>5. InFlight(d)' = Append(B \o s, e) /\ B \o s \in Promise!Prefixes(InFlight(d))
      BY <1>6, <1>7, <3>3, <3>4
    <3>6. Joins(d, e)
      BY <3>5 DEF Joins
    <3>7. QED
      BY <1>4, <2>1, <3>2, <3>6
  <2>3. CASE lost' = [lost EXCEPT ![d] = TRUE] /\ UNCHANGED kq
    <3>1. /\ \A x \in Devices \ {d} : kq'[x] = kq[x] /\ lost'[x] = lost[x]
          /\ lost'[d] /\ kq'[d] = kq[d]
      BY <1>3, <2>3 DEF DeviceTypeOK
    <3>2. InFlight(d)' = InFlight(d)
      BY <1>1, <1>2, <3>1, InFlightKept
    <3>3. Joins(d, e)
      BY <3>1, <3>2, InFlightPrefixes DEF Joins
    <3>4. QED
      BY <1>4, <2>1, <3>1, <3>3
  <2>4. QED
    BY <1>10, <2>2, <2>3 DEF KeyMoves
<1>11. ASSUME NEW e \in Noise, OtherEvent(d, e)
       PROVE  phys' = phys /\ Drops(d) /\ \A x \in Devices \ {d} : Keeps(x)
  <2>1. e \in Events /\ ~IsTransition(e)
    BY NoiseAssumption DEF Events, IsTransition, Transitions
  <2>2. phys' = phys /\ Enqueue(d, e)
    BY <1>11 DEF OtherEvent
  <2>3. \A x \in Devices \ {d} : kq'[x] = kq[x] /\ lost'[x] = lost[x]
    BY <1>3, <2>1, <2>2, EnqueueTransitions
  <2>4. PICK s \in {<<>>, T} : TransitionsOf(kq'[d]) = s
    BY <1>3, <2>1, <2>2, EnqueueTransitions DEF T
  <2>5. ~lost'[d] => ~lost[d] /\ TransitionsOf(kq'[d]) = T
    BY <1>3, <2>1, <2>2, EnqueueTransitions DEF T
  <2>6. InFlight(d)' \in Promise!Prefixes(InFlight(d))
    BY <1>6, <1>7, <2>4
  <2>7. ~lost'[d] => ~lost[d] /\ InFlight(d)' = InFlight(d)
    BY <1>6, <1>9, <2>5
  <2>8. QED
    BY <1>4, <2>2, <2>3, <2>6, <2>7 DEF Drops
<1>12. ASSUME Unplug(d)
       PROVE  /\ \A x \in Devices \ {d} : Keeps(x)
              /\ \/ phys' = phys /\ Drops(d)
                 \/ phys[d] # "up" /\ phys' = [phys EXCEPT ![d] = "up"] /\ Joins(d, "up")
  <2> DEFINE new == lost[d] \/ phys[d] = "down" \/ HasTransition(kq[d])
  <2>1. lost' = [lost EXCEPT ![d] = new]
    BY <1>12, Zenon DEF Unplug
  <2> HIDE DEF new
  <2>2. lost'[d] = new /\ \A x \in Devices \ {d} : lost'[x] = lost[x]
    BY <1>3, <2>1 DEF DeviceTypeOK
  <2>3. kq'[d] = <<>> /\ \A x \in Devices \ {d} : kq'[x] = kq[x]
    BY <1>3, <1>12 DEF Unplug, DeviceTypeOK
  <2>4. phys' = [phys EXCEPT ![d] = "up"]
    BY <1>12 DEF Unplug
  <2>5. /\ InFlight(d)' \in Promise!Prefixes(InFlight(d))
        /\ ~HasTransition(kq[d]) => InFlight(d)' = InFlight(d)
    BY <1>1, <1>2, <2>3, QueueEmptied
  <2>6. CASE phys[d] = "up"
    <3>1. phys' = phys
      BY <1>3, <2>4, <2>6 DEF DeviceTypeOK
    <3>2. Drops(d)
      BY <2>2, <2>5 DEF Drops, new
    <3>3. QED
      BY <1>4, <2>2, <2>3, <3>1, <3>2
  <2>7. CASE phys[d] # "up"
    <3>1. phys[d] = "down"
      BY <1>3, <2>7 DEF DeviceTypeOK, Transitions
    <3>2. lost'[d]
      BY <2>2, <3>1 DEF new
    <3>3. Joins(d, "up")
      BY <2>5, <3>2 DEF Joins
    <3>4. QED
      BY <1>4, <2>2, <2>3, <2>4, <2>7, <3>3
  <2>8. QED
    BY <2>6, <2>7
<1>13. ASSUME Plug(d)
       PROVE  phys' = phys /\ Drops(d) /\ \A x \in Devices \ {d} : Keeps(x)
  <2>1. phys' = phys /\ kq' = kq /\ lost' = lost
    BY <1>13 DEF Plug
  <2>2. \A x \in Devices : Keeps(x)
    BY <1>1, <1>2, <2>1, InFlightKept DEF Keeps
  <2>3. QED
    BY <2>1, <2>2, KeptIsDropped
<1>14. "up" \in Transitions
  BY DEF Transitions
<1>15. ASSUME Fault(d)
       PROVE  phys' = phys /\ Drops(d) /\ \A x \in Devices \ {d} : Keeps(x)
  <2> DEFINE new == lost[d] \/ HasTransition(kq[d])
  <2>1. lost' = [lost EXCEPT ![d] = new]
    BY <1>15, Zenon DEF Fault
  <2> HIDE DEF new
  <2>2. lost'[d] = new /\ \A x \in Devices \ {d} : lost'[x] = lost[x]
    BY <1>3, <2>1 DEF DeviceTypeOK
  <2>3. kq'[d] = <<>> /\ \A x \in Devices \ {d} : kq'[x] = kq[x]
    BY <1>3, <1>15 DEF Fault, DeviceTypeOK
  <2>4. /\ InFlight(d)' \in Promise!Prefixes(InFlight(d))
        /\ ~HasTransition(kq[d]) => InFlight(d)' = InFlight(d)
    BY <1>1, <1>2, <2>3, QueueEmptied
  <2>5. Drops(d)
    BY <2>2, <2>4 DEF Drops, new
  <2>6. QED
    BY <1>4, <1>15, <2>2, <2>3, <2>5 DEF Fault
<1>16. QED
  BY <1>1, <1>10, <1>11, <1>12, <1>13, <1>14, <1>15 DEF DeviceNext

\* A listener's step keeps the pipelines or drops the end of its own.
LEMMA ListenerPipelines ==
  ASSUME TypeOK, FileInv, QueueInv, NEW d \in Devices, ListenerStep(d)
  PROVE  /\ UNCHANGED <<hpc, pressed, applied, phys>>
         /\ \A x \in Devices \ {d} : Keeps(x)
         /\ Drops(d)
<1>1. UNCHANGED <<hpc, hev, conn, pressed, applied>> /\ ListenerNext(d)
  BY DEF ListenerStep, handlerVars
<1>2. \A x \in Devices : Applying(x)' = Applying(x)
  BY <1>1, ApplyingKept
<1>3. DeviceTypeOK /\ ListenerTypeOK
  BY DEF TypeOK
<1>4. phys' = phys
  BY <1>1 DEF ListenerNext, Open, OpenRefused, InitOk, InitFails,
         Capable, Incapable, ReadEvent, ReadFails, SendCanceled, WatcherFires,
         RetryTimer, WaitCanceled, KeepsDevice
<1>5. SUFFICES (\A x \in Devices \ {d} : Keeps(x)) /\ Drops(d)
  BY <1>1, <1>4
<1>6. ASSUME \A x \in Devices \ {d} :
               kq'[x] = kq[x] /\ lost'[x] = lost[x] /\ pending'[x] = pending[x]
      PROVE  \A x \in Devices \ {d} : Keeps(x)
  BY <1>2, <1>6, InFlightKept DEF Keeps
<1>7. ASSUME UNCHANGED <<kq, lost, pending>>
      PROVE  (\A x \in Devices \ {d} : Keeps(x)) /\ Drops(d)
  <2>1. Keeps(d)
    BY <1>2, <1>7, InFlightKept DEF Keeps
  <2>2. QED
    BY <1>6, <1>7, <2>1, KeptIsDropped
<1>8. CASE \/ OpenRefused(d) \/ InitOk(d) \/ Capable(d)
           \/ RetryTimer(d) \/ WaitCanceled(d)
  BY <1>7, <1>8 DEF OpenRefused, KeepsFile, InitOk, Capable, RetryTimer,
     WaitCanceled
<1>9. CASE Open(d)
  <2>1. kq[d] = <<>>
    BY <1>9 DEF Open, FileInv, QueueInv
  <2>2. kq' = [kq EXCEPT ![d] = <<>>] /\ UNCHANGED <<lost, pending>>
    BY <1>9 DEF Open, OpenFile
  <2>3. kq' = kq
    BY <1>3, <2>1, <2>2 DEF DeviceTypeOK
  <2>4. QED
    BY <1>7, <2>2, <2>3
<1>10. ASSUME NEW retry, NEW err, Return(d, retry, err)
       PROVE  (\A x \in Devices \ {d} : Keeps(x)) /\ Drops(d)
  <2> DEFINE new == lost[d] \/ pending[d] # "none" \/ HasTransition(kq[d])
  <2>1. lost' = [lost EXCEPT ![d] = new]
    BY <1>10, Zenon DEF Return, CloseFile
  <2> HIDE DEF new
  <2>2. lost'[d] = new /\ \A x \in Devices \ {d} : lost'[x] = lost[x]
    BY <1>3, <2>1 DEF DeviceTypeOK
  <2>3. /\ kq'[d] = <<>> /\ pending'[d] = "none"
        /\ \A x \in Devices \ {d} : kq'[x] = kq[x] /\ pending'[x] = pending[x]
    BY <1>3, <1>10 DEF Return, CloseFile, DeviceTypeOK, ListenerTypeOK
  <2>4. InFlight(d)' = Applying(d)
    <3>1. Sending(d)' = <<>>
      BY <2>3 DEF Sending
    <3>2. TransitionsOf(kq[d])' = <<>>
      BY <2>3, PrimedTransitions, TransitionsOfEmpty
    <3>3. Applying(d) \in Seq(Transitions)
      BY PartsType
    <3>4. InFlight(d)' = (Applying(d) \o <<>>) \o <<>>
      BY <1>2, <3>1, <3>2 DEF InFlight
    <3>5. QED
      BY <3>3, <3>4, ConcatEmptySeq
  <2>5. ~new => InFlight(d) = Applying(d)
    <3>1. SUFFICES ASSUME ~new
                   PROVE  InFlight(d) = Applying(d)
      OBVIOUS
    <3>2. Sending(d) = <<>>
      BY <3>1 DEF new, Sending
    <3>3. TransitionsOf(kq[d]) = <<>>
      BY <1>3, <3>1, NoTransitions DEF new, DeviceTypeOK
    <3>4. Applying(d) \in Seq(Transitions)
      BY PartsType
    <3>5. InFlight(d) = (Applying(d) \o <<>>) \o <<>>
      BY <3>2, <3>3 DEF InFlight
    <3>6. QED
      BY <3>4, <3>5, ConcatEmptySeq
  <2>6. ~new => ~lost[d]
    BY DEF new
  <2>7. Drops(d)
    BY <2>2, <2>4, <2>5, <2>6, InFlightPrefixes DEF Drops
  <2>8. QED
    BY <1>6, <2>2, <2>3, <2>7
<1>11. CASE Incapable(d) \/ ReadFails(d) \/ SendCanceled(d)
  BY <1>10, <1>11 DEF Incapable, ReadFails, SendCanceled
<1>12. ASSUME NEW l, CloseFile(d, l, FALSE), pending' = pending
       PROVE  (\A x \in Devices \ {d} : Keeps(x)) /\ Drops(d)
  <2> DEFINE new == lost[d] \/ FALSE \/ HasTransition(kq[d])
  <2>1. lost' = [lost EXCEPT ![d] = new]
    BY <1>12, Zenon DEF CloseFile
  <2> HIDE DEF new
  <2>2. lost'[d] = new /\ \A x \in Devices \ {d} : lost'[x] = lost[x]
    BY <1>3, <2>1 DEF DeviceTypeOK
  <2>3. /\ kq'[d] = <<>> /\ pending' = pending
        /\ \A x \in Devices \ {d} : kq'[x] = kq[x]
    BY <1>3, <1>12 DEF CloseFile, DeviceTypeOK
  <2>4. /\ InFlight(d)' \in Promise!Prefixes(InFlight(d))
        /\ ~HasTransition(kq[d]) => InFlight(d)' = InFlight(d)
    BY <1>2, <2>3, QueueEmptied
  <2>5. Drops(d)
    BY <2>2, <2>4 DEF Drops, new
  <2>6. QED
    BY <1>6, <2>2, <2>3, <2>5
<1>14. CASE WatcherFires(d) \/ InitFails(d)
  BY <1>12, <1>14 DEF WatcherFires, InitFails, AbandonFile
<1>13. CASE ReadEvent(d)
  <2> DEFINE K == Kept(Head(kq[d]))
             R == TransitionsOf(Tail(kq[d]))
             A == Applying(d)
  <2>1. /\ kq[d] \in Seq(Events) /\ kq[d] # <<>> /\ Tail(kq[d]) \in Seq(Events)
        /\ Head(kq[d]) \in Events
    BY <1>3, <1>13, HeadTailProperties DEF ReadEvent, DeviceTypeOK
  <2>2. /\ lost' = lost /\ kq'[d] = Tail(kq[d]) /\ pending'[d] = Classify(Head(kq[d]))
        /\ \A x \in Devices \ {d} : kq'[x] = kq[x] /\ pending'[x] = pending[x]
    BY <1>3, <1>13 DEF ReadEvent, DeviceTypeOK, ListenerTypeOK
  <2>3. Sending(d) = <<>>
    BY <1>3, <1>13 DEF ReadEvent, Sending, ListenerTypeOK
  <2>4. Sending(d)' = K
    BY <2>1, <2>2 DEF Sending, Classify, Kept, IsTransition, Transitions
  <2>5. TransitionsOf(kq[d]) = K \o R
    BY <2>1, TransitionsOfTail
  <2>6. TransitionsOf(kq[d])' = R
    BY <2>2, PrimedTransitions
  <2>7. K \in Seq(Transitions)
    BY DEF Kept, IsTransition
  <2>8. R \in Seq(Transitions) /\ A \in Seq(Transitions)
    BY <2>1, TransitionsType, PartsType
  <2>9. InFlight(d)' = (A \o K) \o R
    BY <1>2, <2>4, <2>6 DEF InFlight
  <2>10. InFlight(d) = (A \o <<>>) \o (K \o R)
    BY <2>3, <2>5 DEF InFlight
  <2> HIDE DEF A, K, R
  <2>11. InFlight(d)' = InFlight(d)
    <3>1. A \o <<>> = A
      BY <2>8, ConcatEmptySeq
    <3>2. (A \o K) \o R = A \o (K \o R)
      BY <2>7, <2>8, ConcatAssociative
    <3>3. QED
      BY <2>9, <2>10, <3>1, <3>2
  <2>12. Keeps(d)
    BY <2>2, <2>11 DEF Keeps
  <2>13. QED
    BY <1>6, <2>2, <2>12, KeptIsDropped
<1>15. QED
  BY <1>1, <1>8, <1>9, <1>11, <1>13, <1>14 DEF ListenerNext

\* The rendezvous hands the transition on.
LEMMA DeliverPipelines ==
  ASSUME TypeOK, NEW d \in Devices, Deliver(d)
  PROVE  /\ UNCHANGED <<pressed, applied, phys>> /\ hpc # "done" /\ hpc' # "done"
         /\ \A x \in Devices : Keeps(x)
<1>1. /\ UNCHANGED <<pressed, applied, phys, kq, lost>>
      /\ hpc = "select" /\ hpc' = "apply"
      /\ hev' = [dev |-> d, type |-> pending[d]]
      /\ pending' = [pending EXCEPT ![d] = "none"] /\ lpc[d] = "send"
  BY DEF Deliver, Receive, deviceVars
<1>2. pending[d] # "none" /\ pending[d] \in Transitions
  BY <1>1 DEF TypeOK, ListenerTypeOK
<1>3. ASSUME NEW x \in Devices \ {d}
      PROVE  InFlight(x)' = InFlight(x)
  <2>1. Applying(x)' = Applying(x)
    BY <1>1 DEF Applying
  <2>2. pending'[x] = pending[x] /\ kq'[x] = kq[x]
    BY <1>1 DEF TypeOK, ListenerTypeOK
  <2>3. QED
    BY <2>1, <2>2, InFlightKept
<1>4. InFlight(d)' = InFlight(d)
  <2> DEFINE P == <<pending[d]>>
             T == TransitionsOf(kq[d])
  <2>1. Applying(d) = <<>> /\ Applying(d)' = P
    BY <1>1 DEF Applying
  <2>2. Sending(d) = P /\ Sending(d)' = <<>>
    BY <1>1, <1>2 DEF Sending, TypeOK, ListenerTypeOK
  <2>3. T' = T
    BY <1>1, PrimedTransitions
  <2>4. P \in Seq(Transitions)
    BY <1>2
  <2>5. InFlight(d)' = (P \o <<>>) \o T
    BY <2>1, <2>2, <2>3 DEF InFlight
  <2>6. InFlight(d) = (<<>> \o P) \o T
    BY <2>1, <2>2 DEF InFlight
  <2> HIDE DEF P, T
  <2>7. P \o <<>> = P /\ <<>> \o P = P
    BY <2>4, ConcatEmptySeq
  <2>8. QED
    BY <2>5, <2>6, <2>7
<1>5. QED
  BY <1>1, <1>3, <1>4 DEF Keeps

\* An injection takes the oldest transition of its device.
LEMMA ApplyPipelines ==
  ASSUME TypeOK, NEW d \in Devices, hpc = "apply", hev.dev = d, hpc' # "apply",
         UNCHANGED <<deviceVars, listenerVars>>
  PROVE  /\ phys' = phys /\ lost' = lost
         /\ \A x \in Devices \ {d} : Keeps(x)
         /\ InFlight(d)' \in Seq(Transitions)
         /\ InFlight(d) = <<hev.type>> \o InFlight(d)'
<1> DEFINE A == <<hev.type>>
           S == Sending(d)
           T == TransitionsOf(kq[d])
<1>1. UNCHANGED <<phys, kq, lost, pending>>
  BY DEF deviceVars, listenerVars
<1>2. ASSUME NEW x \in Devices \ {d}
      PROVE  Keeps(x)
  <2>1. Applying(x)' = Applying(x)
    BY DEF Applying
  <2>2. InFlight(x)' = InFlight(x)
    BY <1>1, <2>1, InFlightKept
  <2>3. QED
    BY <1>1, <2>2 DEF Keeps
<1>3. S \in Seq(Transitions) /\ T \in Seq(Transitions) /\ A \in Seq(Transitions)
  <2>1. A \in Seq(Transitions)
    BY DEF TypeOK, HandlerTypeOK, Event
  <2>2. QED
    BY <2>1, PartsType
<1>4. InFlight(d) = (A \o S) \o T
  BY DEF InFlight, Applying
<1>5. InFlight(d)' = (<<>> \o S) \o T
  <2>1. Applying(d)' = <<>>
    BY DEF Applying
  <2>2. S' = S
    BY <1>1 DEF Sending
  <2>3. T' = T
    BY <1>1, PrimedTransitions
  <2>4. QED
    BY <2>1, <2>2, <2>3 DEF InFlight
<1> HIDE DEF A, S, T
<1>6. <<>> \o S = S /\ S \o T \in Seq(Transitions)
  BY <1>3, ConcatEmptySeq, ConcatProperties
<1>7. (A \o S) \o T = A \o (S \o T)
  BY <1>3, ConcatAssociative
<1>8. QED
  BY <1>1, <1>2, <1>4, <1>5, <1>6, <1>7 DEF A

\* The handler's other steps leave every pipeline alone.
LEMMA HandlerPipelines ==
  ASSUME TypeOK, UNCHANGED <<deviceVars, listenerVars>>,
         hpc # "apply", hpc' # "apply"
  PROVE  phys' = phys /\ \A x \in Devices : Keeps(x)
<1>1. UNCHANGED <<phys, kq, lost, pending>>
  BY DEF deviceVars, listenerVars
<1>2. \A x \in Devices : Applying(x)' = Applying(x)
  BY DEF Applying
<1>3. QED
  BY <1>1, <1>2, InFlightKept DEF Keeps

\* A step of the program and its environment, as the pipelines see it.
PipelineStep ==
  \/ /\ UNCHANGED <<phys, pressed, applied>> /\ (hpc' = "done" <=> hpc = "done")
     /\ \A x \in Devices : Keeps(x)
  \/ /\ UNCHANGED <<hpc, pressed, applied>>
     /\ \E d \in Devices :
          /\ \A x \in Devices \ {d} : Keeps(x)
          /\ \/ phys' = phys /\ Drops(d)
             \/ \E e \in Transitions :
                  phys[d] # e /\ phys' = [phys EXCEPT ![d] = e] /\ Joins(d, e)
  \/ /\ phys' = phys
     /\ \E d \in Devices, e \in Transitions :
          /\ \A x \in Devices \ {d} : Keeps(x)
          /\ lost' = lost
          /\ InFlight(d)' \in Seq(Transitions)
          /\ InFlight(d) = <<e>> \o InFlight(d)'
          /\ hpc # "done"
          /\ \/ /\ hpc' # "done"
                /\ applied' = [applied EXCEPT ![d] = e] /\ pressed' = (e = "down")
             \/ hpc' = "done" /\ (pressed' = (e = "down") \/ pressed' = pressed)
  \/ /\ UNCHANGED <<phys, pressed>> /\ hpc # "done" /\ hpc' = "done"
     /\ \A x \in Devices : Keeps(x)

LEMMA NextPipelines ==
  ASSUME TypeOK, FileInv, QueueInv, [Next]_vars
  PROVE  PipelineStep
<1>1. ASSUME NEW d \in Devices, ListenerStep(d)
      PROVE  PipelineStep
  BY <1>1, ListenerPipelines DEF PipelineStep
<1>2. ASSUME NEW d \in Devices, DeviceStep(d)
      PROVE  PipelineStep
  BY <1>2, DevicePipelines DEF PipelineStep
<1>3. ASSUME NEW d \in Devices, Deliver(d)
      PROVE  PipelineStep
  BY <1>3, DeliverPipelines DEF PipelineStep
<1>4. CASE HandlerStep
  <2>1. UNCHANGED <<deviceVars, listenerVars>>
    BY <1>4 DEF HandlerStep
  <2>2. CASE OpenOk
    <3>1. hpc = "open" /\ hpc' = "select" /\ UNCHANGED <<pressed, applied>>
      BY <2>2 DEF OpenOk
    <3>2. QED
      BY <2>1, <3>1, HandlerPipelines DEF PipelineStep
  <2>3. CASE OpenFails \/ HandleCanceled
    <3>1. hpc \in {"open", "select"} /\ hpc' = "done" /\ UNCHANGED <<pressed, applied>>
      BY <2>3 DEF OpenFails, HandleCanceled, HandleReturns
    <3>2. QED
      BY <2>1, <3>1, HandlerPipelines DEF PipelineStep
  <2>4. ASSUME hpc = "apply"
        PROVE  hev.dev \in Devices /\ hev.type \in Transitions
    BY <2>4 DEF TypeOK, HandlerTypeOK, Event
  <2>5. ASSUME NEW d \in Devices, NEW e \in Transitions, hev.dev = d, hev.type = e,
               ApplyOk
        PROVE  PipelineStep
    <3>1. /\ hpc = "apply" /\ hpc' = "select"
          /\ applied' = [applied EXCEPT ![d] = e] /\ pressed' = (e = "down")
      BY <2>5 DEF ApplyOk
    <3>2. /\ phys' = phys /\ lost' = lost
          /\ \A x \in Devices \ {d} : Keeps(x)
          /\ InFlight(d)' \in Seq(Transitions)
          /\ InFlight(d) = <<e>> \o InFlight(d)'
      BY <2>1, <2>5, <3>1, ApplyPipelines
    <3>3. hpc # "done" /\ hpc' # "done"
      BY <3>1
    <3>4. QED
      BY <3>1, <3>2, <3>3, Zenon DEF PipelineStep
  <2>6. ASSUME NEW d \in Devices, NEW e \in Transitions, hev.dev = d, hev.type = e,
               ApplyFails
        PROVE  PipelineStep
    <3>1. /\ hpc = "apply" /\ hpc' = "done"
          /\ pressed' = (e = "down") \/ pressed' = pressed
      BY <2>6 DEF ApplyFails, HandleReturns
    <3>2. /\ phys' = phys /\ lost' = lost
          /\ \A x \in Devices \ {d} : Keeps(x)
          /\ InFlight(d)' \in Seq(Transitions)
          /\ InFlight(d) = <<e>> \o InFlight(d)'
      BY <2>1, <2>6, <3>1, ApplyPipelines
    <3>3. hpc # "done" /\ hpc' = "done"
      BY <3>1
    <3>4. QED
      BY <3>1, <3>2, <3>3, Zenon DEF PipelineStep
  <2>7. CASE ApplyOk
    BY <2>4, <2>5, <2>7 DEF ApplyOk
  <2>8. CASE ApplyFails
    BY <2>4, <2>6, <2>8 DEF ApplyFails
  <2>9. QED
    BY <1>4, <2>2, <2>3, <2>7, <2>8 DEF HandlerStep, HandlerNext
<1>5. CASE ListenersDone \/ Exit \/ Interrupt \/ Terminated \/ UNCHANGED vars
  <2>1. UNCHANGED <<deviceVars, listenerVars, handlerVars>>
    BY <1>5 DEF ListenersDone, Exit, Interrupt, Terminated, vars
  <2>2. UNCHANGED <<phys, pressed, applied, hpc, hev, kq, lost, pending>>
    BY <2>1 DEF deviceVars, listenerVars, handlerVars
  <2>3. \A x \in Devices : Keeps(x)
    BY <2>2, ApplyingKept, InFlightKept DEF Keeps
  <2>4. QED
    BY <2>2, <2>3 DEF PipelineStep
<1>6. QED
  BY <1>1, <1>2, <1>3, <1>4, <1>5 DEF Next, ProgramStep

----------------------------------------------------------------------------
(* The pipeline's invariants *)

\* Closing a file, losing the device and opening it leave no queue behind, and
\* events join the queue of an open file only.
LEMMA QueueInvStep ==
  ASSUME TypeOK, FileInv, QueueInv, [Next]_vars
  PROVE  QueueInv'
<1> USE DEF QueueInv
<1>1. DeviceTypeOK
  BY DEF TypeOK
<1>2. CASE UNCHANGED <<file, kq>>
  BY <1>2
<1>3. ASSUME NEW d \in Devices, NEW l, NEW b, CloseFile(d, l, b)
      PROVE  QueueInv'
  BY <1>1, <1>3 DEF CloseFile, DeviceTypeOK
<1>4. ASSUME NEW d \in Devices, ListenerNext(d)
      PROVE  QueueInv'
  <2>1. CASE Open(d)
    BY <1>1, <2>1 DEF Open, OpenFile, DeviceTypeOK
  <2>2. CASE \/ Incapable(d) \/ ReadFails(d) \/ SendCanceled(d)
             \/ WatcherFires(d) \/ InitFails(d)
    BY <1>3, <2>2 DEF Incapable, ReadFails, SendCanceled, WatcherFires, Return,
                      InitFails, AbandonFile
  <2>3. CASE ReadEvent(d)
    BY <1>1, <2>3 DEF ReadEvent, DeviceTypeOK
  <2>4. CASE \/ OpenRefused(d) \/ InitOk(d) \/ Capable(d)
             \/ RetryTimer(d) \/ WaitCanceled(d)
    BY <1>2, <2>4 DEF OpenRefused, KeepsFile, InitOk, Capable, RetryTimer,
       WaitCanceled
  <2>5. QED
    BY <1>4, <2>1, <2>2, <2>3, <2>4 DEF ListenerNext
<1>5. ASSUME NEW d \in Devices, DeviceNext(d)
      PROVE  QueueInv'
  <2>1. ASSUME NEW e \in Transitions, KeyMoves(d, e)
        PROVE  QueueInv'
    BY <1>1, <2>1 DEF KeyMoves, Enqueue, DeviceTypeOK
  <2>2. ASSUME NEW e \in Noise, OtherEvent(d, e)
        PROVE  QueueInv'
    BY <1>1, <2>2 DEF OtherEvent, Enqueue, DeviceTypeOK
  <2>3. CASE Unplug(d)
    BY <1>1, <2>3 DEF Unplug, DeviceTypeOK
  <2>4. CASE Plug(d)
    BY <1>2, <2>4 DEF Plug
  <2>5. CASE Fault(d)
    BY <1>1, <2>5 DEF Fault, DeviceTypeOK
  <2>6. QED
    BY <1>5, <2>1, <2>2, <2>3, <2>4, <2>5 DEF DeviceNext
<1>6. CASE \E d \in Devices : ListenerStep(d)
  BY <1>4, <1>6 DEF ListenerStep
<1>7. CASE \E d \in Devices : DeviceStep(d)
  BY <1>5, <1>7 DEF DeviceStep
<1>8. CASE \/ \E d \in Devices : Deliver(d)
           \/ HandlerStep \/ ListenersDone \/ Exit \/ Interrupt \/ Terminated
           \/ UNCHANGED vars
  BY <1>2, <1>8 DEF Deliver, HandlerStep, ListenersDone, Exit, Interrupt, Terminated,
     vars, deviceVars
<1>9. QED
  BY <1>6, <1>7, <1>8 DEF Next, ProgramStep

LEMMA LastOfAppend ==
  \A q \in Seq(Transitions), e, x \in Transitions : LastOf(Append(q, e), x) = e
<1> SUFFICES ASSUME NEW q \in Seq(Transitions), NEW e \in Transitions,
                    NEW x \in Transitions
             PROVE  LastOf(Append(q, e), x) = e
  OBVIOUS
<1>1. /\ Append(q, e) \in Seq(Transitions) /\ Append(q, e) # <<>>
      /\ Len(Append(q, e)) = Len(q) + 1 /\ Append(q, e)[Len(q) + 1] = e
  BY AppendProperties
<1>2. QED
  BY <1>1 DEF LastOf

LEMMA LastOfCons ==
  \A s \in Seq(Transitions), e, x \in Transitions : LastOf(<<e>> \o s, x) = LastOf(s, e)
<1> SUFFICES ASSUME NEW s \in Seq(Transitions), NEW e \in Transitions,
                    NEW x \in Transitions
             PROVE  LastOf(<<e>> \o s, x) = LastOf(s, e)
  OBVIOUS
<1> DEFINE a == <<e>>
<1>1. a \in Seq(Transitions) /\ Len(a) = 1 /\ a[1] = e
  OBVIOUS
<1>2. Len(s) \in Nat /\ (s # <<>> => Len(s) > 0) /\ (s = <<>> => Len(s) = 0)
  BY EmptySeq, LenProperties
<1> HIDE DEF a
<1>3. /\ a \o s \in Seq(Transitions) /\ Len(a \o s) = Len(a) + Len(s)
      /\ \A i \in 1 .. Len(a) + Len(s) :
           (a \o s)[i] = IF i <= Len(a) THEN a[i] ELSE s[i - Len(a)]
  BY <1>1, ConcatProperties
<1>4. Len(a \o s) = 1 + Len(s) /\ a \o s # <<>>
  BY <1>1, <1>2, <1>3, EmptySeq
<1>5. LastOf(a \o s, x) = (a \o s)[1 + Len(s)]
  BY <1>4 DEF LastOf
<1>6. 1 + Len(s) \in 1 .. Len(a) + Len(s) /\ (1 + Len(s)) - Len(a) = Len(s)
  BY <1>1, <1>2
<1>7. (a \o s)[1 + Len(s)] = IF 1 + Len(s) <= 1 THEN a[1 + Len(s)] ELSE s[Len(s)]
  BY <1>1, <1>3, <1>6
<1>8. CASE s = <<>>
  <2>1. Len(s) = 0
    BY <1>2, <1>8
  <2>2. (a \o s)[1 + Len(s)] = a[1]
    BY <1>7, <2>1
  <2>3. LastOf(s, e) = e
    BY <1>8 DEF LastOf
  <2>4. QED
    BY <1>1, <1>5, <2>2, <2>3 DEF a
<1>9. CASE s # <<>>
  <2>1. ~(1 + Len(s) <= 1)
    BY <1>2, <1>9
  <2>2. LastOf(s, e) = s[Len(s)]
    BY <1>9 DEF LastOf
  <2>3. QED
    BY <1>5, <1>7, <2>1, <2>2 DEF a
<1>10. QED
  BY <1>8, <1>9

\* A prefix of a sequence of transitions is one.
LEMMA PrefixType ==
  \A s \in Seq(Transitions) : Promise!Prefixes(s) \subseteq Seq(Transitions)
<1> SUFFICES ASSUME NEW s \in Seq(Transitions), NEW k \in 0 .. Len(s)
             PROVE  SubSeq(s, 1, k) \in Seq(Transitions)
  BY DEF Promise!Prefixes
<1>1. Len(s) \in Nat
  BY LenProperties
<1>2. CASE k = 0
  <2>1. SubSeq(s, 1, k) = <<>>
    BY <1>2, SubSeqEmpty
  <2>2. <<>> \in Seq(Transitions)
    OBVIOUS
  <2>3. QED
    BY <2>1, <2>2, Zenon
<1>3. CASE k # 0
  <2>1. \A i \in 1 .. k : s[i] \in Transitions
    BY <1>1, ElementOfSeq
  <2>2. QED
    BY <1>1, <1>3, <2>1, SubSeqProperties
<1>4. QED
  BY <1>2, <1>3

LEMMA LatestOf ==
  ASSUME TypeOK, NEW d \in Devices
  PROVE  Latest(d) = LastOf(InFlight(d), applied[d])
<1>1. InFlight(d) \in Seq(Transitions) /\ applied[d] \in Transitions
  BY InFlightType DEF TypeOK, HandlerTypeOK
<1>2. QED
  BY <1>1, LatestIsLast DEF Latest

\* The end of a pipeline is what its key did last.
LEMMA PipelineEndsStep ==
  ASSUME TypeOK, PipelineEndsAtKey, PipelineStep
  PROVE  PipelineEndsAtKey'
<1> SUFFICES ASSUME hpc' # "done", NEW d \in Devices
             PROVE  lost'[d] \/ Latest(d)' = phys'[d]
  BY DEF PipelineEndsAtKey
<1>1. /\ InFlight(d) \in Seq(Transitions)
      /\ phys[d] \in Transitions /\ applied[d] \in Transitions
  BY InFlightType DEF TypeOK, DeviceTypeOK, HandlerTypeOK
<1>2. ASSUME NEW x \in Transitions, applied'[d] = x,
             InFlight(d)' \in Seq(Transitions)
      PROVE  Latest(d)' = LastOf(InFlight(d)', x)
  BY <1>2, LatestIsLast DEF Latest
<1>3. Latest(d) = LastOf(InFlight(d), applied[d])
  BY LatestOf
<1>4. hpc # "done" => lost[d] \/ Latest(d) = phys[d]
  BY DEF PipelineEndsAtKey
<1>5. ASSUME Keeps(d), hpc # "done", phys'[d] = phys[d], applied'[d] = applied[d]
      PROVE  lost'[d] \/ Latest(d)' = phys'[d]
  BY <1>1, <1>2, <1>3, <1>4, <1>5 DEF Keeps
<1>6. ASSUME Drops(d), hpc # "done", phys'[d] = phys[d], applied'[d] = applied[d]
      PROVE  lost'[d] \/ Latest(d)' = phys'[d]
  BY <1>1, <1>2, <1>3, <1>4, <1>6 DEF Drops
<1>7. ASSUME NEW e \in Transitions, Joins(d, e), phys'[d] = e, applied'[d] = applied[d]
      PROVE  lost'[d] \/ Latest(d)' = phys'[d]
  <2>1. PICK q \in Promise!Prefixes(InFlight(d)) :
          \/ InFlight(d)' = q /\ lost'[d]
          \/ InFlight(d)' = Append(q, e)
    BY <1>7 DEF Joins
  <2>2. q \in Seq(Transitions)
    BY <1>1, PrefixType
  <2>3. CASE InFlight(d)' = Append(q, e)
    <3>1. Append(q, e) \in Seq(Transitions)
      BY <2>2, AppendProperties
    <3>2. Latest(d)' = LastOf(Append(q, e), applied[d])
      BY <1>1, <1>2, <1>7, <2>3, <3>1
    <3>3. QED
      BY <1>1, <1>7, <2>2, <3>2, LastOfAppend
  <2>4. QED
    BY <2>1, <2>3
<1>8. ASSUME NEW e \in Transitions, lost' = lost, phys' = phys, hpc # "done",
             InFlight(d)' \in Seq(Transitions), InFlight(d) = <<e>> \o InFlight(d)',
             applied'[d] = e
      PROVE  lost'[d] \/ Latest(d)' = phys'[d]
  <2>1. Latest(d)' = LastOf(InFlight(d)', e)
    BY <1>2, <1>8
  <2>2. Latest(d) = LastOf(InFlight(d)', e)
    BY <1>1, <1>3, <1>8, LastOfCons
  <2>3. QED
    BY <1>4, <1>8, <2>1, <2>2
<1>9. CASE /\ UNCHANGED <<phys, applied>> /\ hpc # "done"
           /\ Keeps(d)
  BY <1>5, <1>9
<1>10. CASE /\ UNCHANGED <<hpc, applied>>
            /\ \E x \in Devices :
                 /\ \A y \in Devices \ {x} : Keeps(y)
                 /\ \/ phys' = phys /\ Drops(x)
                    \/ \E e \in Transitions :
                         phys[x] # e /\ phys' = [phys EXCEPT ![x] = e] /\ Joins(x, e)
  <2>1. PICK x \in Devices :
          /\ \A y \in Devices \ {x} : Keeps(y)
          /\ \/ phys' = phys /\ Drops(x)
             \/ \E e \in Transitions :
                  phys[x] # e /\ phys' = [phys EXCEPT ![x] = e] /\ Joins(x, e)
    BY <1>10
  <2>2. CASE x # d
    <3>1. Keeps(d) /\ phys'[d] = phys[d]
      BY <2>1, <2>2 DEF TypeOK, DeviceTypeOK
    <3>2. QED
      BY <1>5, <1>10, <3>1
  <2>3. CASE x = d
    <3>1. CASE phys' = phys /\ Drops(d)
      BY <1>6, <1>10, <3>1
    <3>2. ASSUME NEW e \in Transitions, phys' = [phys EXCEPT ![d] = e], Joins(d, e)
          PROVE  lost'[d] \/ Latest(d)' = phys'[d]
      <4>1. phys'[d] = e /\ applied'[d] = applied[d]
        BY <1>10, <3>2 DEF TypeOK, DeviceTypeOK
      <4>2. QED
        BY <1>7, <3>2, <4>1
    <3>3. QED
      BY <2>1, <2>3, <3>1, <3>2
  <2>4. QED
    BY <2>2, <2>3
<1>11. CASE /\ phys' = phys
            /\ \E x \in Devices, e \in Transitions :
                 /\ \A y \in Devices \ {x} : Keeps(y)
                 /\ lost' = lost
                 /\ InFlight(x)' \in Seq(Transitions)
                 /\ InFlight(x) = <<e>> \o InFlight(x)'
                 /\ hpc # "done"
                 /\ applied' = [applied EXCEPT ![x] = e]
  <2>1. PICK x \in Devices, e \in Transitions :
          /\ \A y \in Devices \ {x} : Keeps(y)
          /\ lost' = lost
          /\ InFlight(x)' \in Seq(Transitions)
          /\ InFlight(x) = <<e>> \o InFlight(x)'
          /\ hpc # "done"
          /\ applied' = [applied EXCEPT ![x] = e]
    BY <1>11
  <2>2. CASE x # d
    <3>1. Keeps(d) /\ applied'[d] = applied[d]
      BY <2>1, <2>2 DEF TypeOK, HandlerTypeOK
    <3>2. QED
      BY <1>5, <1>11, <2>1, <3>1
  <2>3. CASE x = d
    <3>1. applied'[d] = e
      BY <2>1, <2>3 DEF TypeOK, HandlerTypeOK
    <3>2. QED
      BY <1>8, <1>11, <2>1, <2>3, <3>1
  <2>4. QED
    BY <2>2, <2>3
<1>12. QED
  BY <1>9, <1>10, <1>11 DEF PipelineStep

\* Between injections the server shows the last one of some device: of the one
\* that was served last.
PressedInv ==
  hpc # "done" /\ Devices # {} =>
    \E d \in Devices : pressed <=> (applied[d] = "down")

LEMMA PressedInvStep ==
  ASSUME TypeOK, PressedInv, PipelineStep
  PROVE  PressedInv'
<1>1. CASE UNCHANGED <<pressed, applied>> /\ (hpc' # "done" => hpc # "done")
  BY <1>1 DEF PressedInv
<1>2. ASSUME NEW d \in Devices, NEW e \in Transitions,
             applied' = [applied EXCEPT ![d] = e], pressed' = (e = "down")
      PROVE  PressedInv'
  <2>1. applied'[d] = e
    BY <1>2 DEF TypeOK, HandlerTypeOK
  <2>2. pressed' <=> (applied'[d] = "down")
    BY <1>2, <2>1, Zenon
  <2>3. QED
    BY <2>2, Zenon DEF PressedInv
<1>3. CASE hpc' = "done"
  BY <1>3 DEF PressedInv
<1>4. QED
  BY <1>1, <1>2, <1>3 DEF PipelineStep

\* At the start no file is open and no key is pressed.
LEMMA InitPipelines ==
  ASSUME Init
  PROVE  /\ QueueInv /\ PressedInv /\ PipelineEndsAtKey
         /\ \A d \in Devices : InFlight(d) = <<>>
<1>1. TypeOK
  BY InitType
<1>2. ASSUME NEW d \in Devices
      PROVE  InFlight(d) = <<>>
  <2>1. Applying(d) = <<>>
    BY DEF Init, HandlerInit, Applying
  <2>2. Sending(d) = <<>>
    BY DEF Init, ListenerInit, Sending
  <2>3. TransitionsOf(kq[d]) = <<>>
    BY TransitionsOfEmpty DEF Init, DeviceInit
  <2>4. <<>> \o <<>> = <<>>
    OBVIOUS
  <2>5. QED
    BY <2>1, <2>2, <2>3, <2>4 DEF InFlight
<1>3. ASSUME NEW d \in Devices
      PROVE  Latest(d) = phys[d]
  BY <1>1, <1>2, LatestOf DEF LastOf, Init, DeviceInit, HandlerInit
<1>4. QueueInv /\ PressedInv
  BY DEF Init, DeviceInit, HandlerInit, QueueInv, PressedInv
<1>5. QED
  BY <1>2, <1>3, <1>4 DEF PipelineEndsAtKey

PipelineInv == QueueInv /\ PressedInv /\ PipelineEndsAtKey

\* Every step keeps the shape of the queues, the agreement of the server with
\* the events applied, and the end of each pipeline.
THEOREM PipelineInvariant == Spec => []PipelineInv
<1>1. Init => PipelineInv
  BY InitPipelines DEF PipelineInv
<1>2. TypeOK /\ FileInv /\ PipelineInv /\ [Next]_vars => PipelineInv'
  BY NextPipelines, QueueInvStep, PressedInvStep, PipelineEndsStep DEF PipelineInv
<1>3. QED
  BY <1>1, <1>2, TypeCorrect, FilesInvariant, PTL DEF Spec

\* The end of each device's pipeline is the state of its key, through every
\* interleaving of devices, listeners and handler, unless its last transition
\* was lost.
THEOREM PipelineTheorem == Spec => []PipelineEndsAtKey
<1>1. PipelineInv => PipelineEndsAtKey
  BY DEF PipelineInv
<1>2. QED
  BY <1>1, PipelineInvariant, PTL

\* Once everything has been injected, the server agrees with keys that agree.
THEOREM SettledTheorem == Spec => []SettledKeyAgrees
<1>1. TypeOK /\ PipelineInv => SettledKeyAgrees
  <2> SUFFICES ASSUME TypeOK, PipelineInv, hpc = "select",
                      \A d \in Devices : ~lost[d] /\ InFlight(d) = <<>>,
                      NEW s \in Transitions, {phys[d] : d \in Devices} = {s}
               PROVE  pressed = (s = "down")
    BY DEF SettledKeyAgrees
  <2>1. PICK d \in Devices : pressed <=> (applied[d] = "down")
    <3>1. Devices # {}
      OBVIOUS
    <3>2. QED
      BY <3>1 DEF PipelineInv, PressedInv
  <2>2. Latest(d) = applied[d]
    BY LatestOf DEF LastOf
  <2>3. Latest(d) = phys[d]
    BY DEF PipelineInv, PipelineEndsAtKey
  <2>4. phys[d] = s
    OBVIOUS
  <2>5. pressed <=> (s = "down")
    BY <2>1, <2>2, <2>3, <2>4, Zenon
  <2>6. pressed \in BOOLEAN
    BY DEF TypeOK, HandlerTypeOK
  <2>7. QED
    BY <2>5, <2>6
<1>2. QED
  BY <1>1, TypeCorrect, PipelineInvariant, PTL

----------------------------------------------------------------------------
(* The program implements PushToTalk *)

flights == [d \in Devices |-> InFlight(d)]

\* A pipeline that changes alone changes one entry of the promise's queues.
LEMMA FlightsMove ==
  ASSUME NEW d \in Devices, \A x \in Devices \ {d} : Keeps(x)
  PROVE  flights' = [flights EXCEPT ![d] = InFlight(d)']
<1>1. flights' = [x \in Devices |-> InFlight(x)']
  BY DEF flights
<1>2. \A x \in Devices \ {d} : InFlight(x)' = InFlight(x)
  BY DEF Keeps
<1>3. QED
  BY <1>1, <1>2 DEF flights

\* The head and the rest of a pipeline.
LEMMA HeadOfCons ==
  \A s \in Seq(Transitions), e \in Transitions :
    <<e>> \o s # <<>> /\ Head(<<e>> \o s) = e /\ Tail(<<e>> \o s) = s
<1> SUFFICES ASSUME NEW s \in Seq(Transitions), NEW e \in Transitions
             PROVE  <<e>> \o s # <<>> /\ Head(<<e>> \o s) = e /\ Tail(<<e>> \o s) = s
  OBVIOUS
<1> QED
  OBVIOUS

\* Every step is one of the promise's, or a stutter.
LEMMA PromiseStep ==
  ASSUME TypeOK, PipelineStep
  PROVE  Promise!Next \/ UNCHANGED Promise!pttVars
<1> DEFINE S == hpc # "done"
<1>1. \A d \in Devices : flights[d] = InFlight(d) /\ InFlight(d) \in Seq(Transitions)
  BY InFlightType DEF flights
<1>2. ASSUME \A x \in Devices : Keeps(x)
      PROVE  flights' = flights
  BY <1>2 DEF flights, Keeps
<1>3. (hpc' = "done" <=> hpc = "done") => S' = S
  OBVIOUS
<1>4. (hpc # "done" => S) /\ (hpc' = "done" => S' = FALSE) /\ (hpc' # "done" => S' = TRUE)
  OBVIOUS
<1>5. CASE /\ UNCHANGED <<phys, pressed, applied>> /\ (hpc' = "done" <=> hpc = "done")
           /\ \A x \in Devices : Keeps(x)
  BY <1>2, <1>3, <1>5 DEF Promise!pttVars, flights
<1>6. CASE /\ UNCHANGED <<hpc, pressed, applied>>
           /\ \E d \in Devices :
                /\ \A x \in Devices \ {d} : Keeps(x)
                /\ \/ phys' = phys /\ Drops(d)
                   \/ \E e \in Transitions :
                        phys[d] # e /\ phys' = [phys EXCEPT ![d] = e] /\ Joins(d, e)
  <2>1. PICK d \in Devices :
          /\ \A x \in Devices \ {d} : Keeps(x)
          /\ \/ phys' = phys /\ Drops(d)
             \/ \E e \in Transitions :
                  phys[d] # e /\ phys' = [phys EXCEPT ![d] = e] /\ Joins(d, e)
    BY <1>6
  <2>2. flights' = [flights EXCEPT ![d] = InFlight(d)']
    BY <2>1, FlightsMove
  <2>3. pressed' = pressed /\ S' = S
    BY <1>6
  <2>4. CASE phys' = phys /\ Drops(d)
    <3>1. InFlight(d)' \in Promise!Prefixes(flights[d])
      BY <1>1, <2>4 DEF Drops
    <3>2. Promise!Lose(d)
      BY <2>2, <2>3, <2>4, <3>1 DEF Promise!Lose, flights
    <3>3. QED
      BY <3>2 DEF Promise!Next
  <2>5. ASSUME NEW e \in Transitions, phys[d] # e, phys' = [phys EXCEPT ![d] = e],
               Joins(d, e)
        PROVE  Promise!Next
    <3>1. PICK q \in Promise!Prefixes(flights[d]) :
            InFlight(d)' = q \/ InFlight(d)' = Append(q, e)
      BY <1>1, <2>5 DEF Joins
    <3>2. flights' \in {[flights EXCEPT ![d] = q], [flights EXCEPT ![d] = Append(q, e)]}
      BY <2>2, <3>1
    <3>3. Promise!Move(d, e)
      BY <2>3, <2>5, <3>2 DEF Promise!Move, flights
    <3>4. e \in {"down", "up"}
      BY DEF Transitions
    <3>5. QED
      BY <3>3, <3>4 DEF Promise!Next
  <2>6. QED
    BY <2>1, <2>4, <2>5
<1>7. ASSUME NEW d \in Devices, NEW e \in Transitions,
             \A x \in Devices \ {d} : Keeps(x),
             InFlight(d)' \in Seq(Transitions), InFlight(d) = <<e>> \o InFlight(d)'
      PROVE  /\ flights[d] # <<>> /\ Head(flights[d]) = e
             /\ flights' = [flights EXCEPT ![d] = Tail(flights[d])]
  <2>1. flights[d] # <<>> /\ Head(flights[d]) = e /\ Tail(flights[d]) = InFlight(d)'
    BY <1>1, <1>7, HeadOfCons
  <2>2. QED
    BY <1>7, <2>1, FlightsMove
<1>8. ASSUME NEW d \in Devices, NEW e \in Transitions, phys' = phys,
             flights[d] # <<>>, Head(flights[d]) = e,
             flights' = [flights EXCEPT ![d] = Tail(flights[d])],
             hpc # "done", hpc' # "done", pressed' = (e = "down")
      PROVE  Promise!Inject(d)
  <2>1. pressed' = (Head(flights[d]) = "down")
    BY <1>8, Zenon
  <2>2. S /\ S' = S
    BY <1>8
  <2>3. QED
    BY <1>8, <2>1, <2>2, Zenon DEF Promise!Inject, flights
<1>9. ASSUME NEW d \in Devices, NEW e \in Transitions, phys' = phys,
             flights[d] # <<>>, Head(flights[d]) = e,
             flights' = [flights EXCEPT ![d] = Tail(flights[d])],
             hpc # "done", hpc' = "done", pressed' = (e = "down") \/ pressed' = pressed
      PROVE  Promise!Stop
  <2>1. pressed' \in {pressed, Head(flights[d]) = "down"}
    BY <1>9, Zenon
  <2>2. S /\ S' = FALSE
    BY <1>9
  <2>3. QED
    BY <1>9, <2>1, <2>2, Zenon DEF Promise!Stop, flights
<1>10. CASE /\ phys' = phys
            /\ \E d \in Devices, e \in Transitions :
                 /\ \A x \in Devices \ {d} : Keeps(x)
                 /\ lost' = lost
                 /\ InFlight(d)' \in Seq(Transitions)
                 /\ InFlight(d) = <<e>> \o InFlight(d)'
                 /\ hpc # "done"
                 /\ \/ /\ hpc' # "done"
                       /\ applied' = [applied EXCEPT ![d] = e] /\ pressed' = (e = "down")
                    \/ hpc' = "done" /\ (pressed' = (e = "down") \/ pressed' = pressed)
  <2>1. PICK d \in Devices, e \in Transitions :
          /\ \A x \in Devices \ {d} : Keeps(x)
          /\ InFlight(d)' \in Seq(Transitions)
          /\ InFlight(d) = <<e>> \o InFlight(d)'
          /\ hpc # "done"
          /\ \/ hpc' # "done" /\ pressed' = (e = "down")
             \/ hpc' = "done" /\ (pressed' = (e = "down") \/ pressed' = pressed)
    BY <1>10, Zenon
  <2>2. /\ flights[d] # <<>> /\ Head(flights[d]) = e
        /\ flights' = [flights EXCEPT ![d] = Tail(flights[d])]
    BY <1>7, <2>1
  <2>3. Promise!Inject(d) \/ Promise!Stop
    BY <1>8, <1>9, <1>10, <2>1, <2>2, Zenon
  <2>4. QED
    BY <2>3 DEF Promise!Next
<1>11. CASE /\ UNCHANGED <<phys, pressed>> /\ hpc # "done" /\ hpc' = "done"
            /\ \A x \in Devices : Keeps(x)
  <2>1. S /\ S' = FALSE
    BY <1>11
  <2>2. flights' = flights
    BY <1>2, <1>11
  <2>3. Promise!Stop
    BY <1>11, <2>1, <2>2 DEF Promise!Stop, flights
  <2>4. QED
    BY <2>3 DEF Promise!Next
<1>12. QED
  BY <1>5, <1>6, <1>10, <1>11 DEF PipelineStep

\* The program implements its promise: per device the transitions are injected
\* in their order, none twice and none invented, and what is lost is the newest.
THEOREM PushToTalkRefinement == Spec => ImplementsPushToTalk
<1>1. Init => Promise!Init
  <2> SUFFICES ASSUME Init
               PROVE  Promise!Init
    OBVIOUS
  <2>1. \A d \in Devices : InFlight(d) = <<>>
    BY InitPipelines
  <2>2. phys = [d \in Devices |-> "up"] /\ pressed = FALSE /\ hpc # "done"
    BY DEF Init, DeviceInit, HandlerInit
  <2>3. (hpc # "done") = TRUE
    BY <2>2
  <2>4. QED
    BY <2>1, <2>2, <2>3 DEF Promise!Init
<1>2. TypeOK /\ FileInv /\ PipelineInv /\ [Next]_vars =>
        [Promise!Next]_(Promise!pttVars)
  BY NextPipelines, PromiseStep DEF PipelineInv
<1>3. QED
  BY <1>1, <1>2, TypeCorrect, FilesInvariant, PipelineInvariant, PTL
     DEF Spec, Promise!Spec, ImplementsPushToTalk

----------------------------------------------------------------------------
(* Liveness *)

\* What the steps towards the end need: an error of the group has cancelled
\* the scope, and a listener has a file wherever it waits for one.
LiveInv ==
  /\ egErr # "nil" => Canceled
  /\ \A d \in Devices :
       /\ lpc[d] = "init" => file[d] \in {"open", "dead"}
       /\ Listening(d) => file[d] # "none"

\* A step of somebody else leaves a listener where it is, and at most takes
\* its device away.
LEMMA OthersStep ==
  ASSUME TypeOK, FileInv, NEW d \in Devices, [Next]_vars
  PROVE  \/ ListenerStep(d)
         \/ Deliver(d)
         \/ lpc'[d] = lpc[d] /\ (file'[d] = file[d] \/ (file[d] = "open" /\ file'[d] = "dead"))
<1>1. ASSUME NEW x \in Devices, x # d, ListenerStep(x)
      PROVE  lpc'[d] = lpc[d] /\ file'[d] = file[d]
  BY <1>1, ListenerFiles DEF ListenerStep
<1>2. ASSUME NEW x \in Devices, x # d, Deliver(x)
      PROVE  lpc'[d] = lpc[d] /\ file'[d] = file[d]
  BY <1>2 DEF Deliver, Goto, deviceVars, TypeOK, ListenerTypeOK
<1>3. ASSUME NEW x \in Devices, DeviceStep(x)
      PROVE  lpc'[d] = lpc[d] /\ (file'[d] = file[d] \/ (file[d] = "open" /\ file'[d] = "dead"))
  BY <1>3 DEF DeviceStep, DeviceNext, KeyMoves, OtherEvent, Unplug, Plug, Fault, listenerVars,
              TypeOK, DeviceTypeOK
<1>4. CASE HandlerStep \/ ListenersDone \/ Exit \/ Interrupt \/ Terminated \/ UNCHANGED vars
  BY <1>4 DEF HandlerStep, ListenersDone, Exit, Interrupt, Terminated, vars, deviceVars,
              listenerVars
<1> QED BY <1>1, <1>2, <1>3, <1>4 DEF Next, ProgramStep

\* Where a listener's own step takes it.
LEMMA ListenerPlaces ==
  ASSUME TypeOK, FileInv, NEW d \in Devices, ListenerNext(d)
  PROVE  /\ lpc[d] = "open" =>
              (lpc'[d] = "init" /\ file'[d] = "open") \/ lpc'[d] \in {"wait", "done"}
         /\ lpc[d] = "init" =>
              \/ lpc'[d] = "check" /\ file'[d] = file[d] /\ file[d] = "open"
              \/ lpc'[d] \in {"wait", "done"}
         /\ Listening(d) =>
              \/ lpc'[d] \in {"wait", "done"}
              \/ lpc'[d] = lpc[d] /\ file[d] \in {"open", "dead"} /\ file'[d] = "closed"
              \/ lpc'[d] \in {"read", "send"} /\ file'[d] = file[d] /\ file[d] # "closed"
              \/ lpc[d] = "check" /\ lpc'[d] = "read" /\ file'[d] = file[d]
         /\ lpc[d] = "wait" => lpc'[d] \in {"open", "done"}
<1> USE DEF TypeOK, DeviceTypeOK, ListenerTypeOK, Goto
<1>1. ASSUME NEW retry, NEW err, ListenReturns(d, retry, err) \/ RunReturns(d, err)
      PROVE  lpc'[d] \in {"wait", "done"}
  BY <1>1 DEF ListenReturns, RunReturns
<1>2. CASE Open(d)
  BY <1>2 DEF Open, OpenFile, Listening
<1>3. CASE OpenRefused(d)
  BY <1>1, <1>3 DEF OpenRefused, OpenError, Listening
<1>4. CASE InitOk(d)
  BY <1>4 DEF InitOk, KeepsFile, Listening
<1>5. CASE InitFails(d)
  BY <1>1, <1>5 DEF InitFails, OpenError, Listening
<1>6. CASE Incapable(d) \/ ReadFails(d) \/ SendCanceled(d)
  <2>1. ASSUME NEW retry, NEW err, Return(d, retry, err) PROVE lpc'[d] \in {"wait", "done"}
    BY <1>1, <2>1 DEF Return
  <2>2. lpc'[d] \in {"wait", "done"} /\ Listening(d)
    BY <1>6, <2>1 DEF Incapable, ReadFails, SendCanceled, Listening
  <2>3. QED
    BY <2>2 DEF Listening
<1>7. CASE Capable(d)
  BY <1>7 DEF Capable, KeepsFile, Listening
<1>8. CASE ReadEvent(d)
  BY <1>8 DEF ReadEvent, Listening
<1>9. CASE WatcherFires(d)
  BY <1>9 DEF WatcherFires, CloseFile, Listening
<1>10. CASE RetryTimer(d)
  BY <1>10 DEF RetryTimer, Listening
<1>11. CASE WaitCanceled(d)
  BY <1>11 DEF WaitCanceled, RunReturns, Listening
<1>12. QED
  BY <1>2, <1>3, <1>4, <1>5, <1>6, <1>7, <1>8, <1>9, <1>10, <1>11 DEF ListenerNext

\* It is an invariant together with the types and FileInv.
LEMMA LiveInvariant == Spec => []LiveInv
<1>1. Init => LiveInv
  BY DEF Init, ContextInit, ListenerInit, LiveInv, Listening
<1>2. TypeOK /\ FileInv /\ LiveInv /\ [Next]_vars => LiveInv'
  <2> SUFFICES ASSUME TypeOK, FileInv, LiveInv, [Next]_vars
               PROVE  LiveInv'
    OBVIOUS
  <2>1. egErr' # "nil" => Canceled'
    <3>1. ASSUME NEW err \in Errors, GroupReturn(err) PROVE egErr' # "nil" => Canceled'
      BY <3>1 DEF GroupReturn, LiveInv, Canceled, Errors
    <3>2. ASSUME egErr' = egErr PROVE egErr' # "nil" => Canceled'
      BY <3>2, CanceledStays DEF LiveInv
    <3>3. ASSUME HandlerStep PROVE egErr' = egErr \/ \E err \in Errors : GroupReturn(err)
      <4>1. \/ UNCHANGED <<ctx, egErr>>
            \/ HandleReturns("handler")
            \/ Canceled /\ HandleReturns(ctx)
        BY <3>3, HandlerMoves DEF HandlerStep
      <4>2. "handler" \in Errors /\ (Canceled => ctx \in Errors)
        BY CtxIsError DEF TypeOK, Errors
      <4>3. QED
        BY <4>1, <4>2 DEF HandleReturns
    <3>4. ASSUME NEW d \in Devices, ListenerStep(d) PROVE egErr' = egErr
      BY <3>4, ListenerMoves DEF ListenerStep
    <3>5. ASSUME NEW d \in Devices, Deliver(d) \/ DeviceStep(d) PROVE egErr' = egErr
      BY <3>5 DEF Deliver, DeviceStep
    <3>6. ASSUME ListenersDone PROVE \E err \in Errors : GroupReturn(err)
      <4>1. lisErr \in Errors /\ "noDevices" \in Errors
        BY DEF TypeOK, ListenerTypeOK, Errors
      <4>2. QED
        BY <3>6, <4>1 DEF ListenersDone
    <3>7. CASE Exit \/ Interrupt \/ Terminated \/ UNCHANGED vars
      BY <3>2, <3>7 DEF Exit, Interrupt, Terminated, vars
    <3>8. QED
      BY <3>1, <3>2, <3>3, <3>4, <3>5, <3>6, <3>7 DEF Next, ProgramStep
  <2>2. ASSUME NEW d \in Devices
        PROVE  /\ lpc'[d] = "init" => file'[d] \in {"open", "dead"}
               /\ lpc'[d] \in {"check", "read", "send"} => file'[d] # "none"
    <3>1. CASE ListenerStep(d)
      <4>1. ListenerNext(d)
        BY <3>1 DEF ListenerStep
      <4>2. lpc[d] \in Locations /\ lpc[d] # "done"
        BY <4>1, ListenerMoves DEF TypeOK, ListenerTypeOK
      <4>3. QED
        BY <4>1, <4>2, ListenerPlaces DEF LiveInv, Listening, Locations
    <3>2. CASE Deliver(d)
      BY <3>2 DEF Deliver, Goto, deviceVars, LiveInv, Listening, TypeOK, ListenerTypeOK
    <3>3. QED
      BY <3>1, <3>2, OthersStep DEF LiveInv, Listening
  <2>3. QED
    BY <2>1, <2>2 DEF LiveInv, Listening
<1> QED BY <1>1, <1>2, TypeCorrect, FilesInvariant, PTL DEF Spec

\* The places of a listener that has a device: the file is not closed yet; it
\* is closed and the listener has something left to do; it reads a closed file.
Holding(d) == Listening(d) /\ file[d] \in {"open", "dead"}
Draining(d) == lpc[d] \in {"check", "send"} /\ file[d] = "closed"
Closing(d) == lpc[d] = "read" /\ file[d] = "closed"

\* A listener that reads a closed file returns.
LEMMA ClosedPlaces ==
  ASSUME TypeOK, FileInv, NEW d \in Devices, ListenerNext(d), Listening(d),
         file[d] = "closed"
  PROVE  lpc'[d] \in {"wait", "done"}
         \/ (lpc[d] = "check" /\ lpc'[d] = "read" /\ file'[d] = "closed")
BY ListenerPlaces

\* A listener goes through its places in this order, and back only from the
\* wait for a retry.
LEMMA PlacesInOrder ==
  ASSUME TypeOK, FileInv, LiveInv, NEW d \in Devices, [Next]_vars
  PROVE  /\ \/ lpc[d] \in {"open", "init", "wait", "done"}
            \/ Holding(d) \/ Draining(d) \/ Closing(d)
         /\ lpc[d] = "open" => lpc'[d] \in {"open", "init", "wait", "done"}
         /\ lpc[d] = "init" => lpc'[d] \in {"init", "wait", "done"} \/ Holding(d)'
         /\ Holding(d) =>
              \/ Holding(d)' \/ Draining(d)' \/ Closing(d)'
              \/ lpc'[d] \in {"wait", "done"}
         /\ Draining(d) =>
              Draining(d)' \/ Closing(d)' \/ lpc'[d] \in {"wait", "done"}
         /\ Closing(d) => Closing(d)' \/ lpc'[d] \in {"wait", "done"}
         /\ lpc[d] = "wait" => lpc'[d] \in {"wait", "open", "done"}
         /\ lpc[d] = "done" => lpc'[d] = "done"
<1>1. lpc[d] \in Locations /\ file[d] \in {"none", "open", "dead", "closed"}
  BY DEF TypeOK, ListenerTypeOK, DeviceTypeOK
<1>2. \/ lpc[d] \in {"open", "init", "wait", "done"}
      \/ Holding(d) \/ Draining(d) \/ Closing(d)
  BY <1>1 DEF LiveInv, Locations, Holding, Draining, Closing, Listening
<1> USE DEF Holding, Draining, Closing, Listening
<1>3. CASE ListenerStep(d)
  <2>1. ListenerNext(d) /\ lpc[d] # "done"
    BY <1>3, ListenerMoves DEF ListenerStep
  <2>2. QED
    BY <1>1, <1>2, <2>1, ListenerPlaces DEF LiveInv
<1>4. CASE Deliver(d)
  <2>1. lpc[d] = "send" /\ lpc'[d] = "read" /\ file'[d] = file[d]
    BY <1>4 DEF Deliver, Goto, deviceVars, TypeOK, ListenerTypeOK
  <2>2. QED
    BY <1>2, <2>1
<1>5. CASE lpc'[d] = lpc[d] /\ (file'[d] = file[d] \/ (file[d] = "open" /\ file'[d] = "dead"))
  BY <1>2, <1>5
<1> QED BY <1>3, <1>4, <1>5, OthersStep

\* The steps that are fair take a listener on.
LEMMA FairStepsForward ==
  ASSUME TypeOK, FileInv, LiveInv, NEW d \in Devices
  PROVE  /\ ListenerStep(d) =>
              /\ lpc[d] = "open" => lpc'[d] \in {"init", "wait", "done"}
              /\ lpc[d] = "init" => Holding(d)' \/ lpc'[d] \in {"wait", "done"}
              /\ Draining(d) => Closing(d)' \/ lpc'[d] \in {"wait", "done"}
              /\ Closing(d) => lpc'[d] \in {"wait", "done"}
              /\ lpc[d] = "wait" => lpc'[d] \in {"open", "done"}
         /\ WatcherFires(d) => Draining(d)' \/ Closing(d)'
         /\ WaitCanceled(d) => lpc'[d] = "done"
         /\ SendCanceled(d) => lpc'[d] # "send"
         /\ Deliver(d) => lpc'[d] # "send"
<1> USE DEF Holding, Draining, Closing, Listening
<1>1. ASSUME ListenerStep(d)
      PROVE  /\ lpc[d] = "open" => lpc'[d] \in {"init", "wait", "done"}
             /\ lpc[d] = "init" => Holding(d)' \/ lpc'[d] \in {"wait", "done"}
             /\ Draining(d) => Closing(d)' \/ lpc'[d] \in {"wait", "done"}
             /\ Closing(d) => lpc'[d] \in {"wait", "done"}
             /\ lpc[d] = "wait" => lpc'[d] \in {"open", "done"}
  <2>1. ListenerNext(d)
    BY <1>1 DEF ListenerStep
  <2>2. /\ Draining(d) => Closing(d)' \/ lpc'[d] \in {"wait", "done"}
        /\ Closing(d) => lpc'[d] \in {"wait", "done"}
    BY <2>1, ClosedPlaces
  <2>3. QED
    BY <2>1, <2>2, ListenerPlaces
<1> USE DEF TypeOK, ListenerTypeOK, DeviceTypeOK, Goto
<1>2. ASSUME WatcherFires(d) PROVE Draining(d)' \/ Closing(d)'
  BY <1>2 DEF WatcherFires, CloseFile
<1>3. ASSUME WaitCanceled(d) PROVE lpc'[d] = "done"
  BY <1>3 DEF WaitCanceled, RunReturns
<1>4. ASSUME SendCanceled(d) PROVE lpc'[d] # "send"
  BY <1>4 DEF SendCanceled, Return, ListenReturns, RunReturns
<1>5. ASSUME Deliver(d) PROVE lpc'[d] # "send"
  BY <1>5 DEF Deliver
<1> QED BY <1>1, <1>2, <1>3, <1>4, <1>5

\* All that is known of a reachable state.
SafeInv == TypeOK /\ ErrorInv /\ FileInv /\ LiveInv

\* The invariants proved so far, in one.
LEMMA SafeInvariant == Spec => []SafeInv
<1>1. TypeOK /\ ErrorInv /\ FileInv /\ LiveInv => SafeInv
  BY DEF SafeInv
<1> QED BY <1>1, TypeCorrect, ErrorsInvariant, FilesInvariant, LiveInvariant, PTL DEF Spec

\* A cancelled listener comes to its end.
ListenerEnds(d) == Canceled ~> lpc[d] = "done"

\* Each listener ends after the scope is cancelled, wherever it was: blocked in
\* a read of a silent device, in a send that nobody receives, in its retry.
THEOREM ListenerEndsTheorem ==
  ASSUME NEW d \in Devices
  PROVE  Spec /\ FairListener(d) => ListenerEnds(d)
<1> DEFINE O == lpc[d] = "open"
           I == lpc[d] = "init"
           H == Holding(d)
           G == Draining(d)
           R == Closing(d)
           W == lpc[d] = "wait"
           D == lpc[d] = "done"
           C == Canceled
           Running == Canceled /\ lpc[d] # "done"
           Watching == Canceled /\ Listening(d) /\ file[d] \in {"open", "dead"}
           Waiting == Canceled /\ lpc[d] = "wait"
<1>1. SafeInv /\ SafeInv' /\ [Next]_vars =>
        /\ C => C'
        /\ O \/ I \/ H \/ G \/ R \/ W \/ D
        /\ O => O' \/ I' \/ W' \/ D'
        /\ I => I' \/ H' \/ W' \/ D'
        /\ H => H' \/ G' \/ R' \/ W' \/ D'
        /\ G => G' \/ R' \/ W' \/ D'
        /\ R => R' \/ W' \/ D'
        /\ W => W' \/ O' \/ D'
        /\ D => D'
  BY PlacesInOrder, CanceledStays DEF SafeInv
<1>2. SafeInv /\ <<ListenerStep(d)>>_vars =>
        /\ O => I' \/ W' \/ D'
        /\ I => H' \/ W' \/ D'
        /\ G => R' \/ W' \/ D'
        /\ R => W' \/ D'
        /\ W => O' \/ D'
  BY FairStepsForward DEF SafeInv
<1>3. SafeInv /\ <<WatcherFires(d) /\ ListenerStep(d)>>_vars => G' \/ R'
  BY FairStepsForward DEF SafeInv
<1>4. SafeInv /\ <<WaitCanceled(d) /\ ListenerStep(d)>>_vars => D'
  BY FairStepsForward DEF SafeInv
<1>5. (Running <=> C /\ ~D) /\ (Watching <=> C /\ H) /\ (Waiting <=> C /\ W)
  BY DEF Holding
<1>6. FairListener(d) =>
        /\ []<>~Running \/ []<><<ListenerStep(d)>>_vars
        /\ []<>~Watching \/ []<><<WatcherFires(d) /\ ListenerStep(d)>>_vars
        /\ <>[]~Waiting \/ []<><<WaitCanceled(d) /\ ListenerStep(d)>>_vars
  BY DEF FairListener
<1> HIDE DEF O, I, H, G, R, W, D, C, Running, Watching, Waiting
<1>7. Spec /\ FairListener(d) => [](C => <>D)
  BY <1>1, <1>2, <1>3, <1>4, <1>5, <1>6, SafeInvariant, PTL DEF Spec
<1> QED BY <1>7, PTL DEF C, D, ListenerEnds

\* Where the handler goes.
LEMMA HandlerPlaces ==
  ASSUME TypeOK, [Next]_vars
  PROVE  /\ hpc = "open" => hpc' \in {"open", "select", "done"}
         /\ hpc = "select" => hpc' \in {"select", "apply", "done"}
         /\ hpc = "apply" => hpc' \in {"apply", "select", "done"}
         /\ hpc = "done" => hpc' = "done"
<1>1. ASSUME NEW d \in Devices, ListenerStep(d) \/ DeviceStep(d)
      PROVE  hpc' = hpc
  BY <1>1 DEF ListenerStep, DeviceStep, handlerVars
<1>2. ASSUME NEW d \in Devices, Deliver(d)
      PROVE  hpc = "select" /\ hpc' = "apply"
  BY <1>2 DEF Deliver, Receive
<1>3. CASE HandlerStep
  BY <1>3 DEF HandlerStep, HandlerNext, OpenOk, OpenFails, HandleCanceled, ApplyOk,
              ApplyFails, HandleReturns
<1>4. CASE ListenersDone \/ Exit \/ Interrupt \/ Terminated \/ UNCHANGED vars
  BY <1>4 DEF ListenersDone, Exit, Interrupt, Terminated, vars, handlerVars
<1> QED BY <1>1, <1>2, <1>3, <1>4 DEF Next, ProgramStep, TypeOK, HandlerTypeOK

\* The handler ends after the scope is cancelled, however many events other
\* goroutines still offer it.
THEOREM HandlerEndsTheorem == Spec /\ FairHandler => (Canceled ~> hpc = "done")
<1> DEFINE O == hpc = "open"
           Q == hpc = "select"
           A == hpc = "apply"
           D == hpc = "done"
           C == Canceled
           Ready == hpc \in {"open", "apply"} \/ (hpc = "select" /\ Canceled)
           Leaving == hpc = "select" /\ Canceled
<1>1. SafeInv /\ [Next]_vars =>
        /\ C => C'
        /\ O \/ Q \/ A \/ D
        /\ O => O' \/ Q' \/ D'
        /\ Q => Q' \/ A' \/ D'
        /\ A => A' \/ Q' \/ D'
        /\ D => D'
  BY HandlerPlaces, CanceledStays DEF SafeInv, TypeOK, HandlerTypeOK
<1>2. SafeInv /\ <<HandlerStep>>_vars => (O \/ A => Q' \/ D')
  BY DEF HandlerStep, HandlerNext, OpenOk, OpenFails, HandleCanceled, ApplyOk,
         ApplyFails, HandleReturns
<1>3. SafeInv /\ <<HandleCanceled /\ HandlerStep>>_vars => D'
  BY DEF HandleCanceled, HandleReturns
<1>4. (Ready <=> O \/ A \/ (Q /\ C)) /\ (Leaving <=> Q /\ C)
  OBVIOUS
<1>5. FairHandler =>
        /\ []<>~Ready \/ []<><<HandlerStep>>_vars
        /\ <>[]~Leaving \/ []<><<HandleCanceled /\ HandlerStep>>_vars
  BY DEF FairHandler
<1> HIDE DEF O, Q, A, D, C, Ready, Leaving
<1>6. Spec /\ FairHandler => [](C => <>D)
  BY <1>1, <1>2, <1>3, <1>4, <1>5, SafeInvariant, PTL DEF Spec
<1> QED BY <1>6, PTL DEF C, D

\* What has ended stays ended.
LEMMA EndsStay ==
  ASSUME SafeInv, [Next]_vars
  PROVE  /\ \A d \in Devices : lpc[d] = "done" => lpc'[d] = "done"
         /\ AllListenersDone => AllListenersDone'
         /\ g1 = "done" => g1' = "done"
         /\ hpc = "done" => hpc' = "done"
<1>1. ASSUME NEW d \in Devices, lpc[d] = "done"
      PROVE  lpc'[d] = "done"
  BY <1>1, PlacesInOrder DEF SafeInv
<1>2. AllListenersDone => AllListenersDone'
  BY <1>1 DEF AllListenersDone
<1>3. g1 = "done" => g1' = "done"
  <2>1. ASSUME NEW d \in Devices, ListenerStep(d) \/ DeviceStep(d) \/ Deliver(d)
        PROVE  g1' = g1
    BY <2>1 DEF ListenerStep, DeviceStep, Deliver, processVars
  <2>2. CASE HandlerStep \/ ListenersDone \/ Exit \/ Interrupt \/ Terminated \/ UNCHANGED vars
    BY <2>2 DEF HandlerStep, ListenersDone, Exit, Interrupt, Terminated, vars, processVars
  <2> QED BY <2>1, <2>2 DEF Next, ProgramStep
<1>4. hpc = "done" => hpc' = "done"
  BY HandlerPlaces DEF SafeInv
<1> QED BY <1>1, <1>2, <1>3, <1>4

\* Without a listener the process ends: the group's error cancels the scope,
\* the handler follows, and main exits.
THEOREM NoListenerTheorem == Spec /\ GuardedFairness => NoListenerLeadsToExit
<1> DEFINE L == AllListenersDone
           G == g1 = "done"
           H == hpc = "done"
           C == Canceled
           E == status # "running"
           Waiting == g1 = "wait" /\ AllListenersDone
           Ending == status = "running" /\ g1 = "done" /\ hpc = "done"
<1>1. SafeInv /\ [Next]_vars => (L => L') /\ (G => G') /\ (H => H')
  BY EndsStay
<1>2. SafeInv /\ G => C
  BY DEF SafeInv, ErrorInv, LiveInv
<1>3. SafeInv /\ <<ListenersDone>>_vars => G'
  BY DEF ListenersDone
<1>4. SafeInv /\ <<Exit>>_vars => E'
  BY DEF Exit
<1>5. SafeInv => (Waiting <=> L /\ ~G) /\ (Ending <=> ~E /\ G /\ H)
  BY DEF SafeInv, TypeOK
<1>6. GuardedFairness =>
        /\ FairHandler
        /\ []<>~Waiting \/ []<><<ListenersDone>>_vars
        /\ []<>~Ending \/ []<><<Exit>>_vars
  BY DEF GuardedFairness, FairSupervision
<1>7. Spec /\ FairHandler => [](C => <>H)
  BY HandlerEndsTheorem, PTL
<1> HIDE DEF L, G, H, C, E, Waiting, Ending
<1>8. Spec /\ GuardedFairness => [](L => <>E)
  BY <1>1, <1>2, <1>3, <1>4, <1>5, <1>6, <1>7, SafeInvariant, PTL DEF Spec
<1> QED BY <1>8, PTL DEF L, E, NoListenerLeadsToExit

\* Whatever ends the scope ends the process, for any three devices or fewer (two
\* of the names may be one device): each listener ends, and the process follows
\* the last.  From each listener to all of a larger set it takes an induction
\* over a temporal formula, which the provers do not know.
THEOREM CancelTheorem ==
  ASSUME NEW d1, NEW d2, NEW d3, Devices = {d1, d2, d3}
  PROVE  Spec /\ GuardedFairness => CancelLeadsToExit
<1> DEFINE X == lpc[d1] = "done"
           Y == lpc[d2] = "done"
           Z == lpc[d3] = "done"
           L == AllListenersDone
           C == Canceled
           E == status # "running"
<1>1. SafeInv /\ [Next]_vars => (X => X') /\ (Y => Y') /\ (Z => Z')
  BY EndsStay
<1>2. L <=> X /\ Y /\ Z
  BY DEF AllListenersDone
<1>3. GuardedFairness => FairListener(d1) /\ FairListener(d2) /\ FairListener(d3)
  BY DEF GuardedFairness
<1>4. /\ Spec /\ FairListener(d1) => ListenerEnds(d1)
      /\ Spec /\ FairListener(d2) => ListenerEnds(d2)
      /\ Spec /\ FairListener(d3) => ListenerEnds(d3)
  BY ListenerEndsTheorem
<1>5. /\ ListenerEnds(d1) => [](C => <>X)
      /\ ListenerEnds(d2) => [](C => <>Y)
      /\ ListenerEnds(d3) => [](C => <>Z)
  BY PTL DEF ListenerEnds
<1>6. Spec /\ GuardedFairness => [](L => <>E)
  BY NoListenerTheorem, PTL DEF NoListenerLeadsToExit
<1> HIDE DEF X, Y, Z, L, C, E
<1>7. Spec /\ GuardedFairness => [](C => <>E)
  BY <1>1, <1>2, <1>3, <1>4, <1>5, <1>6, SafeInvariant, PTL DEF Spec
<1> QED BY <1>7, PTL DEF C, E, CancelLeadsToExit

\* A send ends: the handler takes the event, or the scope is cancelled. An
\* injection that fails in between, or other listeners that send as well, hold
\* it up only for a time.
THEOREM SendTheorem == Spec /\ GuardedFairness => SendCompletes
<1>1. ASSUME NEW d \in Devices
      PROVE  Spec /\ GuardedFairness => (lpc[d] = "send" ~> lpc[d] # "send")
  <2> DEFINE S == lpc[d] = "send"
             N == lpc[d] # "send"
             C == Canceled
             O == hpc = "open"
             Q == hpc = "select"
             A == hpc = "apply"
             D == hpc = "done"
             Ready == hpc \in {"open", "apply"} \/ (hpc = "select" /\ Canceled)
             Leaving == Canceled /\ lpc[d] = "send"
             Meeting == lpc[d] = "send" /\ hpc = "select"
  <2>1. SafeInv /\ [Next]_vars =>
          /\ C => C'
          /\ O \/ Q \/ A \/ D
          /\ O => O' \/ Q' \/ D'
          /\ A => A' \/ Q' \/ D'
    BY HandlerPlaces, CanceledStays DEF SafeInv, TypeOK, HandlerTypeOK
  <2>2. SafeInv /\ D => C
    BY DEF SafeInv, ErrorInv, LiveInv
  <2>3. SafeInv /\ <<HandlerStep>>_vars => (O \/ A => Q' \/ D')
    BY DEF HandlerStep, HandlerNext, OpenOk, OpenFails, HandleCanceled, ApplyOk,
           ApplyFails, HandleReturns
  <2>4. SafeInv /\ <<SendCanceled(d) /\ ListenerStep(d)>>_vars => N'
    BY <1>1, FairStepsForward DEF SafeInv
  <2>5. SafeInv /\ <<Deliver(d)>>_vars => N'
    BY <1>1, FairStepsForward DEF SafeInv
  <2>6. /\ N <=> ~S
        /\ Ready <=> O \/ A \/ (Q /\ C)
        /\ Leaving <=> C /\ S
        /\ Meeting <=> S /\ Q
    OBVIOUS
  <2>7. GuardedFairness => FairHandler /\ FairListener(d)
    BY <1>1 DEF GuardedFairness
  <2>8. FairHandler => []<>~Ready \/ []<><<HandlerStep>>_vars
    BY DEF FairHandler
  <2>9. FairListener(d) =>
          /\ <>[]~Leaving \/ []<><<SendCanceled(d) /\ ListenerStep(d)>>_vars
          /\ <>[]~Meeting \/ []<><<Deliver(d)>>_vars
    BY DEF FairListener
  <2> HIDE DEF S, N, C, O, Q, A, D, Ready, Leaving, Meeting
  <2>10. Spec /\ GuardedFairness => [](S => <>N)
    BY <2>1, <2>2, <2>3, <2>4, <2>5, <2>6, <2>7, <2>8, <2>9, SafeInvariant, PTL DEF Spec
  <2> QED BY <2>10, PTL DEF S, N
<1> QED BY <1>1 DEF SendCompletes
=============================================================================

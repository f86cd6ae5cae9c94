---------------------------- MODULE InputDevice ----------------------------
(***************************************************************************)
(* The input devices as the listeners see them through internal/evdev: the *)
(* physical push-to-talk key of each device, whether the device node       *)
(* exists, the kernel's event queue of the file a listener has open, and   *)
(* that file.  The devices and the kernel are the environment: their       *)
(* actions are never forced to happen.                                     *)
(***************************************************************************)
EXTENDS Naturals, Sequences

CONSTANTS
  Devices,   \* the device paths the config's globs matched
  Hotplug,   \* those that can be disconnected
  MaxQueue,  \* capacity of the kernel's queue of an open file
  Noise      \* events other than transitions that occur: "repeat", "other"

\* The kernel's queue has room for SYN_DROPPED and one event after it.
ASSUME QueueAssumption == MaxQueue \in Nat /\ MaxQueue >= 2
ASSUME HotplugAssumption == Hotplug \subseteq Devices
ASSUME NoiseAssumption == Noise \subseteq {"repeat", "other"}

\* Events by what listen tells apart: the configured key going down (value 1)
\* or up (value 0), its autorepeat (value 2), and events Is rejects.
Transitions == {"down", "up"}
Events == Transitions \cup {"repeat", "other"}

VARIABLES
  plugged,  \* the device node exists
  phys,     \* physical state of the key, "down" or "up"
  file,     \* what a listener has of it: "none", "open", "dead" (every read
            \* and ioctl fails), "closed" (Close called)
  kq,       \* kernel queue of the open file
  lost      \* history: no pipeline holds the last transition, none applied it

deviceVars == <<plugged, phys, file, kq, lost>>

DeviceTypeOK ==
  /\ plugged \in [Devices -> BOOLEAN]
  /\ phys \in [Devices -> Transitions]
  /\ file \in [Devices -> {"none", "open", "dead", "closed"}]
  /\ kq \in [Devices -> Seq(Events)]
  /\ lost \in [Devices -> BOOLEAN]

DeviceInit ==
  /\ plugged \in [Devices -> BOOLEAN]
  /\ \A d \in Devices \ Hotplug : plugged[d]
  /\ phys = [d \in Devices |-> "up"]
  /\ file = [d \in Devices |-> "none"]
  /\ kq = [d \in Devices |-> <<>>]
  /\ lost = [d \in Devices |-> FALSE]

IsTransition(e) == e \in Transitions
HasTransition(q) == \E i \in DOMAIN q : IsTransition(q[i])

\* The transitions of a queue in their order, as SelectSeq computes them.
TransitionsOf(q) ==
  LET upTo[n \in 0 .. Len(q)] ==
        IF n = 0 THEN <<>>
        ELSE IF IsTransition(q[n]) THEN Append(upTo[n - 1], q[n])
        ELSE upTo[n - 1]
  IN  upTo[Len(q)]

----------------------------------------------------------------------------
(* The kernel *)

\* An event joins the queue of an open file.  A full queue keeps only
\* SYN_DROPPED, which listen skips like any other foreign event, and the
\* newest event.
Enqueue(d, e) ==
  LET full == Len(kq[d]) >= MaxQueue
  IN  /\ kq' = [kq EXCEPT ![d] = IF full THEN <<"other", e>>
                                         ELSE Append(@, e)]
      /\ lost' = [lost EXCEPT ![d] = /\ ~IsTransition(e)
                                     /\ @ \/ (full /\ HasTransition(kq[d]))]

\* The key of a plugged device moves; without an open file nobody hears it.
KeyMoves(d, e) ==
  /\ plugged[d]
  /\ phys[d] # e
  /\ phys' = [phys EXCEPT ![d] = e]
  /\ \/ file[d] = "open" /\ Enqueue(d, e)
     \/ /\ file[d] # "open"
        /\ lost' = [lost EXCEPT ![d] = TRUE]
        /\ UNCHANGED kq
  /\ UNCHANGED <<plugged, file>>

\* Autorepeat of the held key, or an event of another key or type.
OtherEvent(d, e) ==
  /\ file[d] = "open"
  /\ e = "repeat" => phys[d] = "down"
  /\ Enqueue(d, e)
  /\ UNCHANGED <<plugged, phys, file>>

\* The device disappears: reads fail at once, whatever was still queued, and
\* the key counts as up.
Unplug(d) ==
  /\ d \in Hotplug /\ plugged[d]
  /\ plugged' = [plugged EXCEPT ![d] = FALSE]
  /\ phys' = [phys EXCEPT ![d] = "up"]
  /\ file' = [file EXCEPT ![d] = IF @ = "open" THEN "dead" ELSE @]
  /\ kq' = [kq EXCEPT ![d] = <<>>]
  /\ lost' = [lost EXCEPT ![d] = @ \/ phys[d] = "down" \/ HasTransition(kq[d])]

Plug(d) ==
  /\ ~plugged[d]
  /\ plugged' = [plugged EXCEPT ![d] = TRUE]
  /\ UNCHANGED <<phys, file, kq, lost>>

\* The open file fails although the node stays, as after an I/O error.
Fault(d) ==
  /\ file[d] = "open"
  /\ file' = [file EXCEPT ![d] = "dead"]
  /\ kq' = [kq EXCEPT ![d] = <<>>]
  /\ lost' = [lost EXCEPT ![d] = @ \/ HasTransition(kq[d])]
  /\ UNCHANGED <<plugged, phys>>

DeviceNext(d) ==
  \/ \E e \in Transitions : KeyMoves(d, e)
  \/ \E e \in Noise : OtherEvent(d, e)
  \/ Unplug(d)
  \/ Plug(d)
  \/ Fault(d)

----------------------------------------------------------------------------
(* evdev.Device *)

\* os.Open succeeds: a file with an empty queue.
OpenFile(d) ==
  /\ file' = [file EXCEPT ![d] = "open"]
  /\ kq' = [kq EXCEPT ![d] = <<>>]
  /\ UNCHANGED lost

\* The file of d is read no longer: it goes to state s, what was queued is
\* dropped; dropped says that the caller drops a transition of its own as well.
CloseFile(d, s, dropped) ==
  /\ file' = [file EXCEPT ![d] = s]
  /\ kq' = [kq EXCEPT ![d] = <<>>]
  /\ lost' = [lost EXCEPT ![d] = @ \/ dropped \/ HasTransition(kq[d])]

\* NextEvent fails: the device does, or the file was closed.
ReadError(d) == IF file[d] = "closed" THEN "closed" ELSE "device"
=============================================================================

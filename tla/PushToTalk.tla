----------------------------- MODULE PushToTalk -----------------------------
(***************************************************************************)
(* What ptt-fix promises, without goroutines, files or queues: the         *)
(* transitions of each device's key are injected one at a time, in the     *)
(* order they happened, none twice and none invented.  What is on its way  *)
(* can be lost from its newest end, or entirely, but never from the middle *)
(* or reordered.  After it has stopped, nothing is injected.               *)
(***************************************************************************)
EXTENDS Naturals, Sequences

CONSTANT Devices

VARIABLES
  key,       \* physical state of each device's key
  inflight,  \* transitions not injected yet, oldest first
  talk,      \* the X server sees the symbol pressed
  serving    \* events are injected

pttVars == <<key, inflight, talk, serving>>

Init ==
  /\ key = [d \in Devices |-> "up"]
  /\ inflight = [d \in Devices |-> <<>>]
  /\ talk = FALSE
  /\ serving = TRUE

Prefixes(q) == {SubSeq(q, 1, k) : k \in 0 .. Len(q)}

\* The key moves, and the transition is queued or lost.
Move(d, e) ==
  /\ key[d] # e
  /\ key' = [key EXCEPT ![d] = e]
  /\ \E q \in Prefixes(inflight[d]) :
       inflight' \in {[inflight EXCEPT ![d] = q],
                      [inflight EXCEPT ![d] = Append(q, e)]}
  /\ UNCHANGED <<talk, serving>>

Lose(d) ==
  /\ UNCHANGED <<key, talk, serving>>
  /\ \E q \in Prefixes(inflight[d]) : inflight' = [inflight EXCEPT ![d] = q]

\* The oldest transition of d is injected.
Inject(d) ==
  /\ serving /\ inflight[d] # <<>>
  /\ talk' = (Head(inflight[d]) = "down")
  /\ inflight' = [inflight EXCEPT ![d] = Tail(@)]
  /\ UNCHANGED <<key, serving>>

\* Service ends, possibly in the middle of an injection.
Stop ==
  /\ serving
  /\ serving' = FALSE
  /\ UNCHANGED key
  /\ \/ UNCHANGED <<inflight, talk>>
     \/ \E d \in Devices :
          /\ inflight[d] # <<>>
          /\ inflight' = [inflight EXCEPT ![d] = Tail(@)]
          /\ talk' \in {talk, Head(inflight[d]) = "down"}

Next ==
  \/ \E d \in Devices :
       Lose(d) \/ Inject(d) \/ \E e \in {"down", "up"} : Move(d, e)
  \/ Stop

Spec == Init /\ [][Next]_pttVars
=============================================================================

---------------------------- MODULE EventChannel ----------------------------
(***************************************************************************)
(* What the event queue of the philosophers' simulation promises its       *)
(* users: a bounded first-in first-out channel from the philosophers and   *)
(* the watchdog to the monitor.  Nothing is lost, nothing is delivered     *)
(* twice, nothing overtakes, and what was sent is received.                *)
(***************************************************************************)
EXTENDS Naturals, Sequences

CONSTANTS Events,       \* everything a thread may send
          Capacity      \* events the channel holds at most

VARIABLE chan           \* the events sent and not yet received, oldest first

Init == chan = << >>

Send(e) == /\ Len(chan) < Capacity
           /\ chan' = Append(chan, e)

Receive == /\ chan # << >>
           /\ chan' = Tail(chan)

Next == Receive \/ \E e \in Events : Send(e)

Spec == Init /\ [][Next]_chan /\ WF_chan(Receive)
=============================================================================

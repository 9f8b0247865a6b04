--------------------------- MODULE AnsweringServer ---------------------------
(***************************************************************************)
(* What one connection of the web server promises its client: it answers   *)
(* what was asked, one request at a time, in order and each at most once;  *)
(* it goes on after an answer that keeps the connection, and after no      *)
(* other; and it breaks an answer off only when the client is gone.        *)
(***************************************************************************)
EXTENDS Integers

VARIABLES patient,     \* the client waits for each answer
          peer,        \* the client's side: open, half (no more requests), reset
          asked,       \* the requests it has asked, or begun to
          answering,   \* the request that is being answered, or 0
          answered,    \* << request, keep or close >> for each whole answer
          closed       \* the server has ended its side

vars == << patient, peer, asked, answering, answered, closed >>

Init == /\ patient \in BOOLEAN
        /\ peer = "open"
        /\ asked = 0
        /\ answering = 0
        /\ answered = {}
        /\ closed = FALSE

Ask == /\ peer = "open"
       /\ asked' = asked + 1
       /\ UNCHANGED << patient, peer, answering, answered, closed >>

Leave == /\ \/ peer = "open" /\ peer' = "half"
            \/ peer # "reset" /\ peer' = "reset"
         /\ UNCHANGED << patient, asked, answering, answered, closed >>

Begin(i) == /\ answering = 0 /\ ~closed /\ peer # "reset"
            /\ \A a \in answered : a[1] < i /\ a[2] = "keep"
            /\ patient => \A j \in 1 .. i - 1 : << j, "keep" >> \in answered
            /\ answering' = i
            /\ UNCHANGED << patient, peer, asked, answered, closed >>

End(how) == /\ answering # 0 /\ ~closed
            /\ answered' = answered \union {<< answering, how >>}
            /\ answering' = 0
            /\ closed' = (how = "close")
            /\ UNCHANGED << patient, peer, asked >>

\* A client that half-closes still gets the answer under way.
Break == /\ ~closed
         /\ peer = "reset" \/ (peer = "half" /\ answering = 0)
         /\ closed' = TRUE
         /\ UNCHANGED << patient, peer, asked, answering, answered >>

Next == \/ Ask \/ Leave \/ Break
        \/ \E i \in 1 .. asked : Begin(i)
        \/ \E how \in {"keep", "close"} : End(how)

Spec == Init /\ [][Next]_vars
=============================================================================

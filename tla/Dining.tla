------------------------------- MODULE Dining -------------------------------
(***************************************************************************)
(* The table every fork strategy has to provide: philosophers 1 .. N, one  *)
(* fork between two neighbours, and nobody eats while a neighbour does.    *)
(***************************************************************************)
EXTENDS Naturals

CONSTANT N              \* the number of philosophers

Philos == 1 .. N
Forks  == 0 .. N - 1

Left(p)    == p - 1
Right(p)   == p % N
ForksOf(p) == {Left(p), Right(p)}

Neighbours(p, q) == p # q /\ ForksOf(p) \cap ForksOf(q) # {}

VARIABLE eating         \* the philosophers at a meal

Init == eating = {}

Start(p) == /\ p \notin eating
            /\ \A q \in eating : ~Neighbours(p, q)
            /\ eating' = eating \cup {p}

Finish(p) == /\ p \in eating
             /\ eating' = eating \ {p}

Next == \E p \in Philos : Start(p) \/ Finish(p)

Spec == Init /\ [][Next]_eating
=============================================================================

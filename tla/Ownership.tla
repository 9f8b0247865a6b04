------------------------------ MODULE Ownership ------------------------------
(* CPP04: characters with materias in the slots of their inventories, and a     *)
(* source that learns materias and makes new ones.  A materia is an object of   *)
(* the heap; who holds a pointer to it is what has to be right.                 *)
EXTENDS Integers, FiniteSets

\* Slots: of an inventory and of the source (4 in the code); MaxMade: how many
\* materias are ever made; Nobody: a null pointer.
CONSTANTS Characters, Slots, Types, MaxMade, Nobody

\* type: of each materia made so far; alive: those not deleted; inventory, learned:
\* the slots; exists: the characters constructed and not yet destructed; hand: the
\* pointers that the program which uses the classes keeps; wild: whether something
\* deleted was deleted or used.
VARIABLES type, alive, inventory, learned, exists, hand, wild

vars == <<type, alive, inventory, learned, exists, hand, wild>>

Indices == 1 .. Slots
Empty == [i \in Indices |-> Nobody]
Held(slots) == {slots[i] : i \in Indices} \ {Nobody}

Init ==
  /\ type = <<>> /\ alive = {} /\ hand = {} /\ exists = {} /\ wild = FALSE
  /\ inventory = [c \in Characters |-> Empty]
  /\ learned = Empty

-----------------------------------------------------------------------------

Made == DOMAIN type
Next1 == Cardinality(Made) + 1

\* The clones of what the slots hold, numbered from n on in the order of the slots.
CloneOf(slots, n) ==
  [i \in Indices |-> IF slots[i] = Nobody THEN Nobody
                     ELSE n + Cardinality({j \in 1 .. i - 1 : slots[j] # Nobody})]

CloneTypes(slots, n) ==
  [m \in Made \union Held(CloneOf(slots, n)) |->
     IF m \in Made THEN type[m] ELSE type[slots[CHOOSE i \in Indices : CloneOf(slots, n)[i] = m]]]

\* delete of each pointer in the slots.
Deletes(slots) ==
  /\ alive' = alive \ Held(slots)
  /\ wild' = (wild \/ ~(Held(slots) \subseteq alive))

FreeSlots(slots) == {i \in Indices : slots[i] = Nobody}
FirstFree(slots) == CHOOSE i \in FreeSlots(slots) : \A j \in FreeSlots(slots) : i <= j

Make(t) ==
  /\ Next1 <= MaxMade
  /\ type' = [m \in Made \union {Next1} |-> IF m = Next1 THEN t ELSE type[m]]
  /\ alive' = alive \union {Next1}

\* The program: new Ice, new Cure.
NewMateria(t) ==
  /\ Make(t)
  /\ hand' = hand \union {Next1}
  /\ UNCHANGED <<inventory, learned, exists, wild>>

\* learnMateria: the source keeps a copy, and the pointer stays with who called.
LearnMateria(m) ==
  /\ FreeSlots(learned) # {}
  /\ Make(type[m])
  /\ learned' = [learned EXCEPT ![FirstFree(learned)] = Next1]
  /\ UNCHANGED <<inventory, exists, hand, wild>>

\* createMateria: a copy of the first one of that type.
CreateMateria(t) ==
  /\ \E i \in Indices : learned[i] # Nobody /\ type[learned[i]] = t
  /\ Make(t)
  /\ hand' = hand \union {Next1}
  /\ UNCHANGED <<inventory, learned, exists, wild>>

Construct(c) ==
  /\ c \notin exists
  /\ exists' = exists \union {c}
  /\ inventory' = [inventory EXCEPT ![c] = Empty]
  /\ UNCHANGED <<type, alive, learned, hand, wild>>

\* equip takes the pointer over, unless every slot is taken.
Equip(c, m) ==
  /\ c \in exists
  /\ IF FreeSlots(inventory[c]) = {} THEN UNCHANGED <<inventory, hand>>
     ELSE /\ inventory' = [inventory EXCEPT ![c][FirstFree(inventory[c])] = m]
          /\ hand' = hand \ {m}
  /\ UNCHANGED <<type, alive, learned, exists, wild>>

\* unequip deletes nothing: the pointer is the caller's, who looked it up before.
Unequip(c, i) ==
  /\ c \in exists /\ inventory[c][i] # Nobody
  /\ inventory' = [inventory EXCEPT ![c][i] = Nobody]
  /\ hand' = hand \union {inventory[c][i]}
  /\ UNCHANGED <<type, alive, learned, exists, wild>>

Use(c, i) ==
  /\ c \in exists /\ inventory[c][i] # Nobody
  /\ wild' = (wild \/ inventory[c][i] \notin alive)
  /\ UNCHANGED <<type, alive, inventory, learned, exists, hand>>

\* Mutant: the pointers are copied.
CopyPointers(c, other) ==
  /\ inventory' = [inventory EXCEPT ![c] = inventory[other]]
  /\ Deletes(inventory[c])
  /\ UNCHANGED type

\* clearInventory and copyInventory.
CopyInventory(c, other) ==
  LET made == CloneOf(inventory[other], Next1)
  IN  /\ Cardinality(Made) + Cardinality(Held(made)) <= MaxMade
      /\ inventory' = [inventory EXCEPT ![c] = made]
      /\ type' = CloneTypes(inventory[other], Next1)
      /\ alive' = (alive \ Held(inventory[c])) \union Held(made)
      /\ wild' = (wild \/ ~(Held(inventory[c]) \subseteq alive))

\* operator=; of itself it is nothing.
Assign(c, other) ==
  /\ {c, other} \subseteq exists /\ c # other
  /\ CopyInventory(c, other)
  /\ UNCHANGED <<learned, exists, hand>>

\* The copy constructor.
CopyConstruct(c, other) ==
  /\ c \notin exists /\ other \in exists
  /\ exists' = exists \union {c}
  /\ CopyInventory(c, other)
  /\ UNCHANGED <<learned, hand>>

Destruct(c) ==
  /\ c \in exists
  /\ exists' = exists \ {c}
  /\ Deletes(inventory[c])
  /\ inventory' = [inventory EXCEPT ![c] = Empty]
  /\ UNCHANGED <<type, learned, hand>>

\* The program deletes what it holds itself.
Delete(m) ==
  /\ hand' = hand \ {m}
  /\ alive' = alive \ {m}
  /\ wild' = (wild \/ m \notin alive)
  /\ UNCHANGED <<type, inventory, learned, exists>>

Next ==
  \/ \E t \in Types : NewMateria(t) \/ CreateMateria(t)
  \/ \E m \in hand : LearnMateria(m) \/ Delete(m) \/ \E c \in Characters : Equip(c, m)
  \/ \E c \in Characters : Construct(c) \/ Destruct(c) \/ \E i \in Indices : Unequip(c, i) \/ Use(c, i)
  \/ \E c, other \in Characters : Assign(c, other) \/ CopyConstruct(c, other)

Spec == Init /\ [][Next]_vars

-----------------------------------------------------------------------------

\* A program that deletes what it has made, was given back or could not equip, and
\* nothing else, never meets a deleted materia and loses none: whatever is alive has
\* one owner, a slot of one character, the source or the program itself, through any
\* sequence of copies, assignments and destructions (Character.cpp:17, :36, :49, :64).
EveryMateriaHasOneOwner ==
  /\ ~wild
  /\ alive = hand \union Held(learned) \union UNION {Held(inventory[c]) : c \in Characters}
  /\ \A c \in Characters, i, j \in Indices : i # j /\ inventory[c][i] = inventory[c][j] => inventory[c][i] = Nobody
  /\ \A c, d \in Characters : c # d => Held(inventory[c]) \intersect Held(inventory[d]) = {}
  /\ \A c \in Characters : Held(inventory[c]) \intersect (hand \union Held(learned)) = {}
  /\ hand \intersect Held(learned) = {}
=============================================================================

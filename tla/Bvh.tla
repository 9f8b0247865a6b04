--------------------------------- MODULE Bvh ---------------------------------
(* miniRT's tree of bounding boxes: how it is built from the objects and what a  *)
(* ray meets in it.  Two axes; rays run along an axis or a diagonal.             *)
EXTENDS Integers, Sequences, SequencesExt, FiniteSets, FiniteSetsExt

\* Scenes: the objects, each with its box and the parameters (roots) where the ray
\* meets it, the ray, and the range asked for.  Far stands for infinity, Nowhere
\* for no hit, NaN for what zero times infinity is; Unread: nothing asked yet.
CONSTANTS Scenes, Far, Nowhere, NaN, Unread

VARIABLES input,    \* the scene
          order,    \* the objects as the tree has them, from left to right
          todo,     \* ranges of the objects of which no node is made yet
          outcome

vars == <<input, order, todo, outcome>>

Axes == {1, 2}

-----------------------------------------------------------------------------
(* Building. *)

surrounding_box(boxes) ==
  [minimum |-> [a \in Axes |-> Min({b.minimum[a] : b \in boxes})],
   maximum |-> [a \in Axes |-> Max({b.maximum[a] : b \in boxes})]]

\* The boxes of a node's children join to the box of all that is below it.
BoundingBox(start, end) == surrounding_box({order[i].box : i \in start .. end})

Mid(start, end) == start + (end - start + 1) \div 2

\* What nth_element may leave of the objects in the range, on a random axis: none
\* behind the middle is smaller, none before it greater.  (Of two, the smaller.)
Partitions(start, end) ==
  LET Key(object, axis) == object.box.minimum[axis]
      mid == Mid(start, end)
      permutations == {q \in [start .. end -> start .. end] : \A i, j \in start .. end : i # j => q[i] # q[j]}
  IN  {other \in {[i \in DOMAIN order |-> IF i \in start .. end THEN order[p[i]] ELSE order[i]] : p \in permutations} :
         \E axis \in Axes : \A i \in start .. mid - 1, j \in mid .. end :
           /\ Key(other[i], axis) <= Key(other[mid], axis)
           /\ Key(other[mid], axis) <= Key(other[j], axis)}

Init ==
  /\ input \in Scenes
  /\ order = input.objects
  /\ todo = IF order = <<>> THEN {} ELSE {<<1, Len(order)>>}
  /\ outcome = Unread

BuildNode ==
  \E range \in todo :
    LET start == range[1]
        end == range[2]
        mid == Mid(start, end)
    IN  /\ IF start = end THEN UNCHANGED order ELSE order' \in Partitions(start, end)
        /\ todo' = (todo \ {range}) \union (IF end - start < 2 THEN {} ELSE {<<start, mid - 1>>, <<mid, end>>})
        /\ UNCHANGED <<input, outcome>>

-----------------------------------------------------------------------------
(* Asking. *)

Less(x, y) == x # NaN /\ y # NaN /\ x < y
StdMax(x, y) == IF Less(x, y) THEN y ELSE x
StdMin(x, y) == IF Less(y, x) THEN y ELSE x

\* A distance over a component of the direction.
Over(x, d) == CASE d = 0 /\ x = 0 -> NaN
                [] d = 0 /\ x # 0 -> IF x > 0 THEN Far ELSE -Far
                [] OTHER -> x * d

From(x, origin) == IF x \in {Far, -Far} THEN x ELSE x - origin

\* Axis by axis, the part of the range that is within the box.
BoxHit(box, ray, t_min, t_max) ==
  LET near(a) == Over(From((IF ray.dir[a] < 0 THEN box.maximum ELSE box.minimum)[a], ray.origin[a]), ray.dir[a])
      far(a) == Over(From((IF ray.dir[a] < 0 THEN box.minimum ELSE box.maximum)[a], ray.origin[a]), ray.dir[a])
      low[a \in 0 .. 2] == IF a = 0 THEN t_min ELSE StdMax(near(a), low[a - 1])
      high[a \in 0 .. 2] == IF a = 0 THEN t_max ELSE StdMin(far(a), high[a - 1])
      Open(a) == low[a] = NaN \/ high[a] = NaN \/ low[a] < high[a]
  IN  \A a \in Axes : Open(a)

\* The nearest root in the range.
ObjectHit(object, t_min, t_max) ==
  LET roots == {t \in object.roots : t_min <= t /\ t <= t_max}
  IN  IF roots = {} THEN Nowhere ELSE Min(roots)

\* A node of one object has it on both sides, a node of two has them.
Left(start, end) == <<start, IF start = end THEN start ELSE Mid(start, end) - 1>>
Right(start, end) == <<IF start = end THEN start ELSE Mid(start, end), end>>
IsLeaf(start, end) == end - start < 2

\* Mutant: the right side is asked in the whole range.
LimitAnyhow(leftHit, t_max) == t_max

Limit(leftHit, t_max) == IF leftHit = Nowhere THEN t_max ELSE leftHit

\* The nearest hit of the objects from start to end; right of the left side's hit
\* nothing is looked for.
NodeHit(t_low, t_high) ==
  LET hit[start \in DOMAIN order, end \in DOMAIN order, t_max \in -Far .. Far] ==
        LET side(range, limit) == IF IsLeaf(start, end) THEN ObjectHit(order[range[1]], t_low, limit)
                                  ELSE hit[range[1], range[2], limit]
            left == side(Left(start, end), t_max)
            right == side(Right(start, end), Limit(left, t_max))
        IN  IF ~BoxHit(BoundingBox(start, end), input.ray, t_low, t_max) THEN Nowhere
            ELSE IF right # Nowhere THEN right ELSE left
  IN  hit[1, Len(order), t_high]

IntersectsAny(t_low, t_high) ==
  LET any[start \in DOMAIN order, end \in DOMAIN order] ==
        LET side(range) == IF IsLeaf(start, end) THEN ObjectHit(order[range[1]], t_low, t_high) # Nowhere
                           ELSE any[range[1], range[2]]
        IN  /\ BoxHit(BoundingBox(start, end), input.ray, t_low, t_high)
            /\ side(Left(start, end)) \/ side(Right(start, end))
  IN  any[1, Len(order)]

\* The ray is cast once the tree is there; a scene without objects has none.
CastRay ==
  /\ todo = {} /\ outcome = Unread
  /\ outcome' = IF order = <<>> THEN [hit |-> Nowhere, shadow |-> FALSE]
                ELSE [hit |-> NodeHit(input.t_min, input.t_max),
                      shadow |-> IntersectsAny(input.t_min, input.t_max)]
  /\ UNCHANGED <<input, order, todo>>

Next == BuildNode \/ CastRay

-----------------------------------------------------------------------------

\* Whatever axes the nodes are split along and wherever equal objects go, a ray
\* meets the nearest of all the objects' points in the range, and a light is in
\* the shadow iff there is one (bvh.cpp:65, :95).
RayMeetsTheNearest ==
  LET roots == {t \in UNION {input.objects[i].roots : i \in DOMAIN input.objects} : input.t_min <= t /\ t <= input.t_max}
  IN  outcome # Unread =>
        /\ outcome.hit = IF roots = {} THEN Nowhere ELSE Min(roots)
        /\ outcome.shadow <=> roots # {}
=============================================================================

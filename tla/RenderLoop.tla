------------------------------ MODULE RenderLoop ------------------------------
(* miniRT's main loop: the keys move the camera, each turn of the loop renders    *)
(* one sample of what the camera sees, and the window shows the average of the    *)
(* samples.  Angles are quarter turns, distances what a key moves in a moment.    *)
EXTENDS Integers, Sequences, SequencesExt, FiniteSets, FiniteSetsExt

\* Cameras: the scene file's; Presses: sets of keys held down; Durations: of a
\* turn of the loop; Garbage: what is in memory; Reach, MaxSamples: bounds on how
\* far the camera goes from where it starts and on the samples of an average.
CONSTANTS Cameras, Presses, Durations, Garbage, Reach, MaxSamples

VARIABLES camera,     \* the scene's camera
          cam,        \* the controller of the camera
          cam_moved,
          accumulation,   \* the samples that are added up
          samples_per_pixel,
          hasWorld,   \* the scene has objects
          running

vars == <<camera, cam, cam_moved, accumulation, samples_per_pixel, hasWorld, running>>

HalfTurn == 2
MaxPitch == 1    \* less a little

-----------------------------------------------------------------------------
(* CameraController. *)

Sin(yaw) == CASE yaw % 4 = 1 -> 1 [] yaw % 4 = 3 -> -1 [] OTHER -> 0
Cos(yaw) == Sin(yaw + 1)

Clamp(x, low, high) == IF x < low THEN low ELSE IF x > high THEN high ELSE x

\* The orientation that the angles make; almost a quarter up or down there is
\* only the way up or down.
Orientation(c) == IF c.pitch = 0 THEN <<Sin(c.yaw), 0, Cos(c.yaw)>> ELSE <<0, c.pitch, 0>>

RightOf(c) == <<Cos(c.yaw), 0, -Sin(c.yaw)>>

Moved(c, direction, distance) == [c EXCEPT !.origin = [i \in 1 .. 3 |-> @[i] + direction[i] * distance]]

MoveForward(c, distance) == Moved(c, Orientation(c), distance)
StrafeRight(c, distance) == Moved(c, RightOf(c), distance)
MoveUp(c, distance) == Moved(c, <<0, 1, 0>>, distance)

Wrapped(yaw) ==
  LET down == IF yaw > HalfTurn THEN yaw - 2 * HalfTurn ELSE yaw
  IN  IF down < -HalfTurn THEN down + 2 * HalfTurn ELSE down

AddYaw(c, delta) == [c EXCEPT !.yaw = Wrapped(@ + delta)]

AddPitch(c, delta) == [c EXCEPT !.pitch = Clamp(@ + delta, -MaxPitch, MaxPitch)]

\* The pitch is the orientation's; the yaw is taken from the controller's own
\* orientation before that is set: any.
Controllers(c) ==
  {[origin |-> c.origin, yaw |-> yaw, pitch |-> Clamp(c.orientation[2], -MaxPitch, MaxPitch)] : yaw \in -HalfTurn .. HalfTurn}

-----------------------------------------------------------------------------
(* The keys, in the order they are looked at. *)

Keys == <<"W", "S", "A", "D", "Space", "LShift", "Q", "E", "Up", "Down">>

Pressed(c, key, dt) ==
  CASE key = "W" -> MoveForward(c, dt)
    [] key = "S" -> MoveForward(c, -dt)
    [] key = "A" -> StrafeRight(c, -dt)
    [] key = "D" -> StrafeRight(c, dt)
    [] key = "Space" -> MoveUp(c, dt)
    [] key = "LShift" -> MoveUp(c, -dt)
    [] key = "Q" -> AddYaw(c, -dt)
    [] key = "E" -> AddYaw(c, dt)
    [] key = "Up" -> AddPitch(c, -dt)
    [] key = "Down" -> AddPitch(c, dt)

HandleInput(c, keys, dt) ==
  FoldLeft(LAMBDA sofar, key : Pressed(sofar, key, dt), c, SelectSeq(Keys, LAMBDA key : key \in keys))

\* Mutant: turning is not moving.
SetsMovedWhenWalking(keys) == keys \intersect {"W", "S", "A", "D", "Space", "LShift"} # {}

SetsMoved(keys) == keys # {}

-----------------------------------------------------------------------------

ViewOf(c) == [origin |-> c.origin, orientation |-> Orientation(c)]

Init ==
  /\ camera \in Cameras
  /\ cam \in Controllers(camera)
  /\ cam_moved = TRUE
  /\ accumulation = <<>>
  /\ samples_per_pixel = 0
  /\ hasWorld \in BOOLEAN
  /\ running = TRUE

\* One sample of what the scene's camera sees.  Without objects nothing is
\* written over what the buffer was allocated with.
Sample(view) == IF hasWorld THEN view ELSE Garbage

\* One turn of the loop; the one that finds the window closed is the last.
Frame ==
  /\ running
  /\ \E closed \in BOOLEAN, keys \in Presses, dt \in Durations :
       LET next == HandleInput(cam, keys, dt)
           restart == cam_moved \/ SetsMoved(keys)
           view == IF restart THEN ViewOf(next) ELSE camera
       IN  /\ restart \/ samples_per_pixel < MaxSamples
           /\ \A i \in 1 .. 3 : next.origin[i] \in -Reach .. Reach
           /\ running' = ~closed
           /\ cam' = next
           /\ cam_moved' = FALSE
           /\ camera' = view
           /\ samples_per_pixel' = (IF restart THEN 0 ELSE samples_per_pixel) + 1
           /\ accumulation' = (IF restart THEN <<>> ELSE accumulation) \o <<Sample(view)>>
  /\ UNCHANGED hasWorld

Next == Frame

-----------------------------------------------------------------------------

\* What the window shows is an average of as many samples as it is divided by, all
\* of them seen from where the camera is now and in the direction it now looks,
\* whatever keys were held before; and it never looks past straight up or down
\* (main.cpp:81, :115, :289).
OneViewInTheAverage ==
  samples_per_pixel > 0 =>
    /\ Len(accumulation) = samples_per_pixel
    /\ camera = ViewOf(cam)
    /\ hasWorld => \A i \in DOMAIN accumulation : accumulation[i] = ViewOf(cam)
    /\ cam.yaw \in -HalfTurn .. HalfTurn /\ cam.pitch \in -MaxPitch .. MaxPitch
=============================================================================

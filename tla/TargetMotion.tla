------------------------------ MODULE TargetMotion ------------------------------
(****************************************************************************)
(* The flight of the target along one axis of the world.  Each tick adds    *)
(* the velocity; a target that would leave the world is reflected at its    *)
(* edge.  The two axes do not touch each other.                             *)
(*                                                                          *)
(* The code computes in floats, but a scenario starts from whole numbers    *)
(* and the steps only add, subtract and change signs: below 2^24 every      *)
(* value is a whole number and exact.                                       *)
(*                                                                          *)
(* Source: common/src/simulation_support.cpp, simulation.cpp                *)
(****************************************************************************)
EXTENDS Integers

CONSTANTS
    Limits,       \* the sizes of the world, world_width or world_height
    Speeds,       \* the size of target_velocity_x or _y, in units per tick
    MaxTicks      \* bound: ticks of a flight

ASSUME MotionConstants ==
    Limits \subseteq Nat \ {0} /\ Speeds \subseteq Nat /\ MaxTicks \in Nat

VARIABLES
    limit, start, launched,   \* the world, and the flight as it was configured
    position, velocity,       \* target_world_, target_velocity_world_
    ticks

motionVars == <<limit, start, launched, position, velocity, ticks>>

Within(value, lo, hi) ==
    LET capped == IF value < hi THEN value ELSE hi
    IN  IF lo > capped THEN lo ELSE capped

MotionInit ==
    /\ limit \in Limits /\ launched \in Speeds \cup {-v : v \in Speeds}
    /\ start \in 0 .. limit - 1   \* the validation of the configuration
    /\ position = start /\ velocity = launched
    /\ ticks = 0

--------------------------------------------------------------------------------
\* Mutant: a target at the edge turns round although it may go on.
BouncedAtEdge(p, v) ==
    LET edge == limit - 1
        moved == IF p + v < 0 THEN [position |-> -(p + v), velocity |-> -v]
                 ELSE IF p + v >= edge THEN [position |-> edge, velocity |-> -v]
                 ELSE [position |-> p + v, velocity |-> v]
    IN  [moved EXCEPT !.position = Within(@, 0, edge)]

\* bounce_world_axis
Bounced(p, v) ==
    LET edge == limit - 1
        moved == IF p + v < 0 THEN [position |-> -(p + v), velocity |-> -v]
                 ELSE IF p + v > edge THEN [position |-> edge - (p + v - edge), velocity |-> -v]
                 ELSE [position |-> p + v, velocity |-> v]
    IN  IF limit <= 1 \/ v = 0 THEN [position |-> Within(p, 0, edge), velocity |-> v]
        ELSE [moved EXCEPT !.position = Within(@, 0, edge)]

\* advance_tick, while the target is active.
MotionTick ==
    /\ ticks < MaxTicks /\ ticks' = ticks + 1
    /\ position' = Bounced(position, velocity).position
    /\ velocity' = Bounced(position, velocity).velocity
    /\ UNCHANGED <<limit, start, launched>>

MotionSpec == MotionInit /\ [][MotionTick]_motionVars
--------------------------------------------------------------------------------
(****************************************************************************)
(* Properties                                                               *)
(****************************************************************************)

Magnitude(v) == IF v < 0 THEN -v ELSE v

\* However fast it is and however small the world, the target stays inside and
\* keeps its speed.
StaysInWorld ==
    /\ position \in 0 .. limit - 1
    /\ Magnitude(velocity) = Magnitude(launched)

\* The straight flight, folded into a world of the given size.
Folded(p, size) ==
    LET q == p % (2 * (size - 1)) IN IF q <= size - 1 THEN q ELSE 2 * (size - 1) - q

\* The reflections amount to a straight flight in a world unfolded at its edges:
\* after any number of ticks a target that is not faster than the world is wide
\* is where the closed form says.
FollowsReflection ==
    limit > 1 /\ Magnitude(launched) <= limit - 1 =>
        position = Folded(start + ticks * launched, limit)

\* The clamped reflections are the motion of a body in a closed world: inside it
\* at every speed, and exact at every speed the world allows.
MotionFaithful == StaysInWorld /\ FollowsReflection

================================================================================

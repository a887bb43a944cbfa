---------------------------- MODULE RotationPhase ----------------------------
(***************************************************************************)
(* The Moonraker's rotation (fixture/profile/moonraker.rs).  Its beams must *)
(* not point below the horizon of the group, so that render clamps the     *)
(* tilt: by the roll angle while the head is parked at a known angle, and  *)
(* by the worst case in every other phase.  Time is counted in updates.    *)
(***************************************************************************)
EXTENDS Naturals

CONSTANTS
    RotationArm,      \* the updates of ROTATION_ARM
    RotationSettle    \* the updates of ROTATION_SETTLE

ASSUME RotationAssumption ==
    RotationArm \in Nat \ {0} /\ RotationSettle \in Nat \ {0}

Phases == {"Parked", "Arming", "Spinning", "Settling"}

\* coast and held are history.  coast: the updates for which the head may
\* still be moving; the head itself is taken to need all of ROTATION_SETTLE,
\* and nothing is known of it when the fixture has been patched.  held: the
\* updates since the clamp took the worst case, as far as RotationArm.
Rotations == [kind : {"rotation"}, phase : Phases,
              left : 0 .. RotationArm + RotationSettle,
              coast : 0 .. RotationSettle, held : 0 .. RotationArm]

new_rotation == [kind |-> "rotation", phase |-> "Settling", left |-> RotationSettle,
                 coast |-> RotationSettle, held |-> 0]

\* Only a parked head is clamped by its roll angle (safety_roll).
WorstCase(phase) == phase # "Parked"

In(phase, left) == [phase |-> phase, left |-> left]
\* A phase that lasts, and the one after it.
Elapse(r, next) == IF r.left <= 1 THEN In(next, 0) ELSE In(r.phase, r.left - 1)

from_parked(r, requested) ==
    IF requested THEN In("Arming", RotationArm) ELSE In("Parked", 0)
from_arming(r, requested) ==
    IF requested THEN Elapse(r, "Spinning") ELSE In("Parked", 0)
from_spinning(r, requested) ==
    IF requested THEN In("Spinning", 0) ELSE In("Settling", RotationSettle)
\* Mutant: straight back into the spin.
from_settling_Respin(r, requested) ==
    IF requested THEN In("Spinning", 0) ELSE Elapse(r, "Parked")
from_settling(r, requested) ==
    IF requested THEN In("Arming", RotationArm) ELSE Elapse(r, "Parked")

tick(r, requested) ==
    CASE r.phase = "Parked"   -> from_parked(r, requested)
      [] r.phase = "Arming"   -> from_arming(r, requested)
      [] r.phase = "Spinning" -> from_spinning(r, requested)
      [] r.phase = "Settling" -> from_settling(r, requested)

\* The head spins while it is told to, and comes to rest after that.
coasting(r, phase) ==
    IF "Spinning" \in {r.phase, phase} THEN RotationSettle
    ELSE IF r.coast = 0 THEN 0 ELSE r.coast - 1

holding(r, phase) ==
    IF ~WorstCase(phase) \/ ~WorstCase(r.phase) THEN 0
    ELSE IF r.held = RotationArm THEN RotationArm ELSE r.held + 1

update_rotation(r, requested) ==
    LET next == tick(r, requested) IN
    [kind |-> "rotation", phase |-> next.phase, left |-> next.left,
     coast |-> coasting(r, next.phase), held |-> holding(r, next.phase)]
=============================================================================

----------------------------- MODULE RigProofs -----------------------------
(***************************************************************************)
(* Proofs about the fixtures on the show thread, for any patches, any      *)
(* sequence of repatches and of controls, and any ROTATION_ARM,            *)
(* ROTATION_SETTLE and UPDATES_TO_HOLD.                                    *)
(*                                                                         *)
(* None of the properties is inductive.  That the clamp has held for       *)
(* ROTATION_ARM when the head spins is known by counting while it is armed: *)
(* what it has held and what is left add up.  That a Comet takes its steps *)
(* in order is known by where each of them is: between frames one step may *)
(* have left the queue and still be due.  That a frame shows nothing of    *)
(* the one before is known from the profiles: what is written under some   *)
(* condition is written under all, and what stands in the frame was        *)
(* written.  That cells flash in step is known from where the parts of the *)
(* chase are: a first one's next pattern, and the others offset from it.   *)
(***************************************************************************)
EXTENDS Rig, TLAPS, SequenceTheorems, FiniteSetTheorems

(***************************************************************************)
(* The rotation                                                            *)
(***************************************************************************)
RotationOK(d) ==
    /\ d \in Rotations
    /\ d.phase = "Arming" => d.left > 0 /\ d.left <= RotationArm
                                /\ d.held + d.left >= RotationArm
    /\ d.phase = "Settling" => d.left <= RotationSettle
    /\ d.phase = "Spinning" => d.held = RotationArm

(* A head that has just been patched is settling.                          *)
LEMMA NewRotation == RotationOK(new_rotation)
BY RotationAssumption DEF RotationOK, new_rotation, Rotations, Phases

(* One update keeps the count: the clamp holds the worst case for one      *)
(* update more and one less is left of the arming.                         *)
LEMMA RotationStep ==
    ASSUME NEW r, RotationOK(r), NEW requested \in BOOLEAN
    PROVE  RotationOK(update_rotation(r, requested))
<1> USE RotationAssumption
<1>0. /\ r \in Rotations /\ r.phase \in Phases
      /\ r.left \in 0 .. RotationArm + RotationSettle
      /\ r.coast \in 0 .. RotationSettle /\ r.held \in 0 .. RotationArm
  BY DEF RotationOK, Rotations
<1>1. PICK next : next = tick(r, requested)
  OBVIOUS
<1>2. next = In(next.phase, next.left)
      /\ next.phase \in Phases /\ next.left \in 0 .. RotationArm + RotationSettle
  BY <1>0, <1>1 DEF RotationOK, tick, from_parked, from_arming, from_spinning,
     from_settling, Elapse, In, Phases
<1>3. coasting(r, next.phase) \in 0 .. RotationSettle
  BY <1>0, <1>2 DEF coasting
<1>4. holding(r, next.phase) \in 0 .. RotationArm
  BY <1>0, <1>2 DEF holding
<1>5. PICK u : u = update_rotation(r, requested)
  OBVIOUS
<1>6. u \in Rotations /\ u.phase = next.phase /\ u.left = next.left
      /\ u.held = holding(r, next.phase)
  BY <1>1, <1>2, <1>3, <1>4, <1>5 DEF update_rotation, Rotations
<1>7. ASSUME next.phase = "Arming"
      PROVE  next.left > 0 /\ next.left <= RotationArm
                /\ holding(r, next.phase) + next.left >= RotationArm
  <2>1. CASE r.phase = "Arming"
    BY <1>0, <1>1, <1>7, <2>1 DEF RotationOK, tick, from_arming, Elapse, In, Phases,
       holding, WorstCase
  <2>2. CASE r.phase # "Arming"
    BY <1>0, <1>1, <1>4, <1>7, <2>2 DEF tick, from_parked, from_spinning,
       from_settling, Elapse, In, Phases
  <2> QED
    BY <2>1, <2>2
<1>8. ASSUME next.phase = "Settling"
      PROVE  next.left <= RotationSettle
  BY <1>0, <1>1, <1>8 DEF RotationOK, tick, from_parked, from_arming, from_spinning,
     from_settling, Elapse, In, Phases
<1>9. ASSUME next.phase = "Spinning"
      PROVE  holding(r, next.phase) = RotationArm
  <2>1. r.phase \in {"Arming", "Spinning"} /\ (r.phase = "Arming" => r.left <= 1)
    BY <1>0, <1>1, <1>9 DEF tick, from_parked, from_arming, from_spinning,
       from_settling, Elapse, In, Phases
  <2> QED
    BY <1>0, <1>9, <2>1 DEF RotationOK, holding, WorstCase
<1> QED
  BY <1>5, <1>6, <1>7, <1>8, <1>9 DEF RotationOK

(***************************************************************************)
(* The trigger                                                             *)
(***************************************************************************)
IsTrigger(d) ==
    /\ {"kind", "steps", "prior", "hold", "output", "due", "seen", "known"}
           \subseteq DOMAIN d
    /\ d.kind = "trigger"
    /\ d.steps \in Seq(Steps) /\ d.prior \in Steps \cup {"Idle"} /\ d.hold \in Nat

\* n updates after the last frame.  With one, a step may have left the queue
\* that the fixture has not been sent.
TriggerOK(d, n) ==
    /\ IsTrigger(d)
    /\ d.prior \in Steps => d.output = d.prior
    /\ d.prior = "Idle" => d.output \notin Steps
    /\ d.known => n \in {0, 1}
    /\ d.known /\ n = 0 => d.seen = d.output /\ d.due = d.steps
    /\ d.known /\ n = 1 =>
        IF d.output \in Steps /\ d.output # d.seen
          THEN /\ d.due # <<>> /\ Head(d.due) = d.output /\ Tail(d.due) = d.steps
               /\ Len(d.due) = Len(d.steps) + 1
          ELSE d.due = d.steps

(* A Comet that has just been patched has nothing to take.                 *)
LEMMA NewTrigger == TriggerOK(new_trigger, 0)
BY DEF TriggerOK, new_trigger, IsTrigger, Steps

(* A step that is asked for is due, and last in the queue.                 *)
LEMMA Enqueued ==
    ASSUME NEW t, TriggerOK(t, 0), NEW s \in Steps
    PROVE  TriggerOK(enqueue_step(t, s), 0)
<1>0. IsTrigger(t)
  BY DEF TriggerOK
<1>1. PICK u : u = enqueue_step(t, s)
  OBVIOUS
<1>2. /\ IsTrigger(u)
      /\ u.prior = t.prior /\ u.output = t.output /\ u.seen = t.seen
      /\ u.known = t.known /\ u.steps = Append(t.steps, s)
      /\ u.due = IF t.known THEN Append(t.due, s) ELSE t.due
  BY <1>0, <1>1 DEF enqueue_step, IsTrigger
<1>3. t.known => t.due = t.steps
  BY DEF TriggerOK
<1> QED
  BY <1>1, <1>2, <1>3 DEF TriggerOK

(* An update takes at most the step that is next, and puts it out: the     *)
(* value before it was another, because a step that is taken is the last   *)
(* one's opposite or follows an idle value.                                *)
LEMMA TriggerStep ==
    ASSUME NEW t, NEW n \in Nat, TriggerOK(t, n), NEW active
    PROVE  TriggerOK([update_trigger(t, active) EXCEPT !.known = @ /\ n = 0], n + 1)
<1>0. IsTrigger(t)
  BY DEF TriggerOK
<1>1. PICK u : u = [update_trigger(t, active) EXCEPT !.known = @ /\ n = 0]
  OBVIOUS
<1> SUFFICES TriggerOK(u, n + 1)
  BY <1>1
<1>2. UpdatesToHold - 1 \in Nat
  BY TriggerAssumption
<1>3. t.known /\ n = 0 => t.seen = t.output /\ t.due = t.steps
  BY DEF TriggerOK
<1>4. CASE t.hold > 0
  <2>1. PICK h \in Nat : h = t.hold - 1
    BY <1>0, <1>4 DEF IsTrigger
  <2>2. u = [[t EXCEPT !.hold = h] EXCEPT !.known = @ /\ n = 0]
    BY <1>1, <1>4, <2>1 DEF update_trigger
  <2>3. /\ IsTrigger(u)
        /\ u.prior = t.prior /\ u.output = t.output /\ u.seen = t.seen
        /\ u.steps = t.steps /\ u.due = t.due
        /\ u.known => t.known /\ n = 0
    BY <1>0, <2>2 DEF IsTrigger
  <2> QED
    BY <1>3, <2>3 DEF TriggerOK
<1>5. CASE ~(t.hold > 0) /\ t.steps # <<>>
  <2>1. PICK s : s = Head(t.steps)
    OBVIOUS
  <2>2. /\ s \in Steps /\ Tail(t.steps) \in Seq(Steps)
        /\ Len(t.steps) = Len(Tail(t.steps)) + 1
    BY <1>0, <1>5, <2>1, HeadTailProperties DEF IsTrigger
  <2>3. CASE s = t.prior
    <3>1. /\ IsTrigger(u)
          /\ u.prior = "Idle" /\ u.output = "stop" /\ u.seen = t.seen
          /\ u.steps = t.steps /\ u.due = t.due
          /\ u.known => t.known /\ n = 0
      BY <1>0, <1>1, <1>2, <1>5, <2>1, <2>3 DEF update_trigger, take_step, IsTrigger
    <3> QED
      BY <1>3, <3>1 DEF TriggerOK, Steps
  <2>4. CASE s # t.prior
    <3>1. /\ IsTrigger(u)
          /\ u.prior = s /\ u.output = s /\ u.seen = t.seen
          /\ u.steps = Tail(t.steps) /\ u.due = t.due
          /\ u.known => t.known /\ n = 0
      BY <1>0, <1>1, <1>2, <1>5, <2>1, <2>2, <2>4 DEF update_trigger, take_step, IsTrigger
    <3>2. t.output # s
      BY <1>0, <2>2, <2>4 DEF TriggerOK, IsTrigger
    <3> QED
      BY <1>3, <1>5, <2>1, <2>2, <3>1, <3>2 DEF TriggerOK, Steps
  <2> QED
    BY <2>3, <2>4
<1>6. CASE ~(t.hold > 0) /\ t.steps = <<>>
  <2>1. PICK o : o = idle_output(active) /\ o \notin Steps
    BY DEF idle_output, Steps
  <2>2. /\ IsTrigger(u)
        /\ u.prior = "Idle" /\ u.output = o /\ u.seen = t.seen
        /\ u.steps = t.steps /\ u.due = t.due
        /\ u.known => t.known /\ n = 0
    BY <1>0, <1>1, <1>6, <2>1 DEF update_trigger, IsTrigger
  <2> QED
    BY <1>3, <2>1, <2>2 DEF TriggerOK, Steps
<1> QED
  BY <1>0, <1>4, <1>5, <1>6 DEF IsTrigger

(* A frame brings the fixture up to date.                                  *)
LEMMA TriggerSent ==
    ASSUME NEW t, NEW n \in Nat \ {0}, TriggerOK(t, n)
    PROVE  TriggerOK(sent(t), 0)
<1>0. IsTrigger(t)
  BY DEF TriggerOK
<1>1. PICK u : u = sent(t)
  OBVIOUS
<1>2. /\ IsTrigger(u)
      /\ u.prior = t.prior /\ u.output = t.output /\ u.seen = t.output
      /\ u.known = t.known /\ u.steps = t.steps
      /\ u.due = IF ~t.known THEN <<>>
                 ELSE IF t.output \notin Steps \/ t.output = t.seen THEN t.due
                 ELSE IF t.due # <<>> /\ Head(t.due) = t.output THEN Tail(t.due)
                 ELSE <<"never asked for">>
  BY <1>0, <1>1 DEF sent, IsTrigger
<1>3. t.known => u.due = t.steps
  BY <1>2 DEF TriggerOK
<1> QED
  BY <1>1, <1>2, <1>3 DEF TriggerOK

(***************************************************************************)
(* The inductive invariant                                                 *)
(***************************************************************************)
\* An array of cells, or nothing: only that it is neither of the others.
OtherOK(d) == "kind" \in DOMAIN d /\ d.kind \notin {"rotation", "trigger"}

DeviceOK(d, n) ==
    \/ RotationOK(d)
    \/ TriggerOK(d, n)
    \/ OtherOK(d)

IInv ==
    /\ patch \in UNION Shows
    /\ updates \in Nat
    /\ DOMAIN device = Groups
    /\ \A g \in Groups : DeviceOK(device[g], updates)

(* Which of the three a device is shows in its kind.                       *)
LEMMA Kinds ==
    ASSUME NEW d, NEW n, DeviceOK(d, n)
    PROVE  /\ d.kind = "rotation" => RotationOK(d)
           /\ d.kind = "trigger" => TriggerOK(d, n)
           /\ d.kind \notin {"rotation", "trigger"} => OtherOK(d)
BY DEF DeviceOK, RotationOK, Rotations, TriggerOK, IsTrigger, OtherOK

(* A rotation and a set of cells do not depend on when the last frame was. *)
LEMMA AnyTime ==
    ASSUME NEW d, NEW n, NEW m, DeviceOK(d, n), d.kind # "trigger"
    PROVE  DeviceOK(d, m)
BY DEF DeviceOK, TriggerOK, IsTrigger

(* Any fixture starts in order.                                            *)
LEMMA NewDevice ==
    ASSUME NEW group
    PROVE  DeviceOK(new_device(group), 0)
BY NewRotation, NewTrigger
   DEF new_device, DeviceOK, OtherOK, new_flasher, NoDevice

(* The cells of an array stay cells.                                       *)
LEMMA FlasherStep ==
    ASSUME NEW array, NEW f, f.kind = "flasher", OtherOK(f), NEW trigger, NEW reverse
    PROVE  OtherOK(update_flasher(array, f, trigger, reverse))
<1> DEFINE selected == [chase |-> f.chase, mult |-> f.mult]
           chase == chase_mut(array, selected)
           start == IF selected # f.selected THEN reset_chase(chase) ELSE f.next
           after == [k \in DOMAIN start |-> step(chase, start[k], reverse)]
           lit == lit_by(chase, start)
           u == update_flasher(array, f, trigger, reverse)
<1>1. ASSUME NEW a, NEW b, NEW c
      PROVE  /\ OtherOK([f EXCEPT !.selected = a, !.next = b, !.lit = c])
             /\ OtherOK([f EXCEPT !.selected = a, !.lit = b, !.next = c])
  BY DEF OtherOK
<1>2. \/ u = [f EXCEPT !.selected = selected, !.next = <<>>, !.lit = {}]
      \/ u = [f EXCEPT !.selected = selected, !.next = start, !.lit = {}]
      \/ u = [f EXCEPT !.selected = selected, !.lit = lit, !.next = after]
  BY Zenon DEF update_flasher
<1> HIDE DEF selected, chase, start, after, lit, u
<1>3. OtherOK(u)
  <2>1. CASE u = [f EXCEPT !.selected = selected, !.next = <<>>, !.lit = {}]
    BY <1>1, <2>1
  <2>2. CASE u = [f EXCEPT !.selected = selected, !.next = start, !.lit = {}]
    BY <1>1, <2>2
  <2>3. CASE u = [f EXCEPT !.selected = selected, !.lit = lit, !.next = after]
    BY <1>1, <2>3
  <2> QED
    BY <1>2, <2>1, <2>2, <2>3
<1> QED
  BY <1>3 DEF u

(* An update of any device keeps it in order.                              *)
LEMMA DeviceStep ==
    ASSUME NEW g, NEW flash_now, updates \in Nat, DeviceOK(device[g], updates)
    PROVE  DeviceOK(update_device(g, flash_now), updates + 1)
<1> DEFINE d == device[g]
<1>1. CASE d.kind = "rotation"
  <2>1. update_device(g, flash_now) = update_rotation(d, "Rotate" \in on[g])
    BY <1>1 DEF update_device
  <2>2. ("Rotate" \in on[g]) \in BOOLEAN
    OBVIOUS
  <2>3. RotationOK(d)
    BY <1>1, Kinds
  <2>4. RotationOK(update_rotation(d, "Rotate" \in on[g]))
    BY <2>2, <2>3, RotationStep, Zenon
  <2> QED
    BY <2>1, <2>4, Zenon DEF DeviceOK
<1>2. CASE d.kind = "trigger"
  <2>1. update_device(g, flash_now)
            = [update_trigger(d, on[g]) EXCEPT !.known = @ /\ updates = 0]
    BY <1>2 DEF update_device
  <2> QED
    BY <1>2, <2>1, Kinds, TriggerStep DEF DeviceOK
<1>3. CASE d.kind = "flasher"
  <2>1. update_device(g, flash_now)
            = update_flasher(ArrayOf(patch[g]), d, flash_now, "Reverse" \in on[g])
    BY <1>3 DEF update_device
  <2>2. OtherOK(d)
    BY <1>3, Kinds
  <2>3. OtherOK(update_flasher(ArrayOf(patch[g]), d, flash_now, "Reverse" \in on[g]))
    BY <1>3, <2>2, FlasherStep, Zenon
  <2> QED
    BY <2>1, <2>3, Zenon DEF DeviceOK
<1>4. CASE d.kind \notin {"rotation", "trigger", "flasher"}
  <2>1. update_device(g, flash_now) = d
    BY <1>4 DEF update_device
  <2> QED
    BY <1>4, <2>1, AnyTime
<1> QED
  BY <1>1, <1>2, <1>3, <1>4

(* In the initial state every fixture is new.                              *)
LEMMA InitInv == Init => IInv
<1> SUFFICES ASSUME Init PROVE IInv
  OBVIOUS
<1>1. /\ patch \in UNION Shows /\ updates = 0
      /\ device = [g \in Groups |-> new_device(patch[g])]
  BY DEF Init
<1>2. \A g \in Groups : DeviceOK(new_device(patch[g]), 0)
  BY NewDevice
<1> QED
  BY <1>1, <1>2 DEF IInv

(* Controls that leave devices alone.                                      *)
LEMMA Untouched ==
    ASSUME IInv, UNCHANGED <<patch, device, updates>>
    PROVE  IInv'
BY DEF IInv, Groups, DeviceOK, RotationOK, TriggerOK, IsTrigger, OtherOK

(* A control that changes one device.                                      *)
LEMMA Touched ==
    ASSUME IInv, NEW g \in Groups, NEW d, DeviceOK(d, updates),
           device' = [device EXCEPT ![g] = d], UNCHANGED <<patch, updates>>
    PROVE  IInv'
<1>1. \A h \in Groups : DeviceOK(device'[h], updates)
  BY DEF IInv
<1>2. DOMAIN device' = Groups /\ Groups' = Groups
  BY DEF IInv, Groups
<1> QED
  BY <1>1, <1>2 DEF IInv, DeviceOK, RotationOK, TriggerOK, IsTrigger, OtherOK

(* A fixture keeps its device in a repatch, or has a new one.              *)
LEMMA RepatchInv ==
    ASSUME IInv, NEW p \in UNION Shows, Repatch(p)
    PROVE  IInv'
<1> DEFINE before(g) == {h \in Groups : Reconfigured(patch[h], p[g])}
           kept(g) == before(g) # {}
           was(g) == CHOOSE h \in before(g) : TRUE
<1>1. /\ updates = 0 /\ updates' = 0 /\ patch' = p
      /\ device' = [g \in DOMAIN p |->
             IF kept(g) THEN device[was(g)] ELSE new_device(p[g])]
  BY DEF Repatch, Control
<1>2. ASSUME NEW g \in DOMAIN p
      PROVE  DeviceOK(device'[g], 0)
  <2>1. CASE kept(g)
    <3>1. was(g) \in Groups
      BY <2>1
    <3>2. device'[g] = device[was(g)]
      BY <1>1, <2>1
    <3> QED
      BY <1>1, <3>1, <3>2 DEF IInv
  <2>2. CASE ~kept(g)
    <3>1. device'[g] = new_device(p[g])
      BY <1>1, <2>2
    <3> QED
      BY <3>1, NewDevice
  <2> QED
    BY <2>1, <2>2
<1>3. Groups' = DOMAIN p /\ DOMAIN device' = DOMAIN p
  BY <1>1 DEF Groups
<1> HIDE DEF before, kept, was
<1> QED
  BY <1>1, <1>2, <1>3 DEF IInv, DeviceOK, RotationOK, TriggerOK, IsTrigger, OtherOK

(* Every step keeps the invariant.                                         *)
LEMMA StepInv == IInv /\ [Next]_vars => IInv'
<1> SUFFICES ASSUME IInv, [Next]_vars PROVE IInv'
  OBVIOUS
<1>1. ASSUME NEW g \in Groups, NEW s, ToggleSwitch(g, s) PROVE IInv'
  BY <1>1, Untouched DEF ToggleSwitch
<1>2. ASSUME NEW g \in Groups, ToggleStrobe(g) PROVE IInv'
  BY <1>2, Untouched DEF ToggleStrobe
<1>3. ASSUME NEW g \in Groups, NEW s \in patch[g].steps, EnqueueStep(g, s) PROVE IInv'
  <2>1. /\ updates = 0 /\ device[g].kind = "trigger" /\ UNCHANGED <<patch, updates>>
        /\ device' = [device EXCEPT ![g] = enqueue_step(device[g], s)]
    BY <1>3 DEF EnqueueStep, Control
  <2>2. s \in Steps
    BY GroupsAssumption DEF IInv, Groups
  <2>3. DeviceOK(enqueue_step(device[g], s), updates)
    BY <2>1, <2>2, Kinds, Enqueued DEF IInv, DeviceOK
  <2> QED
    BY <2>1, <2>3, Touched
<1>4. ASSUME NEW g \in Groups, NEW choice, SelectChase(g, choice) PROVE IInv'
  <2>1. /\ device[g].kind = "flasher" /\ UNCHANGED <<patch, updates>>
        /\ device' = [device EXCEPT ![g] =
               [[device[g] EXCEPT !.chase = choice[1]] EXCEPT !.mult = choice[2]]]
    BY <1>4 DEF SelectChase, IInv
  <2>2. OtherOK(device[g])
    BY <2>1, Kinds DEF IInv
  <2>3. OtherOK([[device[g] EXCEPT !.chase = choice[1]] EXCEPT !.mult = choice[2]])
    BY <2>2 DEF OtherOK
  <2> QED
    BY <2>1, <2>3, Touched DEF DeviceOK
<1>5. CASE StrobeOn
  BY <1>5, Untouched DEF StrobeOn, groupVars
<1>6. CASE FlashNow
  BY <1>6, Untouched DEF FlashNow, groupVars
<1>7. CASE Intensity
  BY <1>7, Untouched DEF Intensity, groupVars
<1>8. ASSUME NEW p \in UNION Shows, Repatch(p) PROVE IInv'
  BY <1>8, RepatchInv
<1>9. ASSUME NEW ticked \in BOOLEAN, update(ticked) PROVE IInv'
  <2> DEFINE flash_now == (strobe_on /\ ticked) \/ flash_next_update
  <2>1. device' = [g \in Groups |-> update_device(g, flash_now /\ strobe_enabled[g])]
    BY <1>9 DEF update
  <2>2. updates' = updates + 1 /\ patch' = patch
    BY <1>9 DEF update
  <2>3. ASSUME NEW g \in Groups PROVE DeviceOK(device'[g], updates + 1)
    <3>1. device'[g] = update_device(g, flash_now /\ strobe_enabled[g])
      BY <2>1, Zenon
    <3>2. updates \in Nat /\ DeviceOK(device[g], updates)
      BY DEF IInv
    <3> HIDE DEF flash_now
    <3> QED
      BY <3>1, <3>2, DeviceStep
  <2>4. DOMAIN device' = Groups
    BY <2>1
  <2> QED
    BY <2>2, <2>3, <2>4
       DEF IInv, Groups, DeviceOK, RotationOK, TriggerOK, IsTrigger, OtherOK
<1>10. CASE render
  <2>1. /\ updates > 0 /\ updates' = 0 /\ patch' = patch
        /\ device' = [g \in Groups |->
               IF device[g].kind = "trigger" THEN sent(device[g]) ELSE device[g]]
    BY <1>10 DEF render
  <2>2. ASSUME NEW g \in Groups PROVE DeviceOK(device'[g], 0)
    <3>1. CASE device[g].kind = "trigger"
      <4>1. device'[g] = sent(device[g]) /\ updates \in Nat \ {0}
        BY <2>1, <3>1 DEF IInv
      <4> QED
        BY <3>1, <4>1, Kinds, TriggerSent DEF IInv, DeviceOK
    <3>2. CASE device[g].kind # "trigger"
      BY <2>1, <3>2, AnyTime DEF IInv
    <3> QED
      BY <3>1, <3>2
  <2> QED
    BY <2>1, <2>2
       DEF IInv, Groups, DeviceOK, RotationOK, TriggerOK, IsTrigger, OtherOK
<1>11. CASE UNCHANGED vars
  BY <1>11, Untouched DEF vars
<1>12. CASE \E show \in Shows : patch \in show /\ \E p \in show : Repatch(p)
  BY <1>8, <1>12
<1> QED
  BY <1>1, <1>2, <1>3, <1>4, <1>5, <1>6, <1>7, <1>9, <1>10, <1>11, <1>12 DEF Next

LEMMA Invariant == Spec => []IInv
BY InitInv, StepInv, PTL DEF Spec

(***************************************************************************)
(* The theorems about rotations and triggers                               *)
(***************************************************************************)
(* The head of a Moonraker spins only when the clamp has held the worst    *)
(* case for ROTATION_ARM, for any ROTATION_ARM and ROTATION_SETTLE         *)
(* (RotationState::tick).                                                  *)
THEOREM NeverSpinsUnclamped == Spec => []SpinUnderClamp
<1>1. IInv => SpinUnderClamp
  BY Kinds DEF IInv, SpinUnderClamp, Spinning, RotationOK
<1> QED
  BY <1>1, Invariant, PTL

(* If no update was passed over, the Comet takes every step that was asked *)
(* for, in that order, and no other, for any UPDATES_TO_HOLD               *)
(* (TriggerState::update).                                                 *)
THEOREM EveryStepIsTaken == Spec => []StepsTaken
<1>1. IInv => StepsTaken
  <2> SUFFICES ASSUME IInv, NEW g \in Groups,
                      device[g].kind = "trigger", device[g].known
               PROVE  /\ Len(device[g].due) >= Len(device[g].steps)
                      /\ device[g].steps = <<>> /\ updates = 0 => device[g].due = <<>>
    BY DEF StepsTaken
  <2> DEFINE d == device[g]
  <2>1. TriggerOK(d, updates) /\ d.steps \in Seq(Steps)
    BY Kinds DEF IInv, TriggerOK, IsTrigger
  <2>2. \/ d.due = d.steps
        \/ updates = 1 /\ Len(d.due) = Len(d.steps) + 1
    BY <2>1 DEF TriggerOK
  <2>3. Len(d.steps) \in Nat /\ Len(d.steps) + 1 >= Len(d.steps)
    BY <2>1
  <2> QED
    BY <2>2, <2>3
<1> QED
  BY <1>1, Invariant, PTL

(***************************************************************************)
(* What a render function writes: lemmas about the operators that the      *)
(* profiles are made of                                                    *)
(***************************************************************************)
\* A write, whether it happens with the switches S, and that no channel is
\* written from two controls at once.
IsWrite(w) ==
    w = [from |-> w.from, ch |-> w.ch, on |-> w.on, off |-> w.off]
Happening(w, S) == (\A x \in w.on : x \in S) /\ (\A x \in w.off : x \notin S)
OneSource(W) ==
    \A S : \A v, w \in W :
        v.ch = w.ch /\ Happening(v, S) /\ Happening(w, S) => v.from = w.from
\* Each of the channels is written from one control under every condition.
Shape(W, chs) ==
    /\ \A w \in W : IsWrite(w) /\ w.ch \in chs
    /\ OneSource(W)
    /\ \A S : \A c \in chs : \E w \in W : w.ch = c /\ Happening(w, S)

(* One control, written to channels.                                       *)
LEMMA PutShape ==
    ASSUME NEW c, NEW chs PROVE Shape(Put(c, chs), chs)
<1>1. ASSUME NEW w \in Put(c, chs)
      PROVE  IsWrite(w) /\ w.from = c /\ w.ch \in chs /\ w.on = {} /\ w.off = {}
  <2>1. PICK n \in chs : w = [from |-> c, ch |-> n, on |-> {}, off |-> {}]
    BY DEF Put
  <2> QED
    BY <2>1 DEF IsWrite
<1>2. ASSUME NEW n \in chs
      PROVE  \E w \in Put(c, chs) : w.ch = n
  <2>1. PICK w : w = [from |-> c, ch |-> n, on |-> {}, off |-> {}]
    OBVIOUS
  <2>2. w \in Put(c, chs)
    BY <2>1 DEF Put
  <2> QED
    BY <2>1, <2>2
<1>3. OneSource(Put(c, chs))
  BY <1>1 DEF OneSource
<1>4. \A S : \A n \in chs : \E w \in Put(c, chs) : w.ch = n /\ Happening(w, S)
  BY <1>1, <1>2 DEF Happening
<1> QED
  BY <1>1, <1>3, <1>4 DEF Shape

(* A write under a condition is one that happens if that holds as well.    *)
LEMMA WhenWrites ==
    ASSUME NEW s, NEW A, \A w \in A : IsWrite(w)
    PROVE  /\ \A w \in When(s, A) : \E v \in A :
                /\ IsWrite(w) /\ w.from = v.from /\ w.ch = v.ch
                /\ w.on = v.on \cup {s} /\ w.off = v.off
           /\ \A v \in A : \E w \in When(s, A) :
                w.ch = v.ch /\ w.on = v.on \cup {s} /\ w.off = v.off
           /\ \A w \in Unless(s, A) : \E v \in A :
                /\ IsWrite(w) /\ w.from = v.from /\ w.ch = v.ch
                /\ w.off = v.off \cup {s} /\ w.on = v.on
           /\ \A v \in A : \E w \in Unless(s, A) :
                w.ch = v.ch /\ w.off = v.off \cup {s} /\ w.on = v.on
<1>1. ASSUME NEW v \in A, NEW w, w = [v EXCEPT !.on = v.on \cup {s}]
      PROVE  /\ IsWrite(w) /\ w.from = v.from /\ w.ch = v.ch
             /\ w.on = v.on \cup {s} /\ w.off = v.off
  BY <1>1 DEF IsWrite
<1>2. ASSUME NEW v \in A, NEW w, w = [v EXCEPT !.off = v.off \cup {s}]
      PROVE  /\ IsWrite(w) /\ w.from = v.from /\ w.ch = v.ch
             /\ w.off = v.off \cup {s} /\ w.on = v.on
  BY <1>2 DEF IsWrite
<1>3. ASSUME NEW w \in When(s, A) 
      PROVE \E v \in A : w = [v EXCEPT !.on = v.on \cup {s}]
  BY DEF When
<1>4. ASSUME NEW w \in Unless(s, A) 
      PROVE \E v \in A : w = [v EXCEPT !.off = v.off \cup {s}]
  BY DEF Unless
<1>5. ASSUME NEW v \in A
      PROVE  /\ \E w \in When(s, A) : w = [v EXCEPT !.on = v.on \cup {s}]
             /\ \E w \in Unless(s, A) : w = [v EXCEPT !.off = v.off \cup {s}]
  BY DEF When, Unless
<1>6. \A w \in When(s, A) : \E v \in A :
        /\ IsWrite(w) /\ w.from = v.from /\ w.ch = v.ch
        /\ w.on = v.on \cup {s} /\ w.off = v.off
  BY <1>1, <1>3
<1>7. \A w \in Unless(s, A) : \E v \in A :
        /\ IsWrite(w) /\ w.from = v.from /\ w.ch = v.ch
        /\ w.off = v.off \cup {s} /\ w.on = v.on
  BY <1>2, <1>4
<1>8. ASSUME NEW v \in A
      PROVE  \E w \in When(s, A) : w.ch = v.ch /\ w.on = v.on \cup {s} /\ w.off = v.off
  <2>1. PICK w \in When(s, A) : w = [v EXCEPT !.on = v.on \cup {s}]
    BY <1>5
  <2> QED
    BY <1>1, <2>1
<1>9. ASSUME NEW v \in A
      PROVE  \E w \in Unless(s, A) : w.ch = v.ch /\ w.off = v.off \cup {s} /\ w.on = v.on
  <2>1. PICK w \in Unless(s, A) : w = [v EXCEPT !.off = v.off \cup {s}]
    BY <1>5
  <2> QED
    BY <1>2, <2>1
<1> QED
  BY <1>6, <1>7, <1>8, <1>9

(* Of two alternatives for the same channels one is written.               *)
LEMMA IfElseShape ==
    ASSUME NEW s, NEW A, NEW B, NEW chs, Shape(A, chs), Shape(B, chs)
    PROVE  Shape(IfElse(s, A, B), chs)
<1>0. /\ \A w \in A : IsWrite(w) 
      /\ \A w \in B : IsWrite(w) 
  BY DEF Shape
<1>1. \A w \in When(s, A) : \E v \in A : IsWrite(w) /\ w.from = v.from /\ w.ch = v.ch
         /\ w.on = v.on \cup {s} /\ w.off = v.off
  BY <1>0, WhenWrites
<1>2. \A w \in Unless(s, B) : \E v \in B : IsWrite(w) /\ w.from = v.from /\ w.ch = v.ch
         /\ w.off = v.off \cup {s} /\ w.on = v.on
  BY <1>0, WhenWrites
<1>3. \A v \in A : \E w \in When(s, A) : w.ch = v.ch
         /\ w.on = v.on \cup {s} /\ w.off = v.off
  BY <1>0, WhenWrites
<1>4. \A v \in B : \E w \in Unless(s, B) : w.ch = v.ch
         /\ w.off = v.off \cup {s} /\ w.on = v.on
  BY <1>0, WhenWrites
<1>5. ASSUME NEW S, NEW v \in IfElse(s, A, B), NEW w \in IfElse(s, A, B),
             v.ch = w.ch, Happening(v, S), Happening(w, S)
      PROVE  v.from = w.from
  <2>1. CASE s \in S
    <3>1. v \in When(s, A) /\ w \in When(s, A)
      BY <1>2, <1>5, <2>1 DEF IfElse, Happening
    <3>2. PICK a \in A : a.from = v.from /\ a.ch = v.ch /\ v.on = a.on \cup {s} /\ v.off = a.off
      BY <1>1, <3>1
    <3>3. PICK b \in A : b.from = w.from /\ b.ch = w.ch /\ w.on = b.on \cup {s} /\ w.off = b.off
      BY <1>1, <3>1
    <3>4. Happening(a, S) /\ Happening(b, S)
      BY <1>5, <3>2, <3>3 DEF Happening
    <3> QED
      BY <1>5, <3>2, <3>3, <3>4 DEF Shape, OneSource
  <2>2. CASE s \notin S
    <3>1. v \in Unless(s, B) /\ w \in Unless(s, B)
      BY <1>1, <1>5, <2>2 DEF IfElse, Happening
    <3>2. PICK a \in B : a.from = v.from /\ a.ch = v.ch /\ v.off = a.off \cup {s} /\ v.on = a.on
      BY <1>2, <3>1
    <3>3. PICK b \in B : b.from = w.from /\ b.ch = w.ch /\ w.off = b.off \cup {s} /\ w.on = b.on
      BY <1>2, <3>1
    <3>4. Happening(a, S) /\ Happening(b, S)
      BY <1>5, <3>2, <3>3 DEF Happening
    <3> QED
      BY <1>5, <3>2, <3>3, <3>4 DEF Shape, OneSource
  <2> QED
    BY <2>1, <2>2
<1>6. ASSUME NEW S, NEW c \in chs 
      PROVE  \E w \in IfElse(s, A, B) : w.ch = c /\ Happening(w, S)
  <2>1. CASE s \in S
    <3>1. PICK v \in A : v.ch = c /\ Happening(v, S)
      BY DEF Shape
    <3>2. PICK w \in When(s, A) : w.ch = v.ch /\ w.on = v.on \cup {s} /\ w.off = v.off
      BY <1>3
    <3>3. Happening(w, S)
      BY <2>1, <3>1, <3>2 DEF Happening
    <3> QED
      BY <3>1, <3>2, <3>3 DEF IfElse
  <2>2. CASE s \notin S
    <3>1. PICK v \in B : v.ch = c /\ Happening(v, S)
      BY DEF Shape
    <3>2. PICK w \in Unless(s, B) : w.ch = v.ch /\ w.off = v.off \cup {s} /\ w.on = v.on
      BY <1>4
    <3>3. Happening(w, S)
      BY <2>2, <3>1, <3>2 DEF Happening
    <3> QED
      BY <3>1, <3>2, <3>3 DEF IfElse
  <2> QED
    BY <2>1, <2>2
<1>7. OneSource(IfElse(s, A, B))
  BY <1>5 DEF OneSource
<1> QED
  BY <1>1, <1>2, <1>6, <1>7 DEF Shape, IfElse

\* While the strobe is dark, a write does not happen or writes 0.
DarkWrite(v) ==
    v.from \in {"strobe", "zero"} \/ "strobe" \in v.off \/ {"organ", "flash"} \cap v.on # {}
Darkened(W) == \A v \in W : DarkWrite(v)
NotFrom(W, light) == \A w \in W : w.from # light
Dark(W, light) ==
    \A v, w \in W : w.from = light /\ v.ch = w.ch => DarkWrite(v)

Part(W, chs, light) == Shape(W, chs) /\ Dark(W, light)

(* A control that is not the light, written to channels.                   *)
LEMMA PutPart ==
    ASSUME NEW c, NEW chs, NEW light, c # light
    PROVE  Part(Put(c, chs), chs, light) /\ NotFrom(Put(c, chs), light)
<1>1. \A w \in Put(c, chs) : w.from = c
  BY DEF Put
<1> QED
  BY <1>1, PutShape DEF Part, Dark, NotFrom

(* A value that is fixed, written to channels.                             *)
LEMMA FixedPart ==
    ASSUME NEW chs, NEW light, "fixed" # light
    PROVE  Part(Fixed(chs), chs, light) /\ NotFrom(Fixed(chs), light)
BY PutPart DEF Fixed

(* 0, written to channels.                                                 *)
LEMMA ZeroPart ==
    ASSUME NEW chs, NEW light, "zero" # light
    PROVE  Part(Zero(chs), chs, light) /\ NotFrom(Zero(chs), light)
BY PutPart DEF Zero

(* Of two alternatives that are not the light, neither is.                 *)
LEMMA IfElsePart ==
    ASSUME NEW s, NEW A, NEW B, NEW chs, NEW light, 
           Part(A, chs, light) /\ NotFrom(A, light),
           Part(B, chs, light) /\ NotFrom(B, light)
    PROVE  Part(IfElse(s, A, B), chs, light) /\ NotFrom(IfElse(s, A, B), light)
<1>0. \A w \in A \cup B : IsWrite(w)
  BY DEF Part, Shape
<1>1. Shape(IfElse(s, A, B), chs)
  BY IfElseShape DEF Part
<1>2. NotFrom(IfElse(s, A, B), light)
  BY <1>0, WhenWrites DEF NotFrom, IfElse
<1> QED
  BY <1>1, <1>2 DEF Part, Dark, NotFrom

(* An alternative is dark if both sides are, or one is and the other is    *)
(* for when the strobe does not apply.                                     *)
LEMMA DarkIfElse ==
    ASSUME NEW s, NEW A, NEW B, NEW chs, Shape(A, chs), Shape(B, chs), 
           Darkened(A) \/ s \in {"organ", "flash"}, Darkened(B) \/ s = "strobe"
    PROVE  Shape(IfElse(s, A, B), chs) /\ Darkened(IfElse(s, A, B))
<1>0. \A w \in A \cup B : IsWrite(w)
  BY DEF Shape
<1>1. Shape(IfElse(s, A, B), chs)
  BY IfElseShape
<1>2. ASSUME NEW w \in When(s, A)
      PROVE  DarkWrite(w)
  <2>1. PICK v \in A : w.from = v.from /\ w.on = v.on \cup {s} /\ w.off = v.off
    BY <1>0, WhenWrites
  <2> QED
    BY <2>1 DEF Darkened, DarkWrite
<1>3. ASSUME NEW w \in Unless(s, B)
      PROVE  DarkWrite(w)
  <2>1. PICK v \in B : w.from = v.from /\ w.off = v.off \cup {s} /\ w.on = v.on
    BY <1>0, WhenWrites
  <2> QED
    BY <2>1 DEF Darkened, DarkWrite
<1> QED
  BY <1>1, <1>2, <1>3 DEF Darkened, IfElse

(* The strobe's own value is dark between flashes, as is 0.                *)
LEMMA DarkPut ==
    ASSUME NEW c, NEW chs, c \in {"strobe", "zero"}
    PROVE  Darkened(Put(c, chs))
<1>1. \A w \in Put(c, chs) : w.from = c
  BY DEF Put
<1> QED
  BY <1>1 DEF Darkened, DarkWrite

(* Writes that are all dark are in order whatever is the light.            *)
LEMMA DarkPart ==
    ASSUME NEW W, NEW chs, NEW light, Shape(W, chs), Darkened(W)
    PROVE  Part(W, chs, light)
BY DEF Part, Dark, Darkened

(* A control that the strobe overrides (control_strobed).                  *)
LEMMA StrobedDark ==
    ASSUME NEW c, NEW chs
    PROVE  Shape(Strobed(c, chs), chs) /\ Darkened(Strobed(c, chs))
BY PutShape, DarkPut, DarkIfElse DEF Strobed

(* The same, as a part of a profile.                                       *)
LEMMA StrobedPart ==
    ASSUME NEW c, NEW chs, NEW light
    PROVE  Part(Strobed(c, chs), chs, light)
BY StrobedDark, DarkPart

(* A color, which the organ or the strobe overrides.                       *)
LEMMA ColoredPart ==
    ASSUME NEW chs, NEW light
    PROVE  Part(Colored(chs), chs, light)
<1>1. Shape(Colored(chs), chs) /\ Darkened(Colored(chs))
  BY PutShape, StrobedDark, DarkIfElse DEF Colored
<1> QED
  BY <1>1, DarkPart

(* A control that the strobe overrides and that is not the light.          *)
LEMMA StrobedNotFrom ==
    ASSUME NEW c, NEW chs, NEW light, light \notin {c, "strobe"}
    PROVE  Part(Strobed(c, chs), chs, light) /\ NotFrom(Strobed(c, chs), light)
BY PutPart, IfElsePart DEF Strobed

(* Parts of different channels make up a whole.                            *)
LEMMA UnionPart ==
    ASSUME NEW A, NEW X, NEW B, NEW Y, NEW light, Part(A, X, light), Part(B, Y, light),
           X \cap Y = {}
    PROVE  Part(A \cup B, X \cup Y, light)
<1>1. OneSource(A \cup B)
  BY DEF Part, Shape, OneSource
<1>2. Dark(A \cup B, light)
  BY DEF Part, Shape, Dark
<1> QED
  BY <1>1, <1>2 DEF Part, Shape

\* Either the channel is written under every condition or it is the Comet's first.
Complete(W, but) ==
    \A S : \A v \in W : v.ch \in but \/ \E w \in W : w.ch = v.ch /\ Happening(w, S)
Whole(W, but, count, light) ==
    /\ count \in Nat
    /\ \A w \in W : IsWrite(w) /\ w.ch \in 0 .. count - 1
    /\ OneSource(W) /\ Complete(W, but) /\ Dark(W, light)
ProfileOK(P) ==
    Whole(P.writes, IF P.type = "Comet" THEN {0} ELSE {}, P.count,
          IF P.type \in {"Hypnotic", "Comet"} THEN "none" ELSE P.light)

(* A part that is all of a profile.                                        *)
LEMMA PartWhole ==
    ASSUME NEW W, NEW chs, NEW count \in Nat, NEW light, Part(W, chs, light),
           chs \subseteq 0 .. count - 1
    PROVE  Whole(W, {}, count, light)
BY DEF Part, Whole, Shape, Complete

(***************************************************************************)
(* The profiles                                                            *)
(***************************************************************************)
(* Atlas: 1 channel.                                                       *)
LEMMA AtlasOK == ProfileOK(Atlas)
<1>1. PICK A :
        /\ A = Put("Shutter", {0})
  OBVIOUS
<1>2. /\ Part(A, {0}, "none")
  BY <1>1, PutPart
<1>3. PICK W : W = Atlas.writes /\ W = A
  BY <1>1 DEF Atlas, Fixture
<1>4. Whole(W, {}, 1, "none")
  BY <1>2, <1>3 DEF Part, Whole, Shape, OneSource, Complete, Dark
<1> QED
  BY <1>3, <1>4 DEF ProfileOK, Atlas, Fixture

(* Radiance: 2 channels.                                                   *)
LEMMA RadianceOK == ProfileOK(Radiance)
<1>1. PICK A, B :
        /\ A = Put("Haze", {0})
        /\ B = Put("Fan", {1})
  OBVIOUS
<1>2. /\ Part(A, {0}, "none")
      /\ Part(B, {1}, "none")
  BY <1>1, PutPart
<1>3. PICK W : W = Radiance.writes /\ W = A \cup B
  BY <1>1 DEF Radiance, Fixture
<1>4. Whole(W, {}, 2, "none")
  BY <1>2, <1>3 DEF Part, Whole, Shape, OneSource, Complete, Dark
<1> QED
  BY <1>3, <1>4 DEF ProfileOK, Radiance, Fixture

(* Aquarius: 2 channels.                                                   *)
LEMMA AquariusOK == ProfileOK(Aquarius)
<1>1. PICK A, B :
        /\ A = Put("Rotation", {0})
        /\ B = Put("LampOn", {1})
  OBVIOUS
<1>2. /\ Part(A, {0}, "none")
      /\ Part(B, {1}, "none")
  BY <1>1, PutPart
<1>3. PICK W : W = Aquarius.writes /\ W = A \cup B
  BY <1>1 DEF Aquarius, Fixture
<1>4. Whole(W, {}, 2, "none")
  BY <1>2, <1>3 DEF Part, Whole, Shape, OneSource, Complete, Dark
<1> QED
  BY <1>3, <1>4 DEF ProfileOK, Aquarius, Fixture

(* Dimmer: 1 channel; its light, the Level, goes dark.                     *)
LEMMA DimmerOK == ProfileOK(Dimmer)
<1>1. PICK A :
        /\ A = Strobed("Level", {0})
  OBVIOUS
<1>2. /\ Part(A, {0}, "Level")
  BY <1>1, StrobedPart
<1>3. PICK W : W = Dimmer.writes /\ W = A
  BY <1>1 DEF Dimmer, Fixture
<1>4. Whole(W, {}, 1, "Level")
  BY <1>2, <1>3 DEF Part, Whole, Shape, OneSource, Complete, Dark
<1> QED
  BY <1>3, <1>4 DEF ProfileOK, Dimmer, Fixture

(* Relay: 1 channel; its light, the On, goes dark.                         *)
LEMMA RelayOK == ProfileOK(Relay)
<1>1. PICK A :
        /\ A = Strobed("On", {0})
  OBVIOUS
<1>2. /\ Part(A, {0}, "On")
  BY <1>1, StrobedPart
<1>3. PICK W : W = Relay.writes /\ W = A
  BY <1>1 DEF Relay, Fixture
<1>4. Whole(W, {}, 1, "On")
  BY <1>2, <1>3 DEF Part, Whole, Shape, OneSource, Complete, Dark
<1> QED
  BY <1>3, <1>4 DEF ProfileOK, Relay, Fixture

(* UvLedBrick: 7 channels; its light, the Level, goes dark.                *)
LEMMA UvLedBrickOK == ProfileOK(UvLedBrick)
<1>1. PICK A, B :
        /\ A = Strobed("Level", {0})
        /\ B = Fixed(4 .. 6)
  OBVIOUS
<1>2. /\ Part(A, {0}, "Level")
      /\ Part(B, 4 .. 6, "Level")
  BY <1>1, FixedPart, StrobedPart
<1>3. PICK W : W = UvLedBrick.writes /\ W = A \cup B
  BY <1>1 DEF UvLedBrick, Fixture
<1>4. Whole(W, {}, 7, "Level")
  BY <1>2, <1>3 DEF Part, Whole, Shape, OneSource, Complete, Dark
<1> QED
  BY <1>3, <1>4 DEF ProfileOK, UvLedBrick, Fixture

(* Starlight: 4 channels; its light, the Dimmer, goes dark.                *)
LEMMA StarlightOK == ProfileOK(Starlight)
<1>1. PICK A, B, C :
        /\ A = Strobed("Dimmer", {1})
        /\ B = Put("Rotation", {3})
        /\ C = Fixed({0, 2})
  OBVIOUS
<1>2. /\ Part(A, {1}, "Dimmer")
      /\ Part(B, {3}, "Dimmer")
      /\ Part(C, {0, 2}, "Dimmer")
  BY <1>1, PutPart, FixedPart, StrobedPart
<1>3. PICK W : W = Starlight.writes /\ W = A \cup B \cup C
  BY <1>1 DEF Starlight, Fixture
<1>4. Whole(W, {}, 4, "Dimmer")
  BY <1>2, <1>3 DEF Part, Whole, Shape, OneSource, Complete, Dark
<1> QED
  BY <1>3, <1>4 DEF ProfileOK, Starlight, Fixture

(* CosmicBurst: 6 channels; its light, the Dimmer, goes dark.              *)
LEMMA CosmicBurstOK == ProfileOK(CosmicBurst)
<1>1. PICK A, B, C, D :
        /\ A = Strobed("Dimmer", {2})
        /\ B = Put("Rotation", {0})
        /\ C = Put("Swirl", {3})
        /\ D = Fixed({1})
  OBVIOUS
<1>2. /\ Part(A, {2}, "Dimmer")
      /\ Part(B, {0}, "Dimmer")
      /\ Part(C, {3}, "Dimmer")
      /\ Part(D, {1}, "Dimmer")
  BY <1>1, PutPart, FixedPart, StrobedPart
<1>3. PICK W : W = CosmicBurst.writes /\ W = A \cup B \cup C \cup D
  BY <1>1 DEF CosmicBurst, Fixture
<1>4. Whole(W, {}, 6, "Dimmer")
  BY <1>2, <1>3 DEF Part, Whole, Shape, OneSource, Complete, Dark
<1> QED
  BY <1>3, <1>4 DEF ProfileOK, CosmicBurst, Fixture

(* Astroraggi: 2 channels; its light, the Shutter, goes dark.              *)
LEMMA AstroraggiOK == ProfileOK(Astroraggi)
<1>1. PICK A, B :
        /\ A = Put("Rotation", {0})
        /\ B = Strobed("Shutter", {1})
  OBVIOUS
<1>2. /\ Part(A, {0}, "Shutter")
      /\ Part(B, {1}, "Shutter")
  BY <1>1, PutPart, StrobedPart
<1>3. PICK W : W = Astroraggi.writes /\ W = A \cup B
  BY <1>1 DEF Astroraggi, Fixture
<1>4. Whole(W, {}, 2, "Shutter")
  BY <1>2, <1>3 DEF Part, Whole, Shape, OneSource, Complete, Dark
<1> QED
  BY <1>3, <1>4 DEF ProfileOK, Astroraggi, Fixture

(* RotosphereQ3: 9 channels; its light, the Val, goes dark.                *)
LEMMA RotosphereQ3OK == ProfileOK(RotosphereQ3)
<1>1. PICK A, B, C :
        /\ A = Colored(0 .. 3)
        /\ B = Put("Rotation", {5})
        /\ C = Fixed({4, 6, 7, 8})
  OBVIOUS
<1>2. /\ Part(A, 0 .. 3, "Val")
      /\ Part(B, {5}, "Val")
      /\ Part(C, {4, 6, 7, 8}, "Val")
  BY <1>1, PutPart, FixedPart, ColoredPart
<1>3. PICK W : W = RotosphereQ3.writes /\ W = A \cup B \cup C
  BY <1>1 DEF RotosphereQ3, Fixture
<1>4. Whole(W, {}, 9, "Val")
  BY <1>2, <1>3 DEF Part, Whole, Shape, OneSource, Complete, Dark
<1> QED
  BY <1>3, <1>4 DEF ProfileOK, RotosphereQ3, Fixture

(* IWashLed: 12 channels; its light, the Val, goes dark.                   *)
LEMMA IWashLedOK == ProfileOK(IWashLed)
<1>1. PICK A, B, C, D :
        /\ A = Put("Pan", {0, 1})
        /\ B = Put("Tilt", {2, 3})
        /\ C = Colored(7 .. 9)
        /\ D = Fixed({4, 5, 6, 10, 11})
  OBVIOUS
<1>2. /\ Part(A, {0, 1}, "Val")
      /\ Part(B, {2, 3}, "Val")
      /\ Part(C, 7 .. 9, "Val")
      /\ Part(D, {4, 5, 6, 10, 11}, "Val")
  BY <1>1, PutPart, FixedPart, ColoredPart
<1>3. PICK W : W = IWashLed.writes /\ W = A \cup B \cup C \cup D
  BY <1>1 DEF IWashLed, Fixture
<1>4. Whole(W, {}, 12, "Val")
  BY <1>2, <1>3 DEF Part, Whole, Shape, OneSource, Complete, Dark
<1> QED
  BY <1>3, <1>4 DEF ProfileOK, IWashLed, Fixture

(* Ufo: 14 channels; its light, the Val, goes dark.                        *)
LEMMA UfoOK == ProfileOK(Ufo)
<1>1. PICK A, B, C, D, E :
        /\ A = Put("Pan", {0})
        /\ B = Put("Tilt", {1})
        /\ C = Put("Rotation", {3})
        /\ D = Colored(6 .. 9)
        /\ E = Fixed({2, 4, 5} \cup (10 .. 13))
  OBVIOUS
<1>2. /\ Part(A, {0}, "Val")
      /\ Part(B, {1}, "Val")
      /\ Part(C, {3}, "Val")
      /\ Part(D, 6 .. 9, "Val")
      /\ Part(E, {2, 4, 5} \cup (10 .. 13), "Val")
  BY <1>1, PutPart, FixedPart, ColoredPart
<1>3. PICK W : W = Ufo.writes /\ W = A \cup B \cup C \cup D \cup E
  BY <1>1 DEF Ufo, Fixture
<1>4. Whole(W, {}, 14, "Val")
  BY <1>2, <1>3 DEF Part, Whole, Shape, OneSource, Complete, Dark
<1> QED
  BY <1>3, <1>4 DEF ProfileOK, Ufo, Fixture

(* Eyeball: 17 channels; its light, the Val, goes dark.                    *)
LEMMA EyeballOK == ProfileOK(Eyeball)
<1>1. PICK A, B, C, D, E, F :
        /\ A = Put("Pan", {0, 1})
        /\ B = Put("Tilt", {2, 3})
        /\ C = Put("PanSpin", {5})
        /\ D = Put("TiltSpin", {6})
        /\ E = Colored(7 .. 10)
        /\ F = Fixed({4} \cup (11 .. 16))
  OBVIOUS
<1>2. /\ Part(A, {0, 1}, "Val")
      /\ Part(B, {2, 3}, "Val")
      /\ Part(C, {5}, "Val")
      /\ Part(D, {6}, "Val")
      /\ Part(E, 7 .. 10, "Val")
      /\ Part(F, {4} \cup (11 .. 16), "Val")
  BY <1>1, PutPart, FixedPart, ColoredPart
<1>3. PICK W : W = Eyeball.writes /\ W = A \cup B \cup C \cup D \cup E \cup F
  BY <1>1 DEF Eyeball, Fixture
<1>4. Whole(W, {}, 17, "Val")
  BY <1>2, <1>3 DEF Part, Whole, Shape, OneSource, Complete, Dark
<1> QED
  BY <1>3, <1>4 DEF ProfileOK, Eyeball, Fixture

(* Faderboard: 16 channels.                                                *)
LEMMA FaderboardOK == ProfileOK(Faderboard)
<1>1. PICK A :
        /\ A = Put("Fader", 0 .. 15)
  OBVIOUS
<1>2. /\ Part(A, 0 .. 15, "none")
  BY <1>1, PutPart
<1>3. PICK W : W = Faderboard.writes /\ W = A
  BY <1>1 DEF Faderboard, Fixture
<1>4. Whole(W, {}, 16, "none")
  BY <1>2, <1>3 DEF Part, Whole, Shape, OneSource, Complete, Dark
<1> QED
  BY <1>3, <1>4 DEF ProfileOK, Faderboard, Fixture

(* Venus: 8 channels.                                                      *)
LEMMA VenusOK == ProfileOK(Venus)
<1>1. PICK A, B, C, D, E :
        /\ A = Put("BaseRotation", {0, 1})
        /\ B = Put("CradleMotion", {2})
        /\ C = Put("HeadRotation", {3, 4})
        /\ D = Put("ColorRotation", {5, 6})
        /\ E = Put("LampControl", {7})
  OBVIOUS
<1>2. /\ Part(A, {0, 1}, "none")
      /\ Part(B, {2}, "none")
      /\ Part(C, {3, 4}, "none")
      /\ Part(D, {5, 6}, "none")
      /\ Part(E, {7}, "none")
  BY <1>1, PutPart
<1>3. PICK W : W = Venus.writes /\ W = A \cup B \cup C \cup D \cup E
  BY <1>1 DEF Venus, Fixture
<1>4. Whole(W, {}, 8, "none")
  BY <1>2, <1>3 DEF Part, Whole, Shape, OneSource, Complete, Dark
<1> QED
  BY <1>3, <1>4 DEF ProfileOK, Venus, Fixture

(* Astera: 20 channels.                                                    *)
LEMMA AsteraOK == ProfileOK(Astera)
<1>1. PICK A, B, C, D, E, F, G :
        /\ A = Put("Dimmer", {0})
        /\ B = Put("Program", {2})
        /\ C = Put("Speed", {3})
        /\ D = Put("Fade", {4})
        /\ E = Put("Pattern", {5})
        /\ F = Fixed({1, 6, 7})
        /\ G = Put("Color", 8 .. 19)
  OBVIOUS
<1>2. /\ Part(A, {0}, "none")
      /\ Part(B, {2}, "none")
      /\ Part(C, {3}, "none")
      /\ Part(D, {4}, "none")
      /\ Part(E, {5}, "none")
      /\ Part(F, {1, 6, 7}, "none")
      /\ Part(G, 8 .. 19, "none")
  BY <1>1, PutPart, FixedPart
<1>3. PICK W : W = Astera.writes /\ W = A \cup B \cup C \cup D \cup E \cup F \cup G
  BY <1>1 DEF Astera, Fixture
<1>4. Whole(W, {}, 20, "none")
  BY <1>2, <1>3 DEF Part, Whole, Shape, OneSource, Complete, Dark
<1> QED
  BY <1>3, <1>4 DEF ProfileOK, Astera, Fixture

(* RugDoctor: 20 channels.                                                 *)
LEMMA RugDoctorOK == ProfileOK(RugDoctor)
<1>1. PICK A, B, C, D :
        /\ A = Put("Level", {0})
        /\ B = Put("Speed", {3})
        /\ C = Put("Preset", {2} \cup (8 .. 19))
        /\ D = Fixed({1} \cup (4 .. 7))
  OBVIOUS
<1>2. /\ Part(A, {0}, "none")
      /\ Part(B, {3}, "none")
      /\ Part(C, {2} \cup (8 .. 19), "none")
      /\ Part(D, {1} \cup (4 .. 7), "none")
  BY <1>1, PutPart, FixedPart
<1>3. PICK W : W = RugDoctor.writes /\ W = A \cup B \cup C \cup D
  BY <1>1 DEF RugDoctor, Fixture
<1>4. Part(A \cup B, {0, 3}, "none")
  <2>1. Part(A \cup B, {0} \cup {3}, "none")
    BY <1>2, UnionPart
  <2>2. {0} \cup {3} = {0, 3}
    OBVIOUS
  <2> QED
    BY <2>1, <2>2
<1>5. Part((A \cup B) \cup C, {0, 3} \cup ({2} \cup (8 .. 19)), "none")
  <2>1. {0, 3} \cap ({2} \cup (8 .. 19)) = {}
    OBVIOUS
  <2> QED
    BY <1>2, <1>4, <2>1, UnionPart
<1>6. PICK X : X = {0, 3} \cup ({2} \cup (8 .. 19))
  OBVIOUS
<1>7. X \cap ({1} \cup (4 .. 7)) = {} /\ X \cup ({1} \cup (4 .. 7)) \subseteq 0 .. 19
  BY <1>6
<1>8. Part(W, X \cup ({1} \cup (4 .. 7)), "none")
  BY <1>2, <1>3, <1>5, <1>6, <1>7, UnionPart
<1>9. PICK n : n = 20
  OBVIOUS
<1>10. Whole(W, {}, n, "none")
  <2>1. n \in Nat /\ n - 1 = 19
    BY <1>9
  <2> QED
    BY <1>7, <1>8, <2>1, PartWhole
<1> QED
  BY <1>3, <1>9, <1>10 DEF ProfileOK, RugDoctor, Fixture

(* SolarSystem: 7 channels.                                                *)
LEMMA SolarSystemOK == ProfileOK(SolarSystem)
<1>1. PICK A, B, C, D, E :
        /\ A = Put("FrontGobo", {0})
        /\ B = Put("FrontRotation", {1, 2})
        /\ C = Put("RearGobo", {3})
        /\ D = Put("RearRotation", {4, 5})
        /\ E = IfElse("ShutterOpen", IfElse("AutoShutter", Put("auto", {6}), Put("open", {6})), Zero({6}))
  OBVIOUS
<1>2. /\ Part(A, {0}, "none")
      /\ Part(B, {1, 2}, "none")
      /\ Part(C, {3}, "none")
      /\ Part(D, {4, 5}, "none")
      /\ Part(E, {6}, "none")
  BY <1>1, PutPart, ZeroPart, IfElsePart
<1>3. PICK W : W = SolarSystem.writes /\ W = A \cup B \cup C \cup D \cup E
  BY <1>1 DEF SolarSystem, Fixture
<1>4. Whole(W, {}, 7, "none")
  BY <1>2, <1>3 DEF Part, Whole, Shape, OneSource, Complete, Dark
<1> QED
  BY <1>3, <1>4 DEF ProfileOK, SolarSystem, Fixture

(* Lumasphere: 9 channels.                                                 *)
LEMMA LumasphereOK == ProfileOK(Lumasphere)
<1>1. PICK A, B, C, D, E, F :
        /\ A = Put("Lamp1Intensity", {7})
        /\ B = Put("Lamp2Intensity", {8})
        /\ C = Put("BallRotation", {0, 1})
        /\ D = Put("ColorRotation", {2})
        /\ E = IfElse("Strobe1On", Put("Strobe1", {3, 4}), Zero({3, 4}))
        /\ F = IfElse("Strobe2On", Put("Strobe2", {5, 6}), Zero({5, 6}))
  OBVIOUS
<1>2. /\ Part(A, {7}, "none")
      /\ Part(B, {8}, "none")
      /\ Part(C, {0, 1}, "none")
      /\ Part(D, {2}, "none")
      /\ Part(E, {3, 4}, "none")
      /\ Part(F, {5, 6}, "none")
  BY <1>1, PutPart, ZeroPart, IfElsePart
<1>3. PICK W : W = Lumasphere.writes /\ W = A \cup B \cup C \cup D \cup E \cup F
  BY <1>1 DEF Lumasphere, Fixture
<1>4. Whole(W, {}, 9, "none")
  BY <1>2, <1>3 DEF Part, Whole, Shape, OneSource, Complete, Dark
<1> QED
  BY <1>3, <1>4 DEF ProfileOK, Lumasphere, Fixture

(* Colordynamic: 4 channels; its light, the ShutterOpen, goes dark.        *)
LEMMA ColordynamicOK == ProfileOK(Colordynamic)
<1>1. PICK A, B, C, D :
        /\ A = Fixed({0})
        /\ B = Put("FiberRotation", {2})
        /\ C = Strobed("ShutterOpen", {3})
        /\ D = IfElse("ColorRotationOn", Put("ColorRotationSpeed", {1}), Put("ColorPosition", {1}))
  OBVIOUS
<1>2. /\ Part(A, {0}, "ShutterOpen")
      /\ Part(B, {2}, "ShutterOpen")
      /\ Part(C, {3}, "ShutterOpen")
      /\ Part(D, {1}, "ShutterOpen")
  BY <1>1, PutPart, FixedPart, StrobedPart, IfElsePart
<1>3. PICK W : W = Colordynamic.writes /\ W = A \cup B \cup C \cup D
  BY <1>1 DEF Colordynamic, Fixture
<1>4. Whole(W, {}, 4, "ShutterOpen")
  BY <1>2, <1>3 DEF Part, Whole, Shape, OneSource, Complete, Dark
<1> QED
  BY <1>3, <1>4 DEF ProfileOK, Colordynamic, Fixture

(* H2O: 3 channels; its light, the Dimmer, goes dark.                      *)
LEMMA H2OOK == ProfileOK(H2O)
<1>1. PICK A, B, C :
        /\ A = Strobed("Dimmer", {0})
        /\ B = Put("Rotation", {1})
        /\ C = IfElse("ColorRotate", Put("ColorRotation", {2}), Put("FixedColor", {2}))
  OBVIOUS
<1>2. /\ Part(A, {0}, "Dimmer")
      /\ Part(B, {1}, "Dimmer")
      /\ Part(C, {2}, "Dimmer")
  BY <1>1, PutPart, StrobedPart, IfElsePart
<1>3. PICK W : W = H2O.writes /\ W = A \cup B \cup C
  BY <1>1 DEF H2O, Fixture
<1>4. Whole(W, {}, 3, "Dimmer")
  BY <1>2, <1>3 DEF Part, Whole, Shape, OneSource, Complete, Dark
<1> QED
  BY <1>3, <1>4 DEF ProfileOK, H2O, Fixture

(* Abyss2: 3 channels; its light, the Dimmer, goes dark.                   *)
LEMMA Abyss2OK == ProfileOK(Abyss2)
<1>1. PICK A, B, C :
        /\ A = Strobed("Dimmer", {0})
        /\ B = Put("Wave", {2})
        /\ C = IfElse("ColorRotate", Put("ColorRotation", {1}), Put("FixedColor", {1}))
  OBVIOUS
<1>2. /\ Part(A, {0}, "Dimmer")
      /\ Part(B, {2}, "Dimmer")
      /\ Part(C, {1}, "Dimmer")
  BY <1>1, PutPart, StrobedPart, IfElsePart
<1>3. PICK W : W = Abyss2.writes /\ W = A \cup B \cup C
  BY <1>1 DEF Abyss2, Fixture
<1>4. Whole(W, {}, 3, "Dimmer")
  BY <1>2, <1>3 DEF Part, Whole, Shape, OneSource, Complete, Dark
<1> QED
  BY <1>3, <1>4 DEF ProfileOK, Abyss2, Fixture

(* Chizlet: 9 channels; its light, the Dimmer, goes dark.                  *)
LEMMA ChizletOK == ProfileOK(Chizlet)
<1>1. PICK A, B, C, D, E, F :
        /\ A = Put("DrumSwivel", {0})
        /\ B = Put("DrumRotation", {1})
        /\ C = Put("Gobo", {2})
        /\ D = Put("ReflectorRotation", {3})
        /\ E = Strobed("Dimmer", {5})
        /\ F = Fixed({4, 6, 7, 8})
  OBVIOUS
<1>2. /\ Part(A, {0}, "Dimmer")
      /\ Part(B, {1}, "Dimmer")
      /\ Part(C, {2}, "Dimmer")
      /\ Part(D, {3}, "Dimmer")
      /\ Part(E, {5}, "Dimmer")
      /\ Part(F, {4, 6, 7, 8}, "Dimmer")
  BY <1>1, PutPart, FixedPart, StrobedPart
<1>3. PICK W : W = Chizlet.writes /\ W = A \cup B \cup C \cup D \cup E \cup F
  BY <1>1 DEF Chizlet, Fixture
<1>4. Whole(W, {}, 9, "Dimmer")
  BY <1>2, <1>3 DEF Part, Whole, Shape, OneSource, Complete, Dark
<1> QED
  BY <1>3, <1>4 DEF ProfileOK, Chizlet, Fixture

(* Wizlet: 12 channels; its light, the Dimmer, goes dark.                  *)
LEMMA WizletOK == ProfileOK(Wizlet)
<1>1. PICK A, B, C, D, E, F :
        /\ A = Put("DrumSwivel", {0})
        /\ B = Put("DrumRotation", {1})
        /\ C = Put("Gobo", {2})
        /\ D = Put("ReflectorRotation", {3})
        /\ E = Strobed("Dimmer", {5})
        /\ F = Fixed({4} \cup (6 .. 11))
  OBVIOUS
<1>2. /\ Part(A, {0}, "Dimmer")
      /\ Part(B, {1}, "Dimmer")
      /\ Part(C, {2}, "Dimmer")
      /\ Part(D, {3}, "Dimmer")
      /\ Part(E, {5}, "Dimmer")
      /\ Part(F, {4} \cup (6 .. 11), "Dimmer")
  BY <1>1, PutPart, FixedPart, StrobedPart
<1>3. PICK W : W = Wizlet.writes /\ W = A \cup B \cup C \cup D \cup E \cup F
  BY <1>1 DEF Wizlet, Fixture
<1>4. Whole(W, {}, 12, "Dimmer")
  BY <1>2, <1>3 DEF Part, Whole, Shape, OneSource, Complete, Dark
<1> QED
  BY <1>3, <1>4 DEF ProfileOK, Wizlet, Fixture

(* WizardExtreme: 11 channels; its light, the Dimmer, goes dark.           *)
LEMMA WizardExtremeOK == ProfileOK(WizardExtreme)
<1>1. PICK A, B, C, D, E, F, G :
        /\ A = Strobed("Dimmer", {0})
        /\ B = Put("ReflectorRotation", {1})
        /\ C = IfElse("Twinkle", Put("TwinkleSpeed", {2}), Put("Color", {2}))
        /\ D = Put("Gobo", {4})
        /\ E = Put("DrumSwivel", {6})
        /\ F = Put("DrumRotation", {7})
        /\ G = Fixed({3, 5, 8, 9, 10})
  OBVIOUS
<1>2. /\ Part(A, {0}, "Dimmer")
      /\ Part(B, {1}, "Dimmer")
      /\ Part(C, {2}, "Dimmer")
      /\ Part(D, {4}, "Dimmer")
      /\ Part(E, {6}, "Dimmer")
      /\ Part(F, {7}, "Dimmer")
      /\ Part(G, {3, 5, 8, 9, 10}, "Dimmer")
  BY <1>1, PutPart, FixedPart, StrobedPart, IfElsePart
<1>3. PICK W : W = WizardExtreme.writes /\ W = A \cup B \cup C \cup D \cup E \cup F \cup G
  BY <1>1 DEF WizardExtreme, Fixture
<1>4. Whole(W, {}, 11, "Dimmer")
  BY <1>2, <1>3 DEF Part, Whole, Shape, OneSource, Complete, Dark
<1> QED
  BY <1>3, <1>4 DEF ProfileOK, WizardExtreme, Fixture

(* RushWizard: 10 channels; its light, the Dimmer, goes dark.              *)
LEMMA RushWizardOK == ProfileOK(RushWizard)
<1>1. PICK A, B, C, D, E, F, G :
        /\ A = Strobed("Dimmer", {1})
        /\ B = Put("Gobo", {3})
        /\ C = Put("DrumRotation", {4})
        /\ D = IfElse("Twinkle", Put("TwinkleSpeed", {2}), Put("Color", {2}))
        /\ E = Put("DrumSwivel", {5})
        /\ F = Put("ReflectorRotation", {6})
        /\ G = Fixed({0, 7, 8, 9})
  OBVIOUS
<1>2. /\ Part(A, {1}, "Dimmer")
      /\ Part(B, {3}, "Dimmer")
      /\ Part(C, {4}, "Dimmer")
      /\ Part(D, {2}, "Dimmer")
      /\ Part(E, {5}, "Dimmer")
      /\ Part(F, {6}, "Dimmer")
      /\ Part(G, {0, 7, 8, 9}, "Dimmer")
  BY <1>1, PutPart, FixedPart, StrobedPart, IfElsePart
<1>3. PICK W : W = RushWizard.writes /\ W = A \cup B \cup C \cup D \cup E \cup F \cup G
  BY <1>1 DEF RushWizard, Fixture
<1>4. Whole(W, {}, 10, "Dimmer")
  BY <1>2, <1>3 DEF Part, Whole, Shape, OneSource, Complete, Dark
<1> QED
  BY <1>3, <1>4 DEF ProfileOK, RushWizard, Fixture

(* Astroscan: 9 channels; its light, the Dimmer, goes dark.                *)
LEMMA AstroscanOK == ProfileOK(Astroscan)
<1>1. PICK A, B, C, D, E, F, G, H, I :
        /\ A = Put("Iris", {0})
        /\ B = Put("Color", {1})
        /\ C = Put("LampOn", {2})
        /\ D = Strobed("Dimmer", {3})
        /\ E = Put("Pan", {4})
        /\ F = Put("Tilt", {5})
        /\ G = Put("Gobo", {6})
        /\ H = Put("GoboRotation", {7})
        /\ I = Put("MirrorRotation", {8})
  OBVIOUS
<1>2. /\ Part(A, {0}, "Dimmer")
      /\ Part(B, {1}, "Dimmer")
      /\ Part(C, {2}, "Dimmer")
      /\ Part(D, {3}, "Dimmer")
      /\ Part(E, {4}, "Dimmer")
      /\ Part(F, {5}, "Dimmer")
      /\ Part(G, {6}, "Dimmer")
      /\ Part(H, {7}, "Dimmer")
      /\ Part(I, {8}, "Dimmer")
  BY <1>1, PutPart, StrobedPart
<1>3. PICK W : W = Astroscan.writes /\ W = A \cup B \cup C \cup D \cup E \cup F \cup G \cup H \cup I
  BY <1>1 DEF Astroscan, Fixture
<1>4. Whole(W, {}, 9, "Dimmer")
  BY <1>2, <1>3 DEF Part, Whole, Shape, OneSource, Complete, Dark
<1> QED
  BY <1>3, <1>4 DEF ProfileOK, Astroscan, Fixture

(* LilChonker: 15 channels; its light, the Dimmer, goes dark.              *)
LEMMA LilChonkerOK == ProfileOK(LilChonker)
<1>1. PICK A, B, C, D, E, F, G, H, I, J :
        /\ A = Put("Pan", {0, 1})
        /\ B = Put("Tilt", {2, 3})
        /\ C = Strobed("Dimmer", {5})
        /\ D = Put("Color", {7})
        /\ E = Put("Focus", {8})
        /\ F = Put("RotatingGobo", {9})
        /\ G = Put("GoboRotation", {10})
        /\ H = Put("Gobo", {11})
        /\ I = IfElse("Prism", Put("PrismRotation", {12}), Zero({12}))
        /\ J = Fixed({4, 6, 13, 14})
  OBVIOUS
<1>2. /\ Part(A, {0, 1}, "Dimmer")
      /\ Part(B, {2, 3}, "Dimmer")
      /\ Part(C, {5}, "Dimmer")
      /\ Part(D, {7}, "Dimmer")
      /\ Part(E, {8}, "Dimmer")
      /\ Part(F, {9}, "Dimmer")
      /\ Part(G, {10}, "Dimmer")
      /\ Part(H, {11}, "Dimmer")
      /\ Part(I, {12}, "Dimmer")
      /\ Part(J, {4, 6, 13, 14}, "Dimmer")
  BY <1>1, PutPart, FixedPart, ZeroPart, StrobedPart, IfElsePart
<1>3. PICK W : W = LilChonker.writes /\ W = A \cup B \cup C \cup D \cup E \cup F \cup G \cup H \cup I \cup J
  BY <1>1 DEF LilChonker, Fixture
<1>4. Whole(W, {}, 15, "Dimmer")
  BY <1>2, <1>3 DEF Part, Whole, Shape, OneSource, Complete, Dark
<1> QED
  BY <1>3, <1>4 DEF ProfileOK, LilChonker, Fixture

(* Mac700: 31 channels; its light, the Val, goes dark.                     *)
LEMMA Mac700OK == ProfileOK(Mac700)
<1>1. PICK A, B, C, D, E, F, G, H, I, J, K, L, M :
        /\ A = Strobed("Val", {1, 2})
        /\ B = Put("Color", 3 .. 8)
        /\ C = Put("ColorWheel", {9})
        /\ D = Put("RotatingGobo", {11})
        /\ E = Put("GoboRotation", {12})
        /\ F = Put("StaticGobo", {14})
        /\ G = IfElse("Prism", Put("PrismRotation", {18}), Zero({18}))
        /\ H = Put("Iris", {19})
        /\ I = Put("Focus", {21, 22})
        /\ J = Put("Zoom", {23, 24})
        /\ K = Put("Pan", {25, 26})
        /\ L = Put("Tilt", {27, 28})
        /\ M = Fixed({0, 10, 13, 15, 16, 17, 20, 29, 30})
  OBVIOUS
<1>2. /\ Part(A, {1, 2}, "Val")
      /\ Part(B, 3 .. 8, "Val")
      /\ Part(C, {9}, "Val")
      /\ Part(D, {11}, "Val")
      /\ Part(E, {12}, "Val")
      /\ Part(F, {14}, "Val")
      /\ Part(G, {18}, "Val")
      /\ Part(H, {19}, "Val")
      /\ Part(I, {21, 22}, "Val")
      /\ Part(J, {23, 24}, "Val")
      /\ Part(K, {25, 26}, "Val")
      /\ Part(L, {27, 28}, "Val")
      /\ Part(M, {0, 10, 13, 15, 16, 17, 20, 29, 30}, "Val")
  BY <1>1, PutPart, FixedPart, ZeroPart, StrobedPart, IfElsePart
<1>3. PICK W : W = Mac700.writes /\ W = A \cup B \cup C \cup D \cup E \cup F \cup G \cup H \cup I \cup J \cup K \cup L \cup M
  BY <1>1 DEF Mac700, Fixture
<1>4. Whole(W, {}, 31, "Val")
  BY <1>2, <1>3 DEF Part, Whole, Shape, OneSource, Complete, Dark
<1> QED
  BY <1>3, <1>4 DEF ProfileOK, Mac700, Fixture

(* QuadPhase: 4 channels; its light, the Shutter, goes dark.               *)
LEMMA QuadPhaseOK == ProfileOK(QuadPhase)
<1>1. PICK A, B, C, D :
        /\ A = Put("Color", {0})
        /\ B = Put("Rotation", {1})
        /\ C = Fixed({2})
        /\ D = Strobed("Shutter", {3})
  OBVIOUS
<1>2. /\ Part(A, {0}, "Shutter")
      /\ Part(B, {1}, "Shutter")
      /\ Part(C, {2}, "Shutter")
      /\ Part(D, {3}, "Shutter")
  BY <1>1, PutPart, FixedPart, StrobedPart
<1>3. PICK W : W = QuadPhase.writes /\ W = A \cup B \cup C \cup D
  BY <1>1 DEF QuadPhase, Fixture
<1>4. Whole(W, {}, 4, "Shutter")
  BY <1>2, <1>3 DEF Part, Whole, Shape, OneSource, Complete, Dark
<1> QED
  BY <1>3, <1>4 DEF ProfileOK, QuadPhase, Fixture

(* FusionRoll: 11 channels.                                                *)
LEMMA FusionRollOK == ProfileOK(FusionRoll)
<1>1. PICK A, B, C, D, E, F :
        /\ A = Put("DrumSwivel", {0})
        /\ B = Put("DrumRotation", {1})
        /\ C = Put("Color", {2})
        /\ D = Put("LaserRotation", {5})
        /\ E = IfElse("LEDStrobeOn", Strobed("Dimmer", {4}), Put("Dimmer", {4}))
        /\ F = IfElse("LaserStrobeOn", Strobed("LaserOn", {6}), Put("LaserOn", {6}))
  OBVIOUS
<1>2. /\ Part(A, {0}, "none")
      /\ Part(B, {1}, "none")
      /\ Part(C, {2}, "none")
      /\ Part(D, {5}, "none")
      /\ Part(E, {4}, "none")
      /\ Part(F, {6}, "none")
  BY <1>1, PutPart, StrobedPart, IfElsePart, StrobedNotFrom
<1>3. PICK W : W = FusionRoll.writes /\ W = A \cup B \cup C \cup D \cup E \cup F
  BY <1>1 DEF FusionRoll, Fixture
<1>4. Whole(W, {}, 11, "none")
  BY <1>2, <1>3 DEF Part, Whole, Shape, OneSource, Complete, Dark
<1> QED
  BY <1>3, <1>4 DEF ProfileOK, FusionRoll, Fixture

(* FreedomFries: 8 channels.                                               *)
LEMMA FreedomFriesOK == ProfileOK(FreedomFries)
<1>1. PICK A, B, C, D, E, F :
        /\ A = Put("Dimmer", {0})
        /\ B = Put("Color", 1 .. 3)
        /\ C = Fixed({4})
        /\ D = IfElse("enabled", IfElse("strobing", Put("strobe", {5}), Zero({5})), Zero({5}))
        /\ E = Put("Program", {6})
        /\ F = Put("Speed", {7})
  OBVIOUS
<1>2. /\ Part(A, {0}, "none")
      /\ Part(B, 1 .. 3, "none")
      /\ Part(C, {4}, "none")
      /\ Part(D, {5}, "none")
      /\ Part(E, {6}, "none")
      /\ Part(F, {7}, "none")
  BY <1>1, PutPart, FixedPart, ZeroPart, IfElsePart
<1>3. PICK W : W = FreedomFries.writes /\ W = A \cup B \cup C \cup D \cup E \cup F
  BY <1>1 DEF FreedomFries, Fixture
<1>4. Whole(W, {}, 8, "none")
  BY <1>2, <1>3 DEF Part, Whole, Shape, OneSource, Complete, Dark
<1> QED
  BY <1>3, <1>4 DEF ProfileOK, FreedomFries, Fixture

(* What a profile writes.                                                  *)
LEMMA FixtureWrites ==
    ASSUME NEW type, NEW count, NEW strobe, NEW light, NEW writes
    PROVE  Fixture(type, count, strobe, light, writes).writes = writes
BY DEF Fixture

(* Profiles that write nothing.                                            *)
LEMMA NoWrites == ProfileOK(EmptyChannel) /\ ProfileOK(Wled) /\ ProfileOK(Lumitone)
BY DEF ProfileOK, Whole, OneSource, Complete, Dark, EmptyChannel, Wled, Lumitone, Fixture

(* Moonraker: 27 channels; the master dimmer goes dark, the tilt is        *)
(* written clamped or not.                                                 *)
LEMMA MoonrakerOK == ProfileOK(Moonraker)
<1>1. PICK A, B, H, D, E, F, spin, roll :
        /\ A = Put("Pan", {0})
        /\ B = Put("Tilt", {1})
        /\ spin = Fixed({2}) \cup Put("Rotation", {3})
        /\ roll = Put("Roll", {2}) \cup Zero({3})
        /\ H = IfElse("spinning", spin, roll)
        /\ D = Strobed("Master", {4})
        /\ E = Fixed({5, 24, 25, 26})
        /\ F = Put("Beam", 6 .. 23)
  OBVIOUS
<1>2. /\ Part(A, {0}, "Master") /\ Part(B, {1}, "Master") /\ Part(D, {4}, "Master")
      /\ Part(E, {5, 24, 25, 26}, "Master") /\ Part(F, 6 .. 23, "Master")
  BY <1>1, PutPart, FixedPart, StrobedPart
<1>3. Part(spin, {2} \cup {3}, "Master") /\ NotFrom(spin, "Master")
  <2>1. PICK x, y : x = Fixed({2}) /\ y = Put("Rotation", {3})
    OBVIOUS
  <2>2. /\ Part(x, {2}, "Master") /\ NotFrom(x, "Master")
        /\ Part(y, {3}, "Master") /\ NotFrom(y, "Master")
    BY <2>1, FixedPart, PutPart
  <2> QED
    BY <1>1, <2>1, <2>2, UnionPart DEF NotFrom
<1>4. Part(roll, {2} \cup {3}, "Master") /\ NotFrom(roll, "Master")
  <2>1. PICK x, y : x = Put("Roll", {2}) /\ y = Zero({3})
    OBVIOUS
  <2>2. /\ Part(x, {2}, "Master") /\ NotFrom(x, "Master")
        /\ Part(y, {3}, "Master") /\ NotFrom(y, "Master")
    BY <2>1, ZeroPart, PutPart
  <2> QED
    BY <1>1, <2>1, <2>2, UnionPart DEF NotFrom
<1>5. Part(H, {2} \cup {3}, "Master")
  BY <1>1, <1>3, <1>4, IfElsePart
<1>6. PICK W : W = Moonraker.writes /\ W = A \cup B \cup H \cup D \cup E \cup F
  BY <1>1 DEF Moonraker, Fixture
<1>7. Whole(W, {}, 27, "Master")
  BY <1>2, <1>5, <1>6 DEF Part, Whole, Shape, OneSource, Complete, Dark
<1> QED
  BY <1>6, <1>7 DEF ProfileOK, Moonraker, Fixture

(* The shutter of a part of the Swarmolon.                                 *)
LEMMA SwarmolonShutter ==
    ASSUME NEW n, NEW light
    PROVE  Part(IfElse("strobe",
                    IfElse("flash", Put("Color", {n}), Zero({n})),
                    IfElse("Shutter", Put("Shutter", {n}), Zero({n}))), {n}, light)
<1>1. PICK A, B : /\ A = IfElse("flash", Put("Color", {n}), Zero({n}))
                  /\ B = IfElse("Shutter", Put("Shutter", {n}), Zero({n}))
  OBVIOUS
<1>2. Shape(B, {n})
  BY <1>1, PutShape, IfElseShape DEF Zero
<1>3. Shape(A, {n}) /\ Darkened(A)
  BY <1>1, PutShape, DarkPut, DarkIfElse DEF Zero
<1> QED
  BY <1>1, <1>2, <1>3, DarkIfElse, DarkPart

(* The derby part of the Swarmolon, and its channels.                      *)
LEMMA SwarmolonDerbyOK ==
    ProfileOK(SwarmolonDerby) /\ \A w \in SwarmolonDerby.writes : w.ch \in {0, 1, 2, 3, 7}
<1>1. PICK A, B, D :
        /\ A = Fixed({0, 2, 3})
        /\ B = Put("R", {7})
        /\ D = IfElse("strobe",
                   IfElse("flash", Put("Color", {1}), Zero({1})),
                   IfElse("Shutter", Put("Shutter", {1}), Zero({1})))
  OBVIOUS
<1>2. /\ Part(A, {0, 2, 3}, "Shutter")
      /\ Part(B, {7}, "Shutter")
      /\ Part(D, {1}, "Shutter")
  BY <1>1, PutPart, FixedPart, SwarmolonShutter
<1>3. PICK W : W = SwarmolonDerby.writes /\ W = A \cup B \cup D
  BY <1>1 DEF SwarmolonDerby, Fixture
<1>4. Whole(W, {}, 9, "Shutter")
  BY <1>2, <1>3 DEF Part, Whole, Shape, OneSource, Complete, Dark
<1>5. \A w \in W : w.ch \in {0, 1, 2, 3, 7}
  BY <1>2, <1>3 DEF Part, Shape
<1> QED
  BY <1>3, <1>4, <1>5 DEF ProfileOK, SwarmolonDerby, Fixture

(* The laser part of the Swarmolon, and its channels.                      *)
LEMMA SwarmolonLasersOK ==
    ProfileOK(SwarmolonLasers) /\ \A w \in SwarmolonLasers.writes : w.ch \in {5, 6, 8}
<1>1. PICK A, B, D :
        /\ A = Zero({6})
        /\ B = Put("R", {8})
        /\ D = IfElse("strobe",
                   IfElse("flash", Put("Color", {5}), Zero({5})),
                   IfElse("Shutter", Put("Shutter", {5}), Zero({5})))
  OBVIOUS
<1>2. /\ Part(A, {6}, "Shutter")
      /\ Part(B, {8}, "Shutter")
      /\ Part(D, {5}, "Shutter")
  BY <1>1, PutPart, ZeroPart, SwarmolonShutter
<1>3. PICK W : W = SwarmolonLasers.writes /\ W = A \cup B \cup D
  BY <1>1 DEF SwarmolonLasers, Fixture
<1>4. Whole(W, {}, 9, "Shutter")
  BY <1>2, <1>3 DEF Part, Whole, Shape, OneSource, Complete, Dark
<1>5. \A w \in W : w.ch \in {5, 6, 8}
  BY <1>2, <1>3 DEF Part, Shape
<1> QED
  BY <1>3, <1>4, <1>5 DEF ProfileOK, SwarmolonLasers, Fixture

(* Hypnotic: the strobe does not close its shutter.                        *)
LEMMA HypnoticOK == ProfileOK(Hypnotic)
<1>1. PICK A, B :
        /\ A = Put("Rotation", {1})
        /\ B = IfElse("Shutter", Put("Shutter", {0}),
                   IfElse("flash", Put("strobe", {0}), Zero({0})))
  OBVIOUS
<1>2. Part(A, {1}, "none") /\ Part(B, {0}, "none")
  BY <1>1, PutPart, ZeroPart, IfElsePart
<1>3. PICK W : W = Hypnotic.writes /\ W = A \cup B
  BY <1>1 DEF Hypnotic, Fixture
<1>4. Whole(W, {}, 2, "none")
  BY <1>2, <1>3 DEF Part, Whole, Shape, OneSource, Complete, Dark
<1> QED
  BY <1>3, <1>4 DEF ProfileOK, Hypnotic, Fixture

(* The cells of an array, one channel each.                                *)
LEMMA CellsPart ==
    ASSUME NEW n \in Nat
    PROVE  Whole(Cells(n), {}, n, "none")
<1>1. Part(Cells(n), 0 .. n - 1, "none")
  BY PutPart, ZeroPart, IfElsePart DEF Cells
<1> QED
  BY <1>1 DEF Part, Whole, Shape, OneSource, Complete, Dark

(* The profiles that are arrays of cells.                                  *)
LEMMA ArraysOK ==
    ProfileOK(FreqStrobe) /\ ProfileOK(FlashBang) /\ ProfileOK(FlashBangPaired)
BY CellsPart DEF ProfileOK, FreqStrobe, FlashBang, FlashBangPaired, Fixture

(* The Color profile, for each of its models.                              *)
LEMMA ColorOK == ASSUME NEW kind \in DOMAIN ColorModel PROVE ProfileOK(Color(kind))
<1>1. PICK n : n = ColorModel[kind] /\ n \in Nat
  BY DEF ColorModel
<1>2. PICK A : A = Colored(0 .. n - 1)
  OBVIOUS
<1>3. Part(A, 0 .. n - 1, "Val")
  BY <1>2, ColoredPart
<1>4. Whole(A, {}, n, "Val")
  BY <1>1, <1>3 DEF Part, Whole, Shape, OneSource, Complete, Dark
<1> QED
  BY <1>1, <1>2, <1>4 DEF ProfileOK, Color, Fixture

(* The Leko profile, for each of its models.                               *)
LEMMA LekoOK == ASSUME NEW kind \in DOMAIN LekoModel PROVE ProfileOK(Leko(kind))
<1>1. PICK A, B, C, D, E :
        /\ A = Strobed("Level", {0})
        /\ B = Put("Gobo1", {0, 1})
        /\ C = Put("Gobo2", {2, 3})
        /\ D = Put("Gobo1", {0})
        /\ E = [n \in Nat |-> Zero(1 .. n)]
  OBVIOUS
<1>2. /\ Part(A, {0}, "Level")
      /\ Part(B, {0, 1}, "Level")
      /\ Part(C, {2, 3}, "Level")
      /\ Part(D, {0}, "Level")
      /\ \A n \in Nat : Part(E[n], 1 .. n, "Level")
  BY <1>1, PutPart, ZeroPart, StrobedPart
<1>3. PICK W, n : /\ W = LekoModel[kind].writes /\ n = LekoModel[kind].count
                  /\ \/ n = 1 /\ W = A
                     \/ n = 4 /\ W = B \cup C
                     \/ n = 1 /\ W = D
                     \/ n = 2 /\ W = D \cup E[1]
                     \/ n = 3 /\ W = D \cup E[2]
  <2>1. {1} = 1 .. 1 /\ {1, 2} = 1 .. 2
    OBVIOUS
  <2>2. /\ LekoModel.Dimmer.count = 1 /\ LekoModel.Dimmer.writes = A
        /\ LekoModel.GoboSpinnaz.count = 4 /\ LekoModel.GoboSpinnaz.writes = B \cup C
        /\ LekoModel.DhaVarispeed.count = 4 /\ LekoModel.DhaVarispeed.writes = B \cup C
        /\ LekoModel.DcRotator.count = 1 /\ LekoModel.DcRotator.writes = D
        /\ LekoModel.ApolloRotoQDmx.count = 2 
        /\ LekoModel.ApolloRotoQDmx.writes = D \cup E[1]
        /\ LekoModel.ApolloSmartMove.count = 3
        /\ LekoModel.ApolloSmartMove.writes = D \cup E[2]
    BY <1>1, <2>1 DEF LekoModel
  <2>3. kind \in {"Dimmer", "GoboSpinnaz", "DhaVarispeed", "DcRotator",
                  "ApolloRotoQDmx", "ApolloSmartMove"}
    BY DEF LekoModel
  <2> QED
    BY <2>2, <2>3
<1>4. Whole(W, {}, n, "Level")
  <2>1. n \in Nat
    BY <1>3
  <2>2. OneSource(W) /\ Complete(W, {}) /\ Dark(W, "Level")
    BY <1>2, <1>3 DEF Part, Shape, OneSource, Complete, Dark
  <2>3. \A w \in W : IsWrite(w) /\ w.ch \in 0 .. n - 1
    BY <1>2, <1>3 DEF Part, Shape
  <2> QED
    BY <2>1, <2>2, <2>3 DEF Whole
<1> QED
  BY <1>3, <1>4 DEF ProfileOK, Leko, Fixture

(* A head of the Swizzle Stick, and its channels; the first head writes    *)
(* what the five have in common.                                           *)
LEMMA SwizzleStickOK ==
    ASSUME NEW head \in 1 .. 5
    PROVE  /\ ProfileOK(SwizzleStick(head))
           /\ \A w \in SwizzleStick(head).writes :
                \/ w.ch \in {1 + 2 * head, 2 + 2 * head, 12 + head}
                \/ head = 1 /\ w.ch \in {0, 1, 2, 18} \cup (19 .. 26)
<1>1. PICK A, B, C, D, E, F, G :
        /\ A = Put("Pan", {0, 1})
        /\ B = Put("TiltMacro", {18})
        /\ C = IfElse("PanSpinActive", Put("PanSpin", {2}), Zero({2}))
        /\ D = Put("TiltMacroSpeed", {19})
        /\ E = Fixed(20 .. 26)
        /\ F = Put("Tilt", {1 + 2 * head, 2 + 2 * head})
        /\ G = IfElse("TiltSpinActive",
                   Put("TiltSpin", {12 + head}), Zero({12 + head}))
  OBVIOUS
<1>2. /\ Part(A, {0, 1}, "none")
      /\ Part(B, {18}, "none")
      /\ Part(C, {2}, "none")
      /\ Part(D, {19}, "none")
      /\ Part(E, 20 .. 26, "none")
      /\ Part(F, {1 + 2 * head, 2 + 2 * head}, "none")
      /\ Part(G, {12 + head}, "none")
  BY <1>1, PutPart, FixedPart, ZeroPart, IfElsePart
<1>3. PICK W : W = SwizzleStick(head).writes 
                /\ W = (IF head = 1 THEN A \cup B \cup C \cup D \cup E ELSE {}) \cup F \cup G
  BY <1>1 DEF SwizzleStick, Fixture
<1>4. Whole(W, {}, 27, "none")
  BY <1>2, <1>3 DEF Part, Whole, Shape, OneSource, Complete, Dark
<1>5. \A w \in W : \/ w.ch \in {1 + 2 * head, 2 + 2 * head, 12 + head}
                   \/ head = 1 /\ w.ch \in {0, 1, 2, 18} \cup (19 .. 26)
  BY <1>2, <1>3 DEF Part, Shape
<1> QED
  BY <1>3, <1>4, <1>5 DEF ProfileOK, SwizzleStick, Fixture

(* TriPhase: which write decides on the beam depends on its switches.      *)
LEMMA TriPhaseOK == ProfileOK(TriPhase)
<1> DEFINE colors == {"Red", "Green", "Blue"}
           lit == Strobed("Dimmer", {3})
<1>1. PICK A, B, C, L, D :
        /\ A = Put("Color", {0})
        /\ B = Put("Rotation", {1})
        /\ C = Zero({2})
        /\ L = UNION {When(c, lit) : c \in colors}
        /\ D = {[w EXCEPT !.off = colors] : w \in Zero({3})}
  OBVIOUS
<1>2. Part(A, {0}, "Dimmer") /\ Part(B, {1}, "Dimmer") /\ Part(C, {2}, "Dimmer")
  BY <1>1, PutPart, ZeroPart
<1>3. Shape(lit, {3}) /\ Darkened(lit)
  BY StrobedDark
<1> HIDE DEF lit
<1>4. ASSUME NEW w \in L
      PROVE  \E v \in lit, c \in colors : /\ IsWrite(w) /\ w.from = v.from /\ w.ch = v.ch
                             /\ w.on = v.on \cup {c} /\ w.off = v.off
  <2>1. PICK c \in colors : w \in When(c, lit)
    BY <1>1
  <2> QED
    BY <1>3, <2>1, WhenWrites DEF Shape
<1>5. ASSUME NEW v \in lit, NEW c \in colors 
      PROVE  \E w \in L : w.ch = v.ch /\ w.on = v.on \cup {c} /\ w.off = v.off
  <2>1. \E w \in When(c, lit) : w.ch = v.ch /\ w.on = v.on \cup {c} /\ w.off = v.off
    BY <1>3, WhenWrites DEF Shape
  <2> QED
    BY <1>1, <2>1
<1>6. PICK d : d = [from |-> "zero", ch |-> 3, on |-> {}, off |-> colors]
  OBVIOUS
<1>7. D = {d}
  <2>1. PICK z : z = [from |-> "zero", ch |-> 3, on |-> {}, off |-> {}]
    OBVIOUS
  <2>2. Zero({3}) = {z}
    BY <2>1 DEF Zero, Put
  <2>3. [z EXCEPT !.off = colors] = d
    BY <1>6, <2>1
  <2> QED
    BY <1>1, <2>2, <2>3
<1>8. PICK W : W = TriPhase.writes /\ W = A \cup B \cup C \cup (L \cup D)
  <2>1. Beam = L \cup D
    BY <1>1, Zenon DEF Beam, lit
  <2> QED
    BY <1>1, <2>1 DEF TriPhase, Fixture
<1>9. Part(L \cup D, {3}, "Dimmer")
  <2>1. \A w \in L \cup D : IsWrite(w) /\ w.ch = 3 /\ DarkWrite(w)
    BY <1>3, <1>4, <1>6, <1>7 DEF Shape, IsWrite, Darkened, DarkWrite
  <2>2. OneSource(L \cup D)
    <3> SUFFICES ASSUME NEW S, NEW v \in L \cup D, NEW w \in L \cup D,
                        Happening(v, S), Happening(w, S)
                 PROVE  v.from = w.from
      BY DEF OneSource
    <3>1. CASE colors \cap S = {}
      BY <1>4, <1>7, <3>1 DEF Happening
    <3>2. CASE colors \cap S # {}
      <4>1. v \in L /\ w \in L
        BY <1>6, <1>7, <3>2 DEF Happening
      <4>2. PICK a \in lit : a.from = v.from /\ a.ch = v.ch /\ Happening(a, S)
        BY <1>4, <4>1 DEF Happening
      <4>3. PICK b \in lit : b.from = w.from /\ b.ch = w.ch /\ Happening(b, S)
        BY <1>4, <4>1 DEF Happening
      <4> QED
        BY <1>3, <4>2, <4>3 DEF Shape, OneSource
    <3> QED
      BY <3>1, <3>2
  <2>3. ASSUME NEW S
        PROVE  \E w \in L \cup D : w.ch = 3 /\ Happening(w, S)
    <3>1. CASE colors \cap S = {}
      BY <1>6, <1>7, <3>1 DEF Happening
    <3>2. CASE colors \cap S # {}
      <4>1. PICK c \in colors : c \in S
        BY <3>2
      <4>2. PICK v \in lit : v.ch = 3 /\ Happening(v, S)
        BY <1>3 DEF Shape
      <4> QED
        BY <1>5, <4>1, <4>2 DEF Happening
    <3> QED
      BY <3>1, <3>2
  <2> QED
    BY <2>1, <2>2, <2>3 DEF Part, Shape, Dark
<1>10. Whole(W, {}, 4, "Dimmer")
  <2>1. PICK E : E = L \cup D
    OBVIOUS
  <2>2. W = A \cup B \cup C \cup E
    BY <1>8, <2>1
  <2> QED
    BY <1>2, <1>9, <2>1, <2>2 DEF Part, Whole, Shape, OneSource, Complete, Dark
<1> QED
  BY <1>8, <1>10 DEF ProfileOK, TriPhase, Fixture

(* Comet: its first channel is not always written.                         *)
LEMMA CometOK == ProfileOK(Comet)
<1>1. PICK sound, open, H, A, B, C, D :
        /\ sound = Put("ShutterSoundActive", {0})
        /\ open = Strobed("Shutter", {0})
        /\ H = IfElse("Shutter", When("ShutterSoundActive", sound), open)
        /\ A = Put("SelectMacro", {1})
        /\ B = Put("Mspeed", {2})
        /\ C = Put("Trigger", {3})
        /\ D = Put("Reset", {4})
  OBVIOUS
<1>2. Part(A, {1}, "none") /\ Part(B, {2}, "none") /\ Part(C, {3}, "none") /\ Part(D, {4}, "none")
  BY <1>1, PutPart
<1>3. Part(sound, {0}, "none") /\ Part(open, {0}, "none") /\ NotFrom(sound, "none") /\ NotFrom(open, "none")
  BY <1>1, PutPart, StrobedNotFrom
<1>4. PICK M : M = IfElse("Shutter", IfElse("ShutterSoundActive", sound, sound), open)
  OBVIOUS
<1>5. Part(M, {0}, "none")
  BY <1>3, <1>4, IfElsePart
<1>6. H \subseteq M
  BY <1>1, <1>4 DEF IfElse, When
<1>7. PICK W : W = Comet.writes /\ W = H \cup A \cup B \cup C \cup D
  BY <1>1 DEF Comet, Fixture
<1>8. Whole(W, {0}, 5, "none")
  BY <1>2, <1>5, <1>6, <1>7 DEF Part, Whole, Shape, OneSource, Complete, Dark
<1> QED
  BY <1>7, <1>8 DEF ProfileOK, Comet, Fixture

(* The strobe part of the Swarmolon, and its channel.                      *)
LEMMA SwarmolonStrobeOK ==
    ProfileOK(SwarmolonStrobe) /\ \A w \in SwarmolonStrobe.writes : w.ch = 4
<1>1. PICK W : /\ W = SwarmolonStrobe.writes
               /\ W = IfElse("enabled",
                      IfElse("strobing", Put("Pattern", {4}), Zero({4})), Zero({4}))
  BY DEF SwarmolonStrobe, Fixture
<1>2. Part(W, {4}, "none")
  BY <1>1, PutPart, ZeroPart, IfElsePart
<1>3. Whole(W, {}, 9, "none")
  BY <1>2 DEF Part, Whole, Shape, OneSource, Complete, Dark
<1>4. \A w \in W : w.ch = 4
  BY <1>2 DEF Part, Shape
<1> QED
  BY <1>1, <1>3, <1>4 DEF ProfileOK, SwarmolonStrobe, Fixture

(* All profiles of the program are in order.                               *)
LEMMA ProfilesOK == \A P \in AllProfiles : ProfileOK(P)
BY NoWrites, AtlasOK, RadianceOK, AquariusOK, DimmerOK, RelayOK, UvLedBrickOK,
   StarlightOK, CosmicBurstOK, AstroraggiOK, RotosphereQ3OK, IWashLedOK, UfoOK,
   EyeballOK, FaderboardOK, VenusOK, AsteraOK, RugDoctorOK, SolarSystemOK,
   LumasphereOK, ColordynamicOK, H2OOK, Abyss2OK, ChizletOK, WizletOK,
   WizardExtremeOK, RushWizardOK, AstroscanOK, LilChonkerOK, Mac700OK, TriPhaseOK,
   QuadPhaseOK, HypnoticOK, FusionRollOK, FreedomFriesOK, CometOK, ArraysOK,
   MoonrakerOK, SwarmolonDerbyOK, SwarmolonStrobeOK, SwarmolonLasersOK,
   SwizzleStickOK, ColorOK, LekoOK
   DEF AllProfiles

(* Parts of one fixture write different channels.                          *)
LEMMA OverlaidApart ==
    ASSUME NEW P, NEW Q, Overlaid(P, Q)
    PROVE  \A v \in P.writes : \A w \in Q.writes : v.ch # w.ch
<1>1. CASE P # Q /\ {P, Q} \subseteq {SwarmolonDerby, SwarmolonStrobe, SwarmolonLasers}
  <2>1. PICK D, S, L : D = SwarmolonDerby /\ S = SwarmolonStrobe /\ L = SwarmolonLasers
    OBVIOUS
  <2>2. /\ \A w \in D.writes : w.ch \in {0, 1, 2, 3, 7}
        /\ \A w \in S.writes : w.ch = 4
        /\ \A w \in L.writes : w.ch \in {5, 6, 8}
    BY <2>1, SwarmolonDerbyOK, SwarmolonStrobeOK, SwarmolonLasersOK
  <2> QED
    BY <1>1, <2>1, <2>2
<1>2. CASE \E h \in 1 .. 5 : \E k \in 1 .. 5 \ {h} :
             P = SwizzleStick(h) /\ Q = SwizzleStick(k)
  <2>1. PICK h \in 1 .. 5 : \E k \in 1 .. 5 \ {h} :
             P = SwizzleStick(h) /\ Q = SwizzleStick(k)
    BY <1>2
  <2>2. PICK k \in 1 .. 5 \ {h} : P = SwizzleStick(h) /\ Q = SwizzleStick(k)
    BY <2>1
  <2>3. /\ \A w \in P.writes : \/ w.ch \in {1 + 2 * h, 2 + 2 * h, 12 + h}
                               \/ h = 1 /\ w.ch \in {0, 1, 2, 18} \cup (19 .. 26)
        /\ \A w \in Q.writes : \/ w.ch \in {1 + 2 * k, 2 + 2 * k, 12 + k}
                               \/ k = 1 /\ w.ch \in {0, 1, 2, 18} \cup (19 .. 26)
    BY <2>2, SwizzleStickOK
  <2> QED
    BY <2>3
<1> QED
  BY <1>1, <1>2 DEF Overlaid

(***************************************************************************)
(* The frame                                                               *)
(***************************************************************************)
(* A write happens on exactly the switches that it names.                  *)
LEMMA HappensIs ==
    ASSUME NEW g, NEW w
    PROVE  Happens(g, w) <=> Happening(w, switches(g))
BY DEF Happens, Happening

(* What a fixture writes, write by write.                                  *)
LEMMA WrittenBy ==
    ASSUME NEW g, NEW f, NEW x
    PROVE  x \in written(g, f) <=>
               \E w \in f.profile.writes :
                  Happens(g, w) /\ x = [ch |-> f.addr + w.ch, value |-> value(g, w)]
BY DEF written

\* There is a write to the channel, and the value is of such a write.
WrittenTo(ch, val) ==
    \E f \in FixturesOf(patch) : \E w \in f.profile.writes :
        Happens(f.group, w) /\ ch = f.addr + w.ch /\ val = value(f.group, w)

(* A channel that is written is given the value of one of the writes, the  *)
(* same one whatever the buffer held, and any other is left alone.         *)
LEMMA Rendering ==
    ASSUME NEW buffer, NEW ch \in DOMAIN buffer
    PROVE  /\ DOMAIN rendered(buffer) = DOMAIN buffer
           /\ \/ WrittenTo(ch, rendered(buffer)[ch])
              \/ rendered(buffer)[ch] = buffer[ch] /\ \A val : ~WrittenTo(ch, val)
           /\ \A other, val : ch \in DOMAIN other /\ WrittenTo(ch, val) =>
                  rendered(buffer)[ch] = rendered(other)[ch]
<1>1. PICK writes : writes = UNION {written(f.group, f) : f \in FixturesOf(patch)}
  OBVIOUS
<1>2. PICK picked : picked = (CHOOSE w \in writes : w.ch = ch).value
  OBVIOUS
<1>3. ASSUME NEW b, ch \in DOMAIN b
      PROVE  /\ DOMAIN rendered(b) = DOMAIN b
             /\ rendered(b)[ch] = IF \E w \in writes : w.ch = ch THEN picked ELSE b[ch]
  BY <1>1, <1>2, <1>3, Zenon DEF rendered
<1>4. ASSUME NEW x \in writes, x.ch = ch
      PROVE  WrittenTo(ch, x.value)
  <2>1. PICK f \in FixturesOf(patch) : x \in written(f.group, f)
    BY <1>1
  <2> QED
    BY <1>4, <2>1, WrittenBy DEF WrittenTo
<1>5. ASSUME NEW val, WrittenTo(ch, val)
      PROVE  \E w \in writes : w.ch = ch
  <2>1. PICK f \in FixturesOf(patch) : \E w \in f.profile.writes :
            Happens(f.group, w) /\ ch = f.addr + w.ch /\ val = value(f.group, w)
    BY <1>5 DEF WrittenTo
  <2>2. PICK w \in f.profile.writes : Happens(f.group, w) /\ ch = f.addr + w.ch
    BY <2>1
  <2>3. PICK x : x = [ch |-> f.addr + w.ch, value |-> value(f.group, w)]
    OBVIOUS
  <2>4. x \in written(f.group, f) /\ x.ch = ch
    BY <2>2, <2>3, WrittenBy
  <2> QED
    BY <1>1, <2>4
<1>6. (\E w \in writes : w.ch = ch) => WrittenTo(ch, picked)
  <2> SUFFICES ASSUME \E w \in writes : w.ch = ch PROVE WrittenTo(ch, picked)
    OBVIOUS
  <2>1. PICK x : x = (CHOOSE w \in writes : w.ch = ch) 
    OBVIOUS
  <2>2. x \in writes /\ x.ch = ch
    BY <2>1
  <2> QED
    BY <1>2, <1>4, <2>1, <2>2
<1> QED
  BY <1>3, <1>5, <1>6

(***************************************************************************)
(* The invariant of the frame                                              *)
(***************************************************************************)
\* No group can set what is the strobe's, and whatever stands in the frame is
\* on a channel that one of the fixtures writes.
FInv ==
    /\ patch \in UNION Shows
    /\ DOMAIN on = Groups
    /\ \A g \in Groups : on[g] \cap Reserved = {}
    /\ DOMAIN frame = UNION {block(f) : f \in FixturesOf(patch)}
    /\ \A ch \in DOMAIN frame : frame[ch] # "zero" =>
        \E f \in FixturesOf(patch) : \E w \in f.profile.writes : ch = f.addr + w.ch

(* Fixtures are of groups, have profiles that are in order, and are apart. *)
LEMMA PatchedFixtures ==
    ASSUME patch \in UNION Shows, NEW f \in FixturesOf(patch)
    PROVE  /\ f.group \in Groups /\ f.addr \in Nat /\ ProfileOK(f.profile)
           /\ f.profile \in AllProfiles
           /\ \A other \in FixturesOf(patch) \ {f} :
                \/ block(f) \cap block(other) = {}
                \/ f.addr = other.addr /\ Overlaid(f.profile, other.profile)
<1>1. PICK show \in Shows : patch \in show
  OBVIOUS
<1>2. PICK g \in Groups : \E i \in DOMAIN patch[g].fixtures :
          f = [group |-> g, i |-> i, addr |-> patch[g].fixtures[i].addr,
               profile |-> patch[g].fixtures[i].profile]
  BY DEF FixturesOf, Groups
<1>3. f.profile \in AllProfiles /\ f.addr \in Nat /\ f.group \in Groups
  BY <1>1, <1>2, GroupsAssumption DEF Groups
<1>4. ProfileOK(f.profile)
  BY <1>3, ProfilesOK
<1>5. \A other \in FixturesOf(patch) \ {f} :
                \/ block(f) \cap block(other) = {}
                \/ f.addr = other.addr /\ Overlaid(f.profile, other.profile)
  BY <1>1, PatchedApart
<1> QED
  BY <1>3, <1>4, <1>5

(* A frame that is empty shows nothing on any fixture's channel.           *)
LEMMA EmptyFrame ==
    ASSUME NEW p
    PROVE  /\ DOMAIN empty_frame(p) = UNION {block(f) : f \in FixturesOf(p)}
           /\ \A ch \in DOMAIN empty_frame(p) : empty_frame(p)[ch] = "zero"
BY DEF empty_frame

(* The frame starts empty.                                                 *)
LEMMA InitFrame == Init => FInv
<1> SUFFICES ASSUME Init PROVE FInv
  OBVIOUS
<1>1. /\ patch \in UNION Shows /\ on = [g \in Groups |-> {}] /\ frame = empty_frame(patch)
  BY DEF Init
<1> QED
  BY <1>1, EmptyFrame DEF FInv

(* A step that changes neither the patch, nor switches, nor the frame.     *)
LEMMA SameFrame ==
    ASSUME FInv, UNCHANGED <<patch, on, frame>>
    PROVE  FInv'
BY DEF FInv, Groups, FixturesOf

(* Every step keeps the frame in order.                                    *)
LEMMA StepFrame == FInv /\ [Next]_vars => FInv'
<1> SUFFICES ASSUME FInv, [Next]_vars PROVE FInv'
  OBVIOUS
<1>1. ASSUME NEW g \in Groups, NEW s \in patch[g].switches, ToggleSwitch(g, s) PROVE FInv'
  <2>1. /\ UNCHANGED <<patch, frame>>
        /\ on' = [on EXCEPT ![g] = IF s \in @ THEN @ \ {s} ELSE @ \cup {s}]
    BY <1>1 DEF ToggleSwitch
  <2>2. s \notin Reserved
    BY GroupsAssumption DEF FInv, Groups
  <2>3. \A h \in Groups : on'[h] \cap Reserved = {}
    BY <2>1, <2>2 DEF FInv
  <2>4. DOMAIN on' = Groups /\ Groups' = Groups /\ FixturesOf(patch)' = FixturesOf(patch)
    BY <2>1 DEF FInv, Groups, FixturesOf
  <2> QED
    BY <2>1, <2>3, <2>4 DEF FInv
<1>2. ASSUME NEW g \in Groups, ToggleStrobe(g) PROVE FInv'
  BY <1>2, SameFrame DEF ToggleStrobe
<1>3. ASSUME NEW g \in Groups, NEW s \in patch[g].steps, EnqueueStep(g, s) PROVE FInv'
  BY <1>3, SameFrame DEF EnqueueStep
<1>4. ASSUME NEW g \in Groups, NEW choice, SelectChase(g, choice) PROVE FInv'
  BY <1>4, SameFrame DEF SelectChase
<1>5. CASE StrobeOn \/ FlashNow \/ Intensity
  BY <1>5, SameFrame DEF StrobeOn, FlashNow, Intensity, groupVars
<1>6. ASSUME NEW p \in UNION Shows, Repatch(p) PROVE FInv'
  <2> DEFINE before(g) == {h \in Groups : Reconfigured(patch[h], p[g])}
             kept(g) == before(g) # {}
             was(g) == CHOOSE h \in before(g) : TRUE
  <2>1. /\ patch' = p /\ frame' = empty_frame(p)
        /\ on' = [g \in DOMAIN p |-> IF kept(g) THEN on[was(g)] ELSE {}]
    BY <1>6 DEF Repatch
  <2>2. ASSUME NEW g \in DOMAIN p PROVE on'[g] \cap Reserved = {}
    <3>1. CASE kept(g)
      <4>1. was(g) \in Groups /\ on'[g] = on[was(g)]
        BY <2>1, <3>1
      <4> QED
        BY <4>1 DEF FInv
    <3>2. CASE ~kept(g)
      BY <2>1, <3>2
    <3> QED
      BY <3>1, <3>2
  <2>3. DOMAIN on' = DOMAIN p /\ Groups' = DOMAIN p /\ FixturesOf(patch)' = FixturesOf(p)
    BY <2>1 DEF Groups, FixturesOf
  <2> HIDE DEF before, kept, was
  <2> QED
    BY <2>1, <2>2, <2>3, EmptyFrame DEF FInv
<1>7. ASSUME NEW ticked \in BOOLEAN, update(ticked) PROVE FInv'
  BY <1>7, SameFrame DEF update
<1>8. CASE render
  <2>1. /\ UNCHANGED <<patch, on>> /\ frame' = rendered(frame)
    BY <1>8 DEF render
  <2>2. DOMAIN frame' = DOMAIN frame
    BY <2>1 DEF rendered
  <2>3. ASSUME NEW ch \in DOMAIN frame, frame'[ch] # "zero"
        PROVE  \E f \in FixturesOf(patch) : \E w \in f.profile.writes : ch = f.addr + w.ch
    BY <2>1, <2>3, Rendering DEF FInv, WrittenTo
  <2>4. Groups' = Groups /\ FixturesOf(patch)' = FixturesOf(patch)
    BY <2>1 DEF Groups, FixturesOf
  <2> QED
    BY <2>1, <2>2, <2>3, <2>4 DEF FInv
<1>9. CASE UNCHANGED vars
  BY <1>9, SameFrame DEF vars
<1>10. CASE \E show \in Shows : patch \in show /\ \E p \in show : Repatch(p)
  BY <1>6, <1>10
<1> QED
  BY <1>1, <1>2, <1>3, <1>4, <1>5, <1>7, <1>8, <1>9, <1>10 DEF Next

(* The frame is in order in every state.                                   *)
LEMMA FrameInvariant == Spec => []FInv
BY InitFrame, StepFrame, PTL DEF Spec

(***************************************************************************)
(* The theorems about frames                                               *)
(***************************************************************************)
(* A channel that a profile writes is written in every frame, the Comet's  *)
(* first excepted.                                                         *)
LEMMA AlwaysWritten ==
    ASSUME FInv, NEW f \in FixturesOf(patch), NEW w \in f.profile.writes,
           ~(f.profile.type = "Comet" /\ w.ch = 0)
    PROVE  \E v \in f.profile.writes : v.ch = w.ch /\ Happens(f.group, v)
<1>1. ProfileOK(f.profile)
  BY PatchedFixtures DEF FInv
<1>2. \E v \in f.profile.writes : v.ch = w.ch /\ Happening(v, switches(f.group))
  BY <1>1 DEF ProfileOK, Whole, Complete
<1> QED
  BY <1>2, HappensIs

(* For any patches, frames show nothing of the frame before, whatever      *)
(* controls have changed (Show::render, which never empties the buffer):   *)
(* every channel that some profile's render function writes under one      *)
(* condition, it writes under every condition. The Comet's first channel   *)
(* is the exception.                                                       *)
THEOREM FramesAreFresh == Spec => NothingStale
<1>1. FInv /\ render =>
        \A ch \in DOMAIN frame \ Unwritten :
            frame'[ch] = rendered(empty_frame(patch))[ch]
  <2> SUFFICES ASSUME FInv, render, NEW ch \in DOMAIN frame, ch \notin Unwritten
               PROVE  frame'[ch] = rendered(empty_frame(patch))[ch]
    OBVIOUS
  <2>1. frame' = rendered(frame)
    BY DEF render
  <2>2. PICK empty : empty = empty_frame(patch)
    OBVIOUS
  <2>3. ch \in DOMAIN empty /\ empty[ch] = "zero"
    BY <2>2, EmptyFrame DEF FInv
  <2>4. CASE \E val : WrittenTo(ch, val)
    BY <2>1, <2>2, <2>3, <2>4, Rendering
  <2>5. CASE \A val : ~WrittenTo(ch, val)
    <3>1. frame'[ch] = frame[ch] /\ rendered(empty)[ch] = "zero"
      BY <2>1, <2>3, <2>5, Rendering
    <3>2. ASSUME frame[ch] # "zero" PROVE FALSE
      <4>1. PICK f \in FixturesOf(patch) : \E w \in f.profile.writes : ch = f.addr + w.ch
        BY <3>2 DEF FInv
      <4>2. PICK w \in f.profile.writes : ch = f.addr + w.ch
        BY <4>1
      <4>3. ~(f.profile.type = "Comet" /\ w.ch = 0)
        <5>1. f.addr \in Nat
          BY PatchedFixtures DEF FInv
        <5> QED
          BY <4>2, <5>1 DEF Unwritten
      <4>4. PICK v \in f.profile.writes : v.ch = w.ch /\ Happens(f.group, v)
        BY <4>3, AlwaysWritten
      <4>5. WrittenTo(ch, value(f.group, v))
        BY <4>2, <4>4 DEF WrittenTo
      <4> QED
        BY <2>5, <4>5
    <3> QED
      BY <2>2, <3>1, <3>2
  <2> QED
    BY <2>4, <2>5
<1> QED
  BY <1>1, FrameInvariant, PTL DEF NothingStale

(* All that a fixture writes lies in its block.                            *)
LEMMA InBlock ==
    ASSUME FInv, NEW f \in FixturesOf(patch), NEW w \in f.profile.writes
    PROVE  f.addr + w.ch \in block(f)
<1>1. f.addr \in Nat /\ f.profile.count \in Nat /\ w.ch \in 0 .. f.profile.count - 1
  BY PatchedFixtures DEF FInv, ProfileOK, Whole
<1> QED
  BY <1>1 DEF block

(* No two fixtures have a channel in common that both write.               *)
LEMMA ApartWrites ==
    ASSUME FInv, NEW f \in FixturesOf(patch), NEW other \in FixturesOf(patch), other # f,
           NEW v \in f.profile.writes, NEW w \in other.profile.writes
    PROVE  f.addr + v.ch # other.addr + w.ch
<1>1. \/ block(f) \cap block(other) = {}
      \/ f.addr = other.addr /\ Overlaid(f.profile, other.profile)
  BY PatchedFixtures DEF FInv
<1>2. CASE block(f) \cap block(other) = {}
  BY <1>2, InBlock
<1>3. CASE f.addr = other.addr /\ Overlaid(f.profile, other.profile)
  <2>1. v.ch # w.ch
    BY <1>3, OverlaidApart
  <2>2. f.addr \in Nat /\ v.ch \in Int /\ w.ch \in Int
    BY PatchedFixtures DEF FInv, ProfileOK, Whole
  <2> QED
    BY <1>3, <2>1, <2>2
<1> QED
  BY <1>1, <1>2, <1>3

(* For any patches that are apart, each channel of a frame is written      *)
(* from one control and by one fixture, in its block                       *)
(* (FixtureGroup::render and the render functions of all profiles).        *)
THEOREM WritesDoNotCollide == Spec => []OneWriter
<1>1. FInv => OneWriter
  <2> SUFFICES ASSUME FInv, NEW f \in FixturesOf(patch)
               PROVE  LET channels(h) == {w.ch : w \in written(h.group, h)} IN
                      /\ \A w1, w2 \in {w \in f.profile.writes : Happens(f.group, w)} :
                            w1.ch = w2.ch => w1.from = w2.from
                      /\ channels(f) \subseteq block(f)
                      /\ \A other \in FixturesOf(patch) \ {f} :
                            channels(f) \cap channels(other) = {}
    BY DEF OneWriter
  <2>1. \A w1, w2 \in {w \in f.profile.writes : Happens(f.group, w)} :
            w1.ch = w2.ch => w1.from = w2.from
    <3>1. OneSource(f.profile.writes)
      BY PatchedFixtures DEF FInv, ProfileOK, Whole
    <3>2. PICK S : S = switches(f.group)
      OBVIOUS
    <3>3. \A w \in f.profile.writes : Happens(f.group, w) <=> Happening(w, S)
      BY <3>2, HappensIs
    <3>4. \A v, w \in f.profile.writes :
            v.ch = w.ch /\ Happening(v, S) /\ Happening(w, S) => v.from = w.from
      BY <3>1 DEF OneSource
    <3>5. ASSUME NEW w1 \in {w \in f.profile.writes : Happens(f.group, w)},
                 NEW w2 \in {w \in f.profile.writes : Happens(f.group, w)},
                 w1.ch = w2.ch
          PROVE  w1.from = w2.from
      BY <3>3, <3>4, <3>5
    <3> QED
      BY <3>5
  <2>2. ASSUME NEW h, NEW ch \in {w.ch : w \in written(h.group, h)}
        PROVE  \E w \in h.profile.writes : ch = h.addr + w.ch
    BY WrittenBy
  <2>3. {w.ch : w \in written(f.group, f)} \subseteq block(f)
    BY <2>2, InBlock
  <2>4. ASSUME NEW other \in FixturesOf(patch) \ {f},
               NEW ch \in {w.ch : w \in written(f.group, f)},
               ch \in {w.ch : w \in written(other.group, other)}
        PROVE  FALSE
    <3>1. PICK v \in f.profile.writes : ch = f.addr + v.ch
      BY <2>2
    <3>2. PICK w \in other.profile.writes : ch = other.addr + w.ch
      BY <2>2, <2>4
    <3> QED
      BY <3>1, <3>2, ApartWrites
  <2> QED
    BY <2>1, <2>3, <2>4
<1> QED
  BY <1>1, FrameInvariant, PTL

(* For any patches, between flashes the light of a group under the strobe  *)
(* is dark in every frame (control_strobed and strobe_intensity, in the    *)
(* render functions of all profiles but the Hypnotic's and the Comet's).   *)
THEOREM DarkBetweenFlashes == Spec => BlackBetweenFlashes
<1>1. FInv /\ render =>
        \A f \in FixturesOf(patch) :
            /\ strobe_enabled[f.group] /\ strobe_on /\ flash[f.group] = Off
            /\ f.profile.type \notin {"Hypnotic", "Comet"}
            /\ "organ" \notin on[f.group]
            => \A ch \in StrobedLight(f) : frame'[ch] = "zero"
  <2> SUFFICES ASSUME FInv, render, NEW f \in FixturesOf(patch),
                      strobe_enabled[f.group], strobe_on, flash[f.group] = Off,
                      f.profile.type \notin {"Hypnotic", "Comet"},
                      "organ" \notin on[f.group], NEW ch \in StrobedLight(f)
               PROVE  frame'[ch] = "zero"
    OBVIOUS
  <2>1. PICK w \in f.profile.writes : w.from = f.profile.light /\ ch = f.addr + w.ch
    BY DEF StrobedLight
  <2>2. ch \in DOMAIN frame
    BY <2>1, InBlock DEF FInv
  <2>3. WrittenTo(ch, frame'[ch])
    <3>1. PICK v \in f.profile.writes : v.ch = w.ch /\ Happens(f.group, v)
      BY <2>1, AlwaysWritten
    <3>2. WrittenTo(ch, value(f.group, v))
      BY <2>1, <3>1 DEF WrittenTo
    <3> QED
      BY <2>2, <3>2, Rendering DEF render
  <2>4. PICK h \in FixturesOf(patch) : \E v \in h.profile.writes :
            Happens(h.group, v) /\ ch = h.addr + v.ch /\ frame'[ch] = value(h.group, v)
    BY <2>3 DEF WrittenTo
  <2>5. PICK v \in h.profile.writes :
            Happens(h.group, v) /\ ch = h.addr + v.ch /\ frame'[ch] = value(h.group, v)
    BY <2>4
  <2>6. h = f
    BY <2>1, <2>5, ApartWrites
  <2>7. v.ch = w.ch
    <3>1. f.addr \in Nat /\ v.ch \in Int /\ w.ch \in Int
      BY <2>6, PatchedFixtures DEF FInv, ProfileOK, Whole
    <3> QED
      BY <2>1, <2>5, <2>6, <3>1
  <2>8. DarkWrite(v)
    BY <2>1, <2>6, <2>7, PatchedFixtures DEF FInv, ProfileOK, Whole, Dark
  <2>9. /\ "strobe" \in switches(f.group)
        /\ "organ" \notin switches(f.group) /\ "flash" \notin switches(f.group)
    <3>1. f.group \in Groups
      BY PatchedFixtures DEF FInv
    <3>2. on[f.group] \cap Reserved = {}
      BY <3>1 DEF FInv
    <3> QED
      BY <3>2 DEF switches, Overridden, Flashing, Reserved
  <2>10. v.from \in {"strobe", "zero"}
    BY <2>5, <2>6, <2>8, <2>9 DEF Happens, DarkWrite
  <2> QED
    BY <2>5, <2>6, <2>10 DEF value, Flashing
<1> QED
  BY <1>1, FrameInvariant, PTL DEF BlackBetweenFlashes

(***************************************************************************)
(* The chases of the arrays                                                *)
(***************************************************************************)
\* A chase that can be run: there are patterns, none of them is of no cells,
\* and parts, and none of them is offset backwards.
Patterns == Seq((SUBSET Int) \ {{}}) \ {<<>>}
Offsets == UNION {[1 .. m -> Nat] : m \in Nat \ {0}}
ChaseOK(chase) ==
    /\ chase.patterns \in Patterns
    /\ chase.reversible \in BOOLEAN
    /\ chase.offsets \in Offsets

(* A function on 1 .. n is a sequence of length n.                         *)
LEMMA MakesSeq ==
    ASSUME NEW S, NEW n \in Nat, NEW f \in [1 .. n -> S]
    PROVE  f \in Seq(S) /\ Len(f) = n /\ DOMAIN f = 1 .. n
BY SeqDef, LenProperties

\* The cells of a chase of single cells, in order.
Runs == Seq(Int) \ {<<>>}

(* The cells from one to another, upwards and downwards.                   *)
LEMMA UpRun ==
    ASSUME NEW a \in Int, NEW b \in Int, a <= b
    PROVE  Up(a, b) \in Runs /\ Len(Up(a, b)) = b - a + 1 /\ Down(b, a) \in Runs
<1>0. Len(<<>>) = 0 /\ b - a + 1 > 0
  OBVIOUS
<1>1. b - a + 1 \in Nat /\ Up(a, b) \in [1 .. b - a + 1 -> Int]
  BY DEF Up
<1>2. Up(a, b) \in Seq(Int) /\ Len(Up(a, b)) = b - a + 1
  BY <1>1, MakesSeq
<1>3. Down(b, a) \in [1 .. b - a + 1 -> Int]
  BY <1>1, <1>2 DEF Down, Reverse
<1>4. Down(b, a) \in Seq(Int) /\ Len(Down(b, a)) = b - a + 1
  BY <1>1, <1>3, MakesSeq
<1> QED
  BY <1>0, <1>2, <1>4 DEF Runs

(* One run after another.                                                  *)
LEMMA ThenRun ==
    ASSUME NEW s \in Runs, NEW t \in Runs
    PROVE  s \o t \in Runs
<1>1. s \o t \in Seq(Int) /\ Len(s \o t) = Len(s) + Len(t)
  BY ConcatProperties DEF Runs
<1>2. Len(s) \in Nat \ {0} /\ Len(t) \in Nat /\ Len(<<>>) = 0
  BY LenProperties, EmptySeq DEF Runs
<1> QED
  BY <1>1, <1>2 DEF Runs

(* Patterns of one cell each.                                              *)
LEMMA SinglesOK ==
    ASSUME NEW cells \in Runs
    PROVE  singles(cells) \in Patterns
<1>1. Len(cells) \in Nat \ {0} /\ DOMAIN cells = 1 .. Len(cells) /\ cells \in Seq(Int)
  BY EmptySeq, LenProperties DEF Runs
<1>2. singles(cells) \in [1 .. Len(cells) -> (SUBSET Int) \ {{}}]
  BY <1>1 DEF singles
<1>3. singles(cells) \in Seq((SUBSET Int) \ {{}}) /\ Len(singles(cells)) = Len(cells)
  BY <1>1, <1>2, MakesSeq
<1> QED
  BY <1>1, <1>3 DEF Patterns

(* The patterns of two cells that move apart.                              *)
LEMMA SpreadOK ==
    ASSUME NEW n \in {10, 16}
    PROVE  two_flash_spread(n) \in Patterns /\ Len(two_flash_spread(n)) = n \div 2
<1>1. PICK h : h = n \div 2 /\ h \in {5, 8}
  OBVIOUS
<1>2. two_flash_spread(n) \in [1 .. h -> (SUBSET Int) \ {{}}]
  BY <1>1 DEF two_flash_spread
<1>3. two_flash_spread(n) \in Seq((SUBSET Int) \ {{}}) /\ Len(two_flash_spread(n)) = h
  BY <1>1, <1>2, MakesSeq
<1> QED
  BY <1>1, <1>3 DEF Patterns

(* The same, and back.                                                     *)
LEMMA SpreadBounceOK ==
    ASSUME NEW n \in {10, 16}, NEW back \in 1 .. n \div 2 - 2
    PROVE  SpreadBounce(n, back) \in Patterns
<1> DEFINE S == (SUBSET Int) \ {{}}
<1>1. PICK h : h = n \div 2 /\ h \in {5, 8}
  OBVIOUS
<1>2. PICK t : t = two_flash_spread(n) /\ t \in Seq(S) /\ Len(t) = h
  BY <1>1, SpreadOK DEF Patterns
<1>3. PICK r : r = Reverse(t)
  OBVIOUS
<1>4. r \in Seq(S) /\ Len(r) = h
  <2>1. r \in [1 .. h -> S]
    BY <1>1, <1>2, <1>3, ElementOfSeq DEF Reverse
  <2> QED
    BY <1>1, <2>1, MakesSeq
<1>5. SubSeq(r, 2, 1 + back) \in Seq(S)
  <2>1. \A i \in 2 .. 1 + back : i \in 1 .. Len(r)
    BY <1>1, <1>4
  <2> QED
    BY <1>1, <1>4, <2>1, SubSeqProperties
<1> HIDE DEF S
<1>6. t \o SubSeq(r, 2, 1 + back) \in Seq(S)
      /\ Len(t \o SubSeq(r, 2, 1 + back)) = Len(t) + Len(SubSeq(r, 2, 1 + back))
  BY <1>2, <1>5, ConcatProperties
<1>7. Len(t \o SubSeq(r, 2, 1 + back)) # 0
  BY <1>1, <1>2, <1>5, <1>6, LenProperties
<1>8. SpreadBounce(n, back) = t \o SubSeq(r, 2, 1 + back)
  BY <1>2, <1>3 DEF SpreadBounce
<1>9. Len(<<>>) = 0
  OBVIOUS
<1>10. t \o SubSeq(r, 2, 1 + back) # <<>>
  BY <1>7, <1>9
<1> QED
  BY <1>6, <1>8, <1>10 DEF Patterns, S

(* A chase with a part for each segment (with_mult_auto).                  *)
LEMMA AutoOK ==
    ASSUME NEW patterns \in Patterns, NEW n \in {5, 10, 16}, NEW mult \in {1, 2, 4}
    PROVE  ChaseOK(with_mult_auto(patterns, mult, n))
<1>1. [k \in 1 .. mult |-> (k - 1) * (n \div mult)] \in Offsets
  <2>1. \A k \in 1 .. mult : (k - 1) * (n \div mult) \in Nat
    OBVIOUS
  <2> QED
    BY <2>1 DEF Offsets
<1> QED
  BY <1>1 DEF with_mult_auto, Chase, ChaseOK

(* The offsets of chases of one part, and of the mirrored ones.            *)
LEMMA SingleOffset == <<0>> \in Offsets /\ <<0, 9>> \in Offsets
<1>1. <<0>> \in [1 .. 1 -> Nat] /\ <<0, 9>> \in [1 .. 2 -> Nat]
  OBVIOUS
<1>2. 1 \in Nat \ {0} /\ 2 \in Nat \ {0}
  OBVIOUS
<1> QED
  BY <1>1, <1>2, Zenon DEF Offsets

(* A random chase.                                                         *)
LEMMA RandomOK ==
    ASSUME NEW n \in {5, 10, 16}, NEW mult \in {1, 2, 4}
    PROVE  ChaseOK(RandomPattern(mult, n))
<1>1. PICK h : h = n \div mult /\ h \in Nat \ {0}
  OBVIOUS
<1>2. PICK p : p = [i \in 1 .. h |-> ((i - 1) * mult) .. (i * mult - 1)]
  OBVIOUS
<1>3. p \in [1 .. h -> (SUBSET Int) \ {{}}]
  <2>1. \A i \in 1 .. h : (i - 1) * mult \in ((i - 1) * mult) .. (i * mult - 1)
    OBVIOUS
  <2>2. \A i \in 1 .. h :
            ((i - 1) * mult) .. (i * mult - 1) \in (SUBSET Int) \ {{}}
    BY <2>1
  <2> QED
    BY <1>2, <2>2
<1>4. p \in Patterns
  BY <1>1, <1>3, MakesSeq DEF Patterns
<1> QED
  BY <1>1, <1>2, <1>4, SingleOffset DEF RandomPattern, ChaseOK

(* A chase is in order if its patterns and its offsets are.                *)
LEMMA OfChase ==
    ASSUME NEW patterns \in Patterns, NEW offsets \in Offsets
    PROVE  ChaseOK(Chase(patterns, offsets))
BY DEF ChaseOK, Chase

(* The chase in which all cells flash.                                     *)
LEMMA EveryOK ==
    ASSUME NEW n \in Nat \ {0}
    PROVE  ChaseOK(Every(n))
<1>1. 0 \in 0 .. n - 1
  OBVIOUS
<1>2. 0 .. n - 1 \in (SUBSET Int) \ {{}}
  BY <1>1
<1>3. <<0 .. n - 1>> \in Patterns
  BY <1>2 DEF Patterns
<1> QED
  BY <1>3, SingleOffset, OfChase DEF Every

\* The first chase runs through all n cells, in mult parts.
FirstOK(n, chase) ==
    \E mult \in {1, 2, 4} :
        /\ <<n, mult>> \in {<<16, 1>>, <<16, 2>>, <<16, 4>>, <<5, 1>>, <<10, 1>>, <<10, 2>>}
        /\ chase.patterns = singles(Up(0, n - 1))
        /\ chase.offsets = [k \in 1 .. mult |-> (k - 1) * (n \div mult)]
        /\ chase.reversible

\* With every multiplier there are the same number of chases, all in order.
ArrayOK(array) ==
    /\ 1 \in DOMAIN array.chases
    /\ len(array) \in Nat \ {0}
    /\ array.chases[1][1].offsets = <<0>>
    /\ \A m \in DOMAIN array.chases :
        /\ FirstOK(array.cells, array.chases[m][1])
        /\ \A c \in 1 .. len(array) : ChaseOK(array.chases[m][c])

(* The first chase of all arrays.                                          *)
LEMMA FirstChase ==
    ASSUME NEW n \in {5, 10, 16}, NEW mult \in {1, 2, 4},
           <<n, mult>> \in {<<16, 1>>, <<16, 2>>, <<16, 4>>, <<5, 1>>, <<10, 1>>, <<10, 2>>}
    PROVE  /\ ChaseOK(with_mult_auto(singles(Up(0, n - 1)), mult, n))
           /\ FirstOK(n, with_mult_auto(singles(Up(0, n - 1)), mult, n))
           /\ mult = 1 =>
                with_mult_auto(singles(Up(0, n - 1)), mult, n).offsets = <<0>>
<1>1. 0 \in Int /\ n - 1 \in Int /\ 0 <= n - 1
  OBVIOUS
<1>2. Up(0, n - 1) \in Runs
  BY <1>1, UpRun, Zenon
<1>3. PICK patterns : patterns = singles(Up(0, n - 1))
  OBVIOUS
<1>4. patterns \in Patterns
  BY <1>2, <1>3, SinglesOK
<1>5. PICK chase : chase = with_mult_auto(patterns, mult, n)
  OBVIOUS
<1>6. /\ ChaseOK(chase) /\ chase.patterns = patterns /\ chase.reversible
      /\ chase.offsets = [k \in 1 .. mult |-> (k - 1) * (n \div mult)]
  <2>1. ChaseOK(chase)
    BY <1>4, <1>5, AutoOK
  <2> QED
    BY <1>5, <2>1 DEF with_mult_auto, Chase
<1>7. FirstOK(n, chase)
  BY <1>3, <1>6, Zenon DEF FirstOK
<1>8. mult = 1 => chase.offsets = <<0>>
  BY <1>6
<1> QED
  BY <1>3, <1>5, <1>6, <1>7, <1>8

(* The runs that the arrays use.                                           *)
LEMMA SomeRuns ==
    /\ Up(0, 15) \in Runs /\ Down(14, 1) \in Runs
    /\ Up(0, 4) \in Runs /\ Down(3, 1) \in Runs /\ Down(3, 0) \in Runs
    /\ Up(5, 9) \in Runs /\ Down(8, 5) \in Runs /\ Down(4, 0) \in Runs
    /\ Up(1, 4) \in Runs /\ Down(9, 5) \in Runs /\ Up(6, 9) \in Runs
    /\ Up(0, 9) \in Runs /\ Down(8, 1) \in Runs
<1>1. \A a, b \in 0 .. 15 : a \in Int /\ b \in Int
  OBVIOUS
<1>2. \A a, b \in 0 .. 15 : a <= b => Up(a, b) \in Runs /\ Down(b, a) \in Runs
  BY <1>1, UpRun, Zenon
<1>3. /\ 0 \in 0 .. 15 /\ 1 \in 0 .. 15 /\ 3 \in 0 .. 15 /\ 4 \in 0 .. 15
      /\ 5 \in 0 .. 15 /\ 6 \in 0 .. 15 /\ 8 \in 0 .. 15 /\ 9 \in 0 .. 15
      /\ 14 \in 0 .. 15 /\ 15 \in 0 .. 15
  OBVIOUS
<1>4. /\ 0 <= 15 /\ 1 <= 14 /\ 0 <= 4 /\ 1 <= 3 /\ 0 <= 3 /\ 5 <= 9 /\ 5 <= 8
      /\ 1 <= 4 /\ 6 <= 9 /\ 0 <= 9 /\ 1 <= 8
  OBVIOUS
<1> QED
  BY <1>2, <1>3, <1>4, Zenon

(* The chases of the FreqStrobe.                                           *)
LEMMA FreqStrobeArrayOK == ArrayOK(FreqStrobeArray)
<1> DEFINE chases(m) == <<
            with_mult_auto(singles(Up(0, 15)), m, 16),
            with_mult_auto(singles(Up(0, 15) \o Down(14, 1)), m, 16),
            with_mult_auto(two_flash_spread(16), m, 16),
            with_mult_auto(SpreadBounce(16, 6), m, 16),
            RandomPattern(m, 16)>>
<1>1. ASSUME NEW m \in {1, 2, 4}
      PROVE  /\ Len(chases(m)) = 5
             /\ FirstOK(16, chases(m)[1])
             /\ m = 1 => chases(m)[1].offsets = <<0>>
             /\ \A c \in 1 .. 5 : ChaseOK(chases(m)[c])
  <2>1. PICK c1 : c1 = with_mult_auto(singles(Up(0, 15)), m, 16) 
    OBVIOUS
  <2>2. ChaseOK(c1) /\ FirstOK(16, c1) /\ (m = 1 => c1.offsets = <<0>>)
    <3>1. 16 - 1 = 15 /\ <<16, m>> \in {<<16, 1>>, <<16, 2>>, <<16, 4>>, <<5, 1>>, <<10, 1>>, <<10, 2>>}
      OBVIOUS
    <3> QED
      BY <2>1, <3>1, FirstChase
  <2>3. PICK c2 : c2 = with_mult_auto(singles(Up(0, 15) \o Down(14, 1)), m, 16) 
    OBVIOUS
  <2>4. ChaseOK(c2)
    <3>1. singles(Up(0, 15) \o Down(14, 1)) \in Patterns
      BY SomeRuns, ThenRun, SinglesOK, Zenon
    <3> QED
      BY <2>3, <3>1, AutoOK
  <2>5. PICK c3 : c3 = with_mult_auto(two_flash_spread(16), m, 16)
    OBVIOUS
  <2>6. ChaseOK(c3)
    BY <2>5, SpreadOK, AutoOK
  <2>7. PICK c4 : c4 = with_mult_auto(SpreadBounce(16, 6), m, 16)
    OBVIOUS
  <2>8. ChaseOK(c4)
    <3>1. 6 \in 1 .. 16 \div 2 - 2
      OBVIOUS
    <3> QED
      BY <2>7, <3>1, SpreadBounceOK, AutoOK
  <2>9. PICK c5 : c5 = RandomPattern(m, 16)
    OBVIOUS
  <2>10. ChaseOK(c5)
    BY <2>9, RandomOK
  <2>11. chases(m) = <<c1, c2, c3, c4, c5>>
    BY <2>1, <2>3, <2>5, <2>7, <2>9
  <2> HIDE DEF chases
  <2> QED
    BY <2>2, <2>4, <2>6, <2>8, <2>10, <2>11
<1>2. FreqStrobeArray = Array(16, 3, <<chases(1), chases(2), chases(4)>>)
  BY Zenon DEF FreqStrobeArray
<1> HIDE DEF chases
<1> QED
  BY <1>1, <1>2 DEF Array, ArrayOK, len

(* The chases of the FlashBang.                                            *)
LEMMA FlashBangArrayOK == ArrayOK(FlashBangArray)
<1>1. PICK c1 : c1 = with_mult_auto(singles(Up(0, 4)), 1, 5)
  OBVIOUS
<1>2. ChaseOK(c1) /\ FirstOK(5, c1) /\ c1.offsets = <<0>>
  <2>1. 5 - 1 = 4
    OBVIOUS
  <2> QED
    BY <1>1, <2>1, FirstChase
<1>3. PICK c2 : c2 = with_mult_auto(singles(Up(0, 4) \o Down(3, 1)), 1, 5)
  OBVIOUS
<1>4. ChaseOK(c2)
  <2>1. singles(Up(0, 4) \o Down(3, 1)) \in Patterns
    BY SomeRuns, ThenRun, SinglesOK, Zenon
  <2> QED
    BY <1>3, <2>1, AutoOK
<1>5. PICK c3, c4 : c3 = RandomPattern(1, 5) /\ c4 = Every(5)
  OBVIOUS
<1>6. ChaseOK(c3)
  BY <1>5, RandomOK
<1>7. ChaseOK(c4)
  BY <1>5, EveryOK
<1>8. FlashBangArray = Array(5, 2, << <<c1, c2, c3, c4>> >>)
  BY <1>1, <1>3, <1>5 DEF FlashBangArray
<1> QED
  BY <1>2, <1>4, <1>6, <1>7, <1>8 DEF Array, ArrayOK, len

(* The chases of two FlashBangs.                                           *)
LEMMA FlashBangPairedArrayOK == ArrayOK(FlashBangPairedArray)
<1>1. PICK a1, b1 : /\ a1 = with_mult_auto(singles(Up(0, 9)), 1, 10)
                    /\ b1 = with_mult_auto(singles(Up(0, 9)), 2, 10)
  OBVIOUS
<1>2. /\ ChaseOK(a1) /\ FirstOK(10, a1) /\ a1.offsets = <<0>>
      /\ ChaseOK(b1) /\ FirstOK(10, b1)
  <2>1. 10 - 1 = 9
    OBVIOUS
  <2> QED
    BY <1>1, <2>1, FirstChase
<1>3. singles(BounceOutIn) \in Patterns /\ singles(BounceInOut) \in Patterns
      /\ singles(Up(0, 9) \o Down(8, 1)) \in Patterns
  <2>1. PICK a, b, c, d : a = Up(0, 4) /\ b = Down(3, 0) /\ c = Up(5, 9) /\ d = Down(8, 5)
    OBVIOUS
  <2>2. a \in Runs /\ b \in Runs /\ c \in Runs /\ d \in Runs
    BY <2>1, SomeRuns
  <2>3. a \o b \o c \o d \in Runs
    BY <2>2, ThenRun, Zenon
  <2>4. BounceOutIn = a \o b \o c \o d
    BY <2>1 DEF BounceOutIn
  <2>5. PICK e, f, g, h : e = Down(4, 0) /\ f = Up(1, 4) /\ g = Down(9, 5) /\ h = Up(6, 9)
    OBVIOUS
  <2>6. e \in Runs /\ f \in Runs /\ g \in Runs /\ h \in Runs
    BY <2>5, SomeRuns
  <2>7. e \o f \o g \o h \in Runs
    BY <2>6, ThenRun, Zenon
  <2>8. BounceInOut = e \o f \o g \o h
    BY <2>5 DEF BounceInOut
  <2>9. singles(Up(0, 9) \o Down(8, 1)) \in Patterns
    BY SomeRuns, ThenRun, SinglesOK, Zenon
  <2> QED
    BY <2>3, <2>4, <2>7, <2>8, <2>9, SinglesOK
<1>4. <<0>> \in Offsets /\ <<0, 9>> \in Offsets
  BY SingleOffset
<1>5. PICK a2, a3, a4, a5, a6 :
          /\ a2 = Chase(singles(BounceOutIn), <<0>>)
          /\ a3 = Chase(singles(BounceInOut), <<0>>)
          /\ a4 = Chase(singles(Up(0, 9) \o Down(8, 1)), <<0>>)
          /\ a5 = RandomPattern(1, 10)
          /\ a6 = Chase(<<0 .. 4, 5 .. 9>>, <<0>>)
  OBVIOUS
<1>6. PICK b2, b3, b4, b5, b6 :
          /\ b2 = Chase(singles(BounceOutIn), <<0, 9>>)
          /\ b3 = Chase(singles(BounceInOut), <<0, 9>>)
          /\ b4 = Chase(SpreadBounce(10, 3), <<0>>)
          /\ b5 = RandomPattern(2, 10)
          /\ b6 = Every(10)
  OBVIOUS
<1>7. ChaseOK(a2) /\ ChaseOK(a3) /\ ChaseOK(a4) /\ ChaseOK(b2) /\ ChaseOK(b3)
  BY <1>3, <1>4, <1>5, <1>6, OfChase
<1>8. ChaseOK(b4)
  <2>1. 3 \in 1 .. 10 \div 2 - 2
    OBVIOUS
  <2> QED
    BY <1>4, <1>6, <2>1, SpreadBounceOK, OfChase
<1>9. ChaseOK(a5) /\ ChaseOK(b5)
  BY <1>5, <1>6, RandomOK
<1>10. ChaseOK(b6)
  BY <1>6, EveryOK
<1>11. ChaseOK(a6)
  <2>1. 0 \in 0 .. 4 /\ 5 \in 5 .. 9
    OBVIOUS
  <2>2. 0 .. 4 \in (SUBSET Int) \ {{}} /\ 5 .. 9 \in (SUBSET Int) \ {{}}
    BY <2>1
  <2>3. <<0 .. 4, 5 .. 9>> \in Patterns
    BY <2>2 DEF Patterns
  <2> QED
    BY <1>4, <1>5, <2>3, OfChase
<1>12. FlashBangPairedArray
           = Array(10, 2, <<<<a1, a2, a3, a4, a5, a6>>, <<b1, b2, b3, b4, b5, b6>>>>)
  BY <1>1, <1>5, <1>6 DEF FlashBangPairedArray
<1> QED
  BY <1>2, <1>7, <1>8, <1>9, <1>10, <1>11, <1>12 DEF Array, ArrayOK, len

(***************************************************************************)
(* The flasher                                                             *)
(***************************************************************************)
\* Where the parts of a chase are: each at one of its patterns, and those of
\* the first chase as far apart as their offsets.
InStep(n, offsets, next) ==
    \E p \in 0 .. n - 1 :
        \A k \in DOMAIN offsets : next[k] = 1 + ((p + offsets[k]) % n)
Positions(array, selected, next) ==
    /\ next \in [DOMAIN chase_mut(array, selected).offsets
                    -> 1 .. Len(chase_mut(array, selected).patterns)]
    /\ selected.chase = 1 =>
        InStep(array.cells, chase_mut(array, selected).offsets, next)
\* What the parts light.
Lights(array, selected, lit) ==
    /\ lit # {}
    /\ selected.chase = 1 =>
        \E p \in 0 .. array.cells - 1 :
            lit = {(p + chase_mut(array, selected).offsets[k]) % array.cells :
                      k \in DOMAIN chase_mut(array, selected).offsets}

Selects(array, selected) ==
    /\ selected = [chase |-> selected.chase, mult |-> selected.mult]
    /\ selected.chase \in 1 .. len(array)

(* What is needed of the chase that is selected.                           *)
LEMMA Selected ==
    ASSUME NEW array, ArrayOK(array), NEW selected, Selects(array, selected),
           Exists(array, selected), NEW chase, chase = chase_mut(array, selected)
    PROVE  /\ chase.patterns \in Patterns /\ chase.offsets \in Offsets
           /\ selected.chase = 1 => FirstOK(array.cells, chase)
BY DEF ArrayOK, Selects, Exists, chase_mut, ChaseOK

(* Every pattern has cells, and there are parts to run.                    *)
LEMMA Ranges ==
    ASSUME NEW patterns \in Patterns, NEW offsets \in Offsets
    PROVE  /\ Len(patterns) \in Nat \ {0} /\ DOMAIN patterns = 1 .. Len(patterns)
           /\ \A i \in 1 .. Len(patterns) : patterns[i] # {}
           /\ DOMAIN offsets # {} /\ \A k \in DOMAIN offsets : offsets[k] \in Nat
<1>1. Len(patterns) \in Nat \ {0} /\ DOMAIN patterns = 1 .. Len(patterns)
  BY EmptySeq, LenProperties DEF Patterns
<1>2. \A i \in 1 .. Len(patterns) : patterns[i] \in (SUBSET Int) \ {{}}
  BY <1>1, ElementOfSeq DEF Patterns
<1>3. PICK m \in Nat \ {0} : offsets \in [1 .. m -> Nat]
  BY DEF Offsets
<1>4. 1 \in DOMAIN offsets /\ \A k \in DOMAIN offsets : offsets[k] \in Nat
  BY <1>3
<1> QED
  BY <1>1, <1>2, <1>4

(* The pattern after one is one.                                           *)
LEMMA NextIn ==
    ASSUME NEW i \in Nat, NEW n \in Nat, n > 0
    PROVE  1 + (i % n) \in 1 .. n
OBVIOUS

(* No offset is the first pattern.                                         *)
LEMMA Wrap ==
    ASSUME NEW n \in Nat \ {0}
    PROVE  1 + (0 % n) = 1
<1>1. n \in Nat /\ n > 0 /\ 0 \in Int
  OBVIOUS
<1>2. 0 = n * 0 + 0 /\ 0 <= 0 /\ 0 < n
  BY <1>1
<1>3. 0 % n = 0
  BY <1>1, <1>2
<1> QED
  BY <1>3

(* What there is to know of a first chase.                                 *)
LEMMA FirstIs ==
    ASSUME NEW n, NEW chase, FirstOK(n, chase)
    PROVE  /\ n \in {5, 10, 16} /\ Len(chase.patterns) = n /\ chase.reversible
           /\ \A i \in 1 .. n : chase.patterns[i] = {i - 1}
           /\ \A k \in DOMAIN chase.offsets : chase.offsets[k] \in 0 .. n - 1
<1>1. PICK mult \in {1, 2, 4} :
        /\ <<n, mult>> \in {<<16, 1>>, <<16, 2>>, <<16, 4>>, <<5, 1>>, <<10, 1>>, <<10, 2>>}
        /\ chase.patterns = singles(Up(0, n - 1))
        /\ chase.offsets = [k \in 1 .. mult |-> (k - 1) * (n \div mult)]
        /\ chase.reversible
  BY DEF FirstOK
<1>2. n \in {5, 10, 16}
  BY <1>1
<1>3. Up(0, n - 1) = [i \in 1 .. n |-> i - 1]
  BY <1>2 DEF Up
<1>4. chase.patterns = [i \in 1 .. n |-> {i - 1}]
  BY <1>1, <1>2, <1>3 DEF singles
<1>5. Len(chase.patterns) = n
  <2>1. chase.patterns \in [1 .. n -> SUBSET Int] /\ n \in Nat
    BY <1>2, <1>4
  <2> QED
    BY <2>1, MakesSeq
<1>6. \A k \in DOMAIN chase.offsets : chase.offsets[k] \in 0 .. n - 1
  <2>1. PICK d : d = n \div mult
    OBVIOUS
  <2>2. <<n, mult, d>> \in {<<16, 1, 16>>, <<16, 2, 8>>, <<16, 4, 4>>,
                            <<5, 1, 5>>, <<10, 1, 10>>, <<10, 2, 5>>}
    BY <1>1, <2>1
  <2>3. \A k \in 1 .. mult : (k - 1) * d \in 0 .. n - 1
    BY <2>2
  <2> QED
    BY <1>1, <2>1, <2>3
<1> QED
  BY <1>1, <1>2, <1>4, <1>5, <1>6

(* A chase that is reset starts with its parts in step.                    *)
LEMMA ResetPositions ==
    ASSUME NEW array, ArrayOK(array), NEW selected, Selects(array, selected),
           Exists(array, selected)
    PROVE  Positions(array, selected, reset_chase(chase_mut(array, selected)))
<1>1. PICK chase : chase = chase_mut(array, selected)
  OBVIOUS
<1>2. /\ chase.patterns \in Patterns /\ chase.offsets \in Offsets
      /\ selected.chase = 1 => FirstOK(array.cells, chase)
  BY <1>1, Selected
<1>3. PICK next : next = reset_chase(chase)
  OBVIOUS
<1>4. PICK n : n = Len(chase.patterns) /\ n \in Nat \ {0}
  BY <1>2, Ranges
<1>5. \A k \in DOMAIN chase.offsets : 1 + (chase.offsets[k] % n) \in 1 .. n
  BY <1>2, <1>4, Ranges
<1>6. next \in [DOMAIN chase.offsets -> 1 .. n]
  BY <1>3, <1>4, <1>5 DEF reset_chase
<1>7. ASSUME selected.chase = 1
      PROVE  InStep(array.cells, chase.offsets, next)
  <2>1. array.cells = n /\ n \in {5, 10, 16}
    BY <1>2, <1>4, <1>7, FirstIs
  <2>2. \A k \in DOMAIN chase.offsets : next[k] = 1 + ((0 + chase.offsets[k]) % n)
    BY <1>2, <1>3, <1>4, Ranges DEF reset_chase
  <2>3. 0 \in 0 .. n - 1
    BY <2>1
  <2> QED
    BY <2>1, <2>2, <2>3, Zenon DEF InStep
<1> QED
  BY <1>1, <1>3, <1>4, <1>6, <1>7 DEF Positions

(* Around the ring, a part that is offset moves as the first one does,     *)
(* both ways.                                                              *)
LEMMA Around ==
    ASSUME NEW n \in {5, 10, 16}, NEW p \in 0 .. n - 1, NEW o \in 0 .. n - 1,
           NEW i, i = 1 + ((p + o) % n)
    PROVE  /\ 1 + (i % n) = 1 + ((((p + 1) % n) + o) % n)
           /\ (IF i = 1 THEN n ELSE i - 1)
                  = 1 + (((IF p = 0 THEN n - 1 ELSE p - 1) + o) % n)
<1>1. CASE n = 5
  BY <1>1
<1>2. CASE n = 10
  BY <1>2
<1>3. CASE n = 16
  BY <1>3
<1> QED
  BY <1>1, <1>2, <1>3

(* A step moves all parts at once, so that they stay in step.              *)
LEMMA StepPositions ==
    ASSUME NEW array, ArrayOK(array), NEW selected, Selects(array, selected),
           Exists(array, selected), NEW chase, chase = chase_mut(array, selected),
           NEW next, Positions(array, selected, next), NEW reverse \in BOOLEAN
    PROVE  Positions(array, selected,
                     [k \in DOMAIN next |-> step(chase, next[k], reverse)])
<1>2. /\ chase.patterns \in Patterns /\ chase.offsets \in Offsets
      /\ selected.chase = 1 => FirstOK(array.cells, chase)
  BY Selected
<1>3. PICK after : after = [k \in DOMAIN next |-> step(chase, next[k], reverse)]
  OBVIOUS
<1>4. PICK n : n = Len(chase.patterns) /\ n \in Nat \ {0}
  BY <1>2, Ranges
<1>5. next \in [DOMAIN chase.offsets -> 1 .. n]
  BY <1>4 DEF Positions
<1>6. \A i \in 1 .. n : step(chase, i, reverse) \in 1 .. n
  <2>1. ASSUME NEW i \in 1 .. n
        PROVE  1 + (i % n) \in 1 .. n /\ (i # 1 => i - 1 \in 1 .. n) /\ n \in 1 .. n
    <3>1. i \in Nat /\ n \in Nat /\ n > 0
      BY <1>4
    <3>2. 1 + (i % n) \in 1 .. n
      BY <3>1, NextIn
    <3> QED
      BY <3>1, <3>2
  <2> QED
    BY <1>4, <2>1 DEF step
<1>7. after \in [DOMAIN chase.offsets -> 1 .. n]
  BY <1>3, <1>5, <1>6
<1>8. ASSUME selected.chase = 1
      PROVE  InStep(array.cells, chase.offsets, after)
  <2>1. /\ array.cells = n /\ n \in {5, 10, 16} /\ chase.reversible
        /\ \A k \in DOMAIN chase.offsets : chase.offsets[k] \in 0 .. n - 1
    BY <1>2, <1>4, <1>8, FirstIs
  <2>2. PICK p \in 0 .. n - 1 :
            \A k \in DOMAIN chase.offsets : next[k] = 1 + ((p + chase.offsets[k]) % n)
    BY <1>8, <2>1 DEF Positions, InStep
  <2>3. PICK q : q = IF reverse THEN (IF p = 0 THEN n - 1 ELSE p - 1) ELSE (p + 1) % n
    OBVIOUS
  <2>4. q \in 0 .. n - 1
    BY <2>1, <2>3
  <2>5. ASSUME NEW k \in DOMAIN chase.offsets
        PROVE  after[k] = 1 + ((q + chase.offsets[k]) % n)
    <3>1. PICK o \in 0 .. n - 1 : o = chase.offsets[k]
      BY <2>1
    <3>2. after[k] = step(chase, next[k], reverse) /\ next[k] = 1 + ((p + o) % n)
      BY <1>3, <1>5, <2>2, <3>1
    <3>3. after[k] = IF reverse THEN (IF next[k] = 1 THEN n ELSE next[k] - 1)
                     ELSE 1 + (next[k] % n)
      BY <1>4, <2>1, <3>2 DEF step
    <3>4. PICK i : i = next[k]
      OBVIOUS
    <3>5. /\ 1 + (i % n) = 1 + ((((p + 1) % n) + o) % n)
          /\ (IF i = 1 THEN n ELSE i - 1)
                  = 1 + (((IF p = 0 THEN n - 1 ELSE p - 1) + o) % n)
      BY <2>1, <3>2, <3>4, Around
    <3>6. CASE reverse
      BY <2>3, <3>1, <3>3, <3>4, <3>5, <3>6
    <3>7. CASE ~reverse
      BY <2>3, <3>1, <3>3, <3>4, <3>5, <3>7
    <3> QED
      BY <3>6, <3>7
  <2> QED
    BY <2>1, <2>4, <2>5, Zenon DEF InStep
<1> QED
  BY <1>3, <1>4, <1>7, <1>8 DEF Positions

(* What parts light that are in step.                                      *)
LEMMA LitPositions ==
    ASSUME NEW array, ArrayOK(array), NEW selected, Selects(array, selected),
           Exists(array, selected), NEW chase, chase = chase_mut(array, selected),
           NEW next, Positions(array, selected, next)
    PROVE  Lights(array, selected, lit_by(chase, next))
<1>2. /\ chase.patterns \in Patterns /\ chase.offsets \in Offsets
      /\ selected.chase = 1 => FirstOK(array.cells, chase)
  BY Selected
<1>3. PICK n : n = Len(chase.patterns) /\ n \in Nat \ {0}
  BY <1>2, Ranges
<1>4. next \in [DOMAIN chase.offsets -> 1 .. n] /\ DOMAIN chase.offsets # {}
  BY <1>2, <1>3, Ranges DEF Positions
<1>5. PICK lit : lit = lit_by(chase, next)
  OBVIOUS
<1>6. lit # {}
  <2>1. PICK k \in DOMAIN next : chase.patterns[next[k]] # {}
    BY <1>2, <1>3, <1>4, Ranges
  <2> QED
    BY <1>5, <2>1 DEF lit_by
<1>7. ASSUME selected.chase = 1
      PROVE  \E p \in 0 .. array.cells - 1 :
                lit = {(p + chase.offsets[k]) % array.cells : k \in DOMAIN chase.offsets}
  <2>1. /\ array.cells = n /\ n \in {5, 10, 16}
        /\ \A i \in 1 .. n : chase.patterns[i] = {i - 1}
        /\ \A k \in DOMAIN chase.offsets : chase.offsets[k] \in 0 .. n - 1
    <3>1. PICK m : m = array.cells
      OBVIOUS
    <3>2. FirstOK(m, chase)
      BY <1>2, <1>7, <3>1
    <3>3. m = n
      BY <1>3, <3>2, FirstIs
    <3> QED
      BY <3>1, <3>2, <3>3, FirstIs
  <2>2. PICK p \in 0 .. n - 1 :
            \A k \in DOMAIN chase.offsets : next[k] = 1 + ((p + chase.offsets[k]) % n)
    BY <1>7, <2>1 DEF Positions, InStep
  <2>3. \A k \in DOMAIN next : chase.patterns[next[k]] = {(p + chase.offsets[k]) % n}
    <3>1. ASSUME NEW k \in DOMAIN next
          PROVE  chase.patterns[next[k]] = {(p + chase.offsets[k]) % n}
      <4>1. PICK c : c = (p + chase.offsets[k]) % n /\ c \in 0 .. n - 1
        BY <1>4, <2>1
      <4>2. next[k] = 1 + c /\ 1 + c \in 1 .. n /\ (1 + c) - 1 = c
        BY <1>4, <2>1, <2>2, <4>1
      <4> QED
        BY <2>1, <4>1, <4>2
    <3> QED
      BY <3>1
  <2>4. lit = {(p + chase.offsets[k]) % n : k \in DOMAIN chase.offsets}
    <3>1. DOMAIN next = DOMAIN chase.offsets
      BY <1>4
    <3>2. \A c : c \in lit <=> \E k \in DOMAIN next : c \in chase.patterns[next[k]]
      BY <1>5 DEF lit_by
    <3>3. \A c : c \in lit <=> \E k \in DOMAIN next : c = (p + chase.offsets[k]) % n
      BY <2>3, <3>2
    <3> QED
      BY <3>1, <3>3
  <2> QED
    BY <2>1, <2>4
<1> QED
  BY <1>5, <1>6, <1>7 DEF Lights

\* A flasher that has selected a chase of its array.
FlasherOK(array, f) ==
    /\ {"kind", "chase", "mult", "selected", "next", "lit"} \subseteq DOMAIN f
    /\ f.kind = "flasher"
    /\ f.chase \in 1 .. len(array)
    /\ Selects(array, f.selected)
    /\ Exists(array, f.selected) => Positions(array, f.selected, f.next)

(* A flasher that is new is at the first pattern of the first chase.       *)
LEMMA NewFlasher ==
    ASSUME NEW array, ArrayOK(array)
    PROVE  FlasherOK(array, new_flasher)
<1>1. PICK s : s = [chase |-> 1, mult |-> 1]
  OBVIOUS
<1>2. Selects(array, s) /\ Exists(array, s)
  BY <1>1 DEF Selects, Exists, ArrayOK
<1>3. new_flasher.selected = s /\ new_flasher.next = <<1>>
  BY <1>1 DEF new_flasher
<1>4. Positions(array, s, <<1>>)
  <2>1. PICK chase : chase = chase_mut(array, s)
    OBVIOUS
  <2>2. Positions(array, s, reset_chase(chase))
    BY <1>2, <2>1, ResetPositions
  <2>3. chase.offsets = <<0>>
    BY <1>1, <2>1 DEF ArrayOK, chase_mut
  <2>4. PICK n : n = Len(chase.patterns) /\ n \in Nat \ {0}
    BY <1>2, <2>1, Selected, Ranges
  <2>5. reset_chase(chase) = <<1>>
    <3>1. 1 + (0 % n) = 1
      BY <2>4, Wrap
    <3> QED
      BY <2>3, <2>4, <3>1 DEF reset_chase
  <2> QED
    BY <2>2, <2>5
<1> QED
  BY <1>1, <1>2, <1>3, <1>4 DEF FlasherOK, new_flasher, Selects

(* An update flashes exactly if it is told to, and then in step.           *)
LEMMA FlasherUpdate ==
    ASSUME NEW array, ArrayOK(array), NEW f, FlasherOK(array, f),
           NEW trigger \in BOOLEAN, NEW reverse \in BOOLEAN,
           NEW u, u = update_flasher(array, f, trigger, reverse)
    PROVE  /\ FlasherOK(array, u)
           /\ Exists(array, u.selected) =>
                IF trigger THEN Lights(array, u.selected, u.lit) ELSE u.lit = {}
<1>1. PICK selected : selected = [chase |-> f.chase, mult |-> f.mult]
  OBVIOUS
<1>2. Selects(array, selected)
  BY <1>1 DEF Selects, FlasherOK
<1>3. PICK chase : chase = chase_mut(array, selected)
  OBVIOUS
<1>4. PICK start : start = IF selected # f.selected THEN reset_chase(chase) ELSE f.next
  OBVIOUS
<1>5. PICK after : after = [k \in DOMAIN start |-> step(chase, start[k], reverse)]
  OBVIOUS
<1>6. PICK lit : lit = lit_by(chase, start)
  OBVIOUS
<1>7. u = IF ~Exists(array, selected)
            THEN [f EXCEPT !.selected = selected, !.next = <<>>, !.lit = {}]
          ELSE IF ~trigger
            THEN [f EXCEPT !.selected = selected, !.next = start, !.lit = {}]
          ELSE [f EXCEPT !.selected = selected, !.lit = lit, !.next = after]
  BY <1>1, <1>3, <1>4, <1>5, <1>6, Zenon DEF update_flasher
<1>8. ASSUME NEW a, NEW b, 
             \/ u = [f EXCEPT !.selected = selected, !.next = a, !.lit = b]
             \/ u = [f EXCEPT !.selected = selected, !.lit = b, !.next = a]
      PROVE  /\ DOMAIN u = DOMAIN f /\ u.kind = "flasher" /\ u.chase = f.chase
             /\ u.selected = selected /\ u.next = a /\ u.lit = b
  BY <1>8 DEF FlasherOK
<1>9. CASE ~Exists(array, selected)
  <2>1. u = [f EXCEPT !.selected = selected, !.next = <<>>, !.lit = {}]
    BY <1>7, <1>9
  <2> QED
    BY <1>2, <1>8, <1>9, <2>1 DEF FlasherOK
<1>10. CASE Exists(array, selected)
  <2>1. Positions(array, selected, start)
    BY <1>2, <1>3, <1>4, <1>10, ResetPositions DEF FlasherOK
  <2>2. CASE ~trigger
    <3>1. u = [f EXCEPT !.selected = selected, !.next = start, !.lit = {}]
      BY <1>7, <1>10, <2>2
    <3> QED
      BY <1>2, <1>8, <2>1, <2>2, <3>1 DEF FlasherOK
  <2>3. CASE trigger
    <3>1. u = [f EXCEPT !.selected = selected, !.lit = lit, !.next = after]
      BY <1>7, <1>10, <2>3
    <3>2. Positions(array, selected, after)
      BY <1>2, <1>3, <1>5, <1>10, <2>1, StepPositions
    <3>3. Lights(array, selected, lit)
      BY <1>2, <1>3, <1>6, <1>10, <2>1, LitPositions
    <3> QED
      BY <1>2, <1>8, <2>3, <3>1, <3>2, <3>3 DEF FlasherOK
  <2> QED
    BY <2>2, <2>3
<1> QED
  BY <1>9, <1>10

(***************************************************************************)
(* What is lit                                                             *)
(***************************************************************************)
(* One element more.                                                       *)
LEMMA OneMore ==
    ASSUME NEW S, IsFiniteSet(S), NEW x, x \notin S
    PROVE  /\ IsFiniteSet(S \cup {x})
           /\ Cardinality(S) = 1 => Cardinality(S \cup {x}) = 2
           /\ Cardinality(S) = 2 => Cardinality(S \cup {x}) = 3
           /\ Cardinality(S) = 3 => Cardinality(S \cup {x}) = 4
BY FS_AddElement

(* A pair is of two.                                                       *)
LEMMA Two ==
    ASSUME NEW p, NEW q, p # q
    PROVE  IsFiniteSet({p, q}) /\ Cardinality({p, q}) = 2
<1>1. IsFiniteSet({q}) /\ Cardinality({q}) = 1
  BY FS_Singleton
<1>2. {p, q} = {q} \cup {p}
  OBVIOUS
<1> QED
  BY <1>1, <1>2, OneMore

(* Four that differ are of four.                                           *)
LEMMA Four ==
    ASSUME NEW p, NEW q, NEW r, NEW s, p \notin {q, r, s}, q \notin {r, s}, r # s
    PROVE  Cardinality({p, q, r, s}) = 4
<1>1. IsFiniteSet({r, s}) /\ Cardinality({r, s}) = 2
  BY Two
<1>2. IsFiniteSet({r, s} \cup {q}) /\ Cardinality({r, s} \cup {q}) = 3
  BY <1>1, OneMore
<1>3. p \notin {r, s} \cup {q}
  OBVIOUS
<1>4. Cardinality(({r, s} \cup {q}) \cup {p}) = 4
  BY <1>2, <1>3, OneMore
<1>5. ({r, s} \cup {q}) \cup {p} = {p, q, r, s}
  OBVIOUS
<1> QED
  BY <1>4, <1>5

(* Around a ring, half of it further on.                                   *)
LEMMA Opposite ==
    ASSUME NEW n, NEW d, <<n, d>> \in {<<16, 8>>, <<10, 5>>}, NEW c \in 0 .. n - 1
    PROVE  /\ (c + d) % n \in 0 .. n - 1 /\ (c + d) % n # c
           /\ (((c + d) % n) + d) % n = c /\ (c + 2 * d) % n = c /\ (c + 0) % n = c
<1>1. CASE n = 16 /\ d = 8
  BY <1>1
<1>2. CASE n = 10 /\ d = 5
  BY <1>2
<1> QED
  BY <1>1, <1>2

(* Around a ring of 16, quarter by quarter.                                *)
LEMMA Quarters ==
    ASSUME NEW c \in 0 .. 15
    PROVE  /\ (c + 4) % 16 \in 0 .. 15 /\ (c + 8) % 16 \in 0 .. 15
           /\ (c + 12) % 16 \in 0 .. 15 /\ (c + 16) % 16 = c /\ (c + 0) % 16 = c
           /\ (((c + 4) % 16) + 4) % 16 = (c + 8) % 16
           /\ (((c + 8) % 16) + 4) % 16 = (c + 12) % 16
           /\ (((c + 12) % 16) + 4) % 16 = c
           /\ c # (c + 4) % 16 /\ c # (c + 8) % 16 /\ c # (c + 12) % 16
           /\ (c + 4) % 16 # (c + 8) % 16 /\ (c + 4) % 16 # (c + 12) % 16
           /\ (c + 8) % 16 # (c + 12) % 16
OBVIOUS

\* The cells that m parts light, the first of them at p.
LitFrom(n, m, p) == {(p + (k - 1) * (n \div m)) % n : k \in 1 .. m}
Even(n, m, lit) ==
    /\ Cardinality(lit) = m
    /\ {c \in 0 .. n - 1 : \E k \in 1 .. m : (c + k * (n \div m)) % n \in lit} = lit

(* One part lights one cell.                                               *)
LEMMA OneEven ==
    ASSUME NEW n \in {5, 10, 16}, NEW p \in 0 .. n - 1
    PROVE  Even(n, 1, LitFrom(n, 1, p))
<1>1. 1 .. 1 = {1} /\ n \div 1 = n /\ (1 - 1) * n = 0 /\ 1 * n = n
  OBVIOUS
<1>2. \A c \in 0 .. n - 1 : (c + 0) % n = c /\ (c + n) % n = c
  OBVIOUS
<1>3. LitFrom(n, 1, p) = {p}
  BY <1>1, <1>2 DEF LitFrom
<1>4. Cardinality({p}) = 1
  BY FS_Singleton
<1>5. {c \in 0 .. n - 1 : \E k \in 1 .. 1 : (c + k * (n \div 1)) % n \in {p}} = {p}
  BY <1>1, <1>2
<1>6. PICK lit : lit = LitFrom(n, 1, p)
  OBVIOUS
<1>7. Cardinality(lit) = 1
  BY <1>3, <1>4, <1>6, Zenon
<1>8. {c \in 0 .. n - 1 : \E k \in 1 .. 1 : (c + k * (n \div 1)) % n \in lit} = lit
  BY <1>3, <1>5, <1>6
<1>9. Even(n, 1, lit)
  BY <1>7, <1>8, Zenon DEF Even
<1> QED
  BY <1>6, <1>9

(* Two parts light opposite cells.                                         *)
LEMMA TwoEven ==
    ASSUME NEW n \in {10, 16}, NEW p \in 0 .. n - 1
    PROVE  Even(n, 2, LitFrom(n, 2, p))
<1>1. PICK d : d = n \div 2
  OBVIOUS
<1>2. /\ 1 .. 2 = {1, 2} /\ <<n, d>> \in {<<16, 8>>, <<10, 5>>}
      /\ (1 - 1) * d = 0 /\ (2 - 1) * d = d /\ 1 * d = d
  BY <1>1
<1>3. PICK q : q = (p + d) % n
  OBVIOUS
<1>4. q \in 0 .. n - 1 /\ q # p /\ (p + 0) % n = p /\ (q + d) % n = p
  BY <1>2, <1>3, Opposite
<1>5. LitFrom(n, 2, p) = {p, q}
  BY <1>1, <1>2, <1>3, <1>4 DEF LitFrom
<1>6. Cardinality({p, q}) = 2
  BY <1>4, Two
<1>7. ASSUME NEW c \in 0 .. n - 1
      PROVE  (\E k \in 1 .. 2 : (c + k * d) % n \in {p, q}) <=> c \in {p, q}
  <2>1. (\E k \in 1 .. 2 : (c + k * d) % n \in {p, q})
            <=> (c + d) % n \in {p, q} \/ (c + 2 * d) % n \in {p, q}
    BY <1>2
  <2>2. (c + 2 * d) % n = c /\ (((c + d) % n) + d) % n = c
    BY <1>2, Opposite
  <2>3. (c + d) % n \in {p, q} => c \in {p, q}
    BY <1>3, <1>4, <2>2
  <2> QED
    BY <2>1, <2>2, <2>3
<1> QED
  BY <1>1, <1>4, <1>5, <1>6, <1>7 DEF Even

(* Four parts light a cell of each quarter.                                *)
LEMMA FourEven ==
    ASSUME NEW p \in 0 .. 15
    PROVE  Even(16, 4, LitFrom(16, 4, p))
<1>1. 1 .. 4 = {1, 2, 3, 4} /\ 16 \div 4 = 4
  OBVIOUS
<1>2. PICK q, r, s : q = (p + 4) % 16 /\ r = (p + 8) % 16 /\ s = (p + 12) % 16
  OBVIOUS
<1>3. /\ {q, r, s} \subseteq 0 .. 15 /\ p \notin {q, r, s} /\ q \notin {r, s} /\ r # s
      /\ (q + 4) % 16 = r /\ (r + 4) % 16 = s /\ (s + 4) % 16 = p /\ (p + 0) % 16 = p
  BY <1>2, Quarters
<1>4. LitFrom(16, 4, p) = {p, q, r, s}
  <2>1. (1 - 1) * 4 = 0 /\ (2 - 1) * 4 = 4 /\ (3 - 1) * 4 = 8 /\ (4 - 1) * 4 = 12
    OBVIOUS
  <2>2. LitFrom(16, 4, p) = {(p + (k - 1) * 4) % 16 : k \in {1, 2, 3, 4}}
    BY <1>1 DEF LitFrom
  <2>3. \A c : c \in LitFrom(16, 4, p)
            <=> \/ c = (p + (1 - 1) * 4) % 16 \/ c = (p + (2 - 1) * 4) % 16
                \/ c = (p + (3 - 1) * 4) % 16 \/ c = (p + (4 - 1) * 4) % 16
    BY <2>2
  <2>4. \A c : c \in LitFrom(16, 4, p) <=> c = p \/ c = q \/ c = r \/ c = s
    BY <1>2, <1>3, <2>1, <2>3
  <2> QED
    BY <2>4
<1>5. Cardinality({p, q, r, s}) = 4
  <2>1. p \notin {q, r, s} /\ q \notin {r, s} /\ r # s
    BY <1>3
  <2> QED
    BY <2>1, Four, Zenon
<1>6. \A x \in {p, q, r, s} : (x + 4) % 16 \in {p, q, r, s}
  BY <1>2, <1>3
<1>7. ASSUME NEW c \in 0 .. 15
      PROVE  (\E k \in 1 .. 4 : (c + k * 4) % 16 \in {p, q, r, s}) <=> c \in {p, q, r, s}
  <2>1. PICK lit : lit = {p, q, r, s}
    OBVIOUS
  <2>2. (\E k \in 1 .. 4 : (c + k * 4) % 16 \in lit)
            <=> \/ (c + 4) % 16 \in lit \/ (c + 8) % 16 \in lit
                \/ (c + 12) % 16 \in lit \/ (c + 16) % 16 \in lit
    BY <1>1
  <2>3. /\ (((c + 4) % 16) + 4) % 16 = (c + 8) % 16
        /\ (((c + 8) % 16) + 4) % 16 = (c + 12) % 16
        /\ (((c + 12) % 16) + 4) % 16 = c
        /\ (c + 16) % 16 = c
    BY Quarters
  <2>4. \A x \in lit : (x + 4) % 16 \in lit
    BY <1>6, <2>1
  <2> QED
    BY <2>1, <2>2, <2>3, <2>4
<1>8. {p, q, r, s} \subseteq 0 .. 15
  BY <1>3
<1> QED
  BY <1>1, <1>4, <1>5, <1>7, <1>8 DEF Even

(* Whatever number of parts runs through the first chase, they are that    *)
(* many cells and evenly spaced.                                           *)
LEMMA Evenly ==
    ASSUME NEW n, NEW chase, FirstOK(n, chase), NEW p \in 0 .. n - 1,
           NEW m, m = Len(chase.offsets)
    PROVE  Even(n, m, {(p + chase.offsets[k]) % n : k \in DOMAIN chase.offsets})
<1>1. PICK mult \in {1, 2, 4} :
        /\ <<n, mult>> \in {<<16, 1>>, <<16, 2>>, <<16, 4>>, <<5, 1>>, <<10, 1>>, <<10, 2>>}
        /\ chase.offsets = [k \in 1 .. mult |-> (k - 1) * (n \div mult)]
  BY DEF FirstOK
<1>2. mult = m
  <2>1. n \div mult \in Nat
    BY <1>1
  <2>2. chase.offsets \in [1 .. mult -> Int] /\ mult \in Nat
    BY <1>1, <2>1
  <2> QED
    BY <2>2, MakesSeq
<1>3. {(p + chase.offsets[k]) % n : k \in DOMAIN chase.offsets} = LitFrom(n, m, p)
  <2>1. DOMAIN chase.offsets = 1 .. m
    BY <1>1, <1>2
  <2>2. \A k \in 1 .. m : chase.offsets[k] = (k - 1) * (n \div m)
    BY <1>1, <1>2
  <2>3. \A c : (\E k \in DOMAIN chase.offsets : c = (p + chase.offsets[k]) % n)
                <=> \E k \in 1 .. m : c = (p + (k - 1) * (n \div m)) % n
    BY <2>1, <2>2, Zenon
  <2> QED
    BY <2>3, Zenon DEF LitFrom
<1>4. Even(n, m, LitFrom(n, m, p))
  <2>1. CASE m = 1
    <3>1. n \in {5, 10, 16}
      BY <1>1
    <3> QED
      BY <2>1, <3>1, OneEven
  <2>2. CASE m = 2
    <3>1. n \in {10, 16}
      BY <1>1, <1>2, <2>2
    <3> QED
      BY <2>2, <3>1, TwoEven
  <2>3. CASE m = 4
    <3>1. n = 16 /\ p \in 0 .. 15
      BY <1>1, <1>2, <2>3
    <3> QED
      BY <2>3, <3>1, FourEven
  <2> QED
    BY <1>1, <1>2, <2>1, <2>2, <2>3
<1> QED
  BY <1>3, <1>4

(***************************************************************************)
(* The invariant of the arrays of cells                                    *)
(***************************************************************************)
\* A group of a type that has one has an array that is in order, and flashes
\* for one update.
CellsOK(group, d, age, n) ==
    d.kind = "flasher" =>
        /\ IsArray(group) /\ FlasherOK(ArrayOf(group), d) /\ age \in {Off, 0}
        /\ n > 0 /\ Exists(ArrayOf(group), d.selected) =>
            IF age # Off THEN Lights(ArrayOf(group), d.selected, d.lit) ELSE d.lit = {}

CInv ==
    /\ DOMAIN flash = Groups
    /\ \A g \in Groups : CellsOK(patch[g], device[g], flash[g], updates)

(* The profiles with an array strobe, and for one update.                  *)
LEMMA ArraysStrobe ==
    \A P \in AllProfiles : P.type \in {"FreqStrobe", "FlashBang"} => P.strobe = "Short"
<1>1. ASSUME NEW P \in AllProfiles, P.type \in {"FreqStrobe", "FlashBang"}
      PROVE  P.strobe = "Short"
  <2>1. CASE P \in {FreqStrobe, FlashBang, FlashBangPaired}
    BY <2>1 DEF FreqStrobe, FlashBang, FlashBangPaired, Fixture
  <2>2. CASE \E head \in 1 .. 5 : P = SwizzleStick(head)
    BY <1>1, <2>2 DEF SwizzleStick, Fixture
  <2>3. CASE \E kind \in DOMAIN ColorModel : P = Color(kind)
    BY <1>1, <2>3 DEF Color, Fixture
  <2>4. CASE \E kind \in DOMAIN LekoModel : P = Leko(kind)
    BY <1>1, <2>4 DEF Leko, Fixture
  <2>5. CASE P \in {EmptyChannel, Atlas, Radiance, Aquarius, Dimmer, Relay, UvLedBrick,
                    Starlight, CosmicBurst, Astroraggi, RotosphereQ3, IWashLed, Ufo,
                    Eyeball, Faderboard, Venus, Astera, RugDoctor, Wled, Lumitone,
                    SolarSystem, Lumasphere}
    BY <1>1, <2>5
       DEF EmptyChannel, Atlas, Radiance, Aquarius, Dimmer, Relay, UvLedBrick,
           Starlight, CosmicBurst, Astroraggi, RotosphereQ3, IWashLed, Ufo, Eyeball,
           Faderboard, Venus, Astera, RugDoctor, Wled, Lumitone, SolarSystem,
           Lumasphere, Fixture
  <2>6. CASE P \in {Colordynamic, H2O, Abyss2, Chizlet, Wizlet, WizardExtreme,
                    RushWizard, Astroscan, LilChonker, Mac700, TriPhase, QuadPhase,
                    Hypnotic, FusionRoll, FreedomFries, Comet, Moonraker,
                    SwarmolonDerby, SwarmolonStrobe, SwarmolonLasers}
    BY <1>1, <2>6
       DEF Colordynamic, H2O, Abyss2, Chizlet, Wizlet, WizardExtreme, RushWizard,
           Astroscan, LilChonker, Mac700, TriPhase, QuadPhase, Hypnotic, FusionRoll,
           FreedomFries, Comet, Moonraker, SwarmolonDerby, SwarmolonStrobe,
           SwarmolonLasers, Fixture
  <2> QED
    BY <2>1, <2>2, <2>3, <2>4, <2>5, <2>6, Zenon DEF AllProfiles
<1> QED
  BY <1>1

(* Any group's array is in order.                                          *)
LEMMA AnyArray ==
    ASSUME NEW group
    PROVE  ArrayOK(ArrayOf(group))
BY FreqStrobeArrayOK, FlashBangArrayOK, FlashBangPairedArrayOK, Zenon DEF ArrayOf

(* A group of an array can strobe, and for one update.                     *)
LEMMA ArrayGroup ==
    ASSUME patch \in UNION Shows, NEW g \in Groups, IsArray(patch[g])
    PROVE  CanStrobe(patch[g]) /\ length(Response(patch[g])) = 1
<1>1. Profile(patch[g]) \in AllProfiles
  BY GroupsAssumption DEF Groups, Profile
<1>2. Response(patch[g]) = "Short"
  BY <1>1, ArraysStrobe DEF IsArray, Response
<1> QED
  BY <1>2 DEF CanStrobe, length

(* A group that is new has its cells at the first pattern.                 *)
LEMMA NewCells ==
    ASSUME NEW group
    PROVE  CellsOK(group, new_device(group), Off, 0)
<1>1. CASE new_device(group).kind = "flasher"
  <2>1. IsArray(group) /\ new_device(group) = new_flasher
    BY <1>1 DEF new_device, new_rotation, new_trigger, NoDevice
  <2>2. FlasherOK(ArrayOf(group), new_flasher)
    BY AnyArray, NewFlasher
  <2> QED
    BY <2>1, <2>2 DEF CellsOK
<1>2. CASE new_device(group).kind # "flasher"
  BY <1>2 DEF CellsOK
<1> QED
  BY <1>1, <1>2

(* At first all cells are new.                                             *)
LEMMA InitCells == Init => CInv
<1> SUFFICES ASSUME Init PROVE CInv
  OBVIOUS
<1>1. /\ updates = 0 /\ flash = [g \in Groups |-> Off]
      /\ device = [g \in Groups |-> new_device(patch[g])]
  BY DEF Init
<1> QED
  BY <1>1, NewCells DEF CInv

(* Between frames nothing is known of what is lit.                         *)
LEMMA BetweenFrames ==
    ASSUME NEW group, NEW d, NEW age, NEW n, CellsOK(group, d, age, n)
    PROVE  CellsOK(group, d, age, 0)
BY DEF CellsOK

(* A step that changes none of what the cells depend on.                   *)
LEMMA SameCells ==
    ASSUME CInv, UNCHANGED <<patch, device, flash, updates>>
    PROVE  CInv'
BY DEF CInv, Groups, CellsOK, IsArray, ArrayOf, Profile

(* Only an array's flasher is ever one.                                    *)
LEMMA NotAFlasher ==
    ASSUME IInv, NEW g \in Groups, NEW flash_now, device[g].kind # "flasher"
    PROVE  update_device(g, flash_now).kind # "flasher"
<1>1. DeviceOK(device[g], updates) /\ updates \in Nat
  BY DEF IInv
<1>2. CASE device[g].kind = "rotation"
  BY <1>2 DEF update_device, update_rotation
<1>3. CASE device[g].kind = "trigger"
  <2>1. PICK u : u = update_device(g, flash_now)
    OBVIOUS
  <2>2. u = [update_trigger(device[g], on[g]) EXCEPT !.known = @ /\ updates = 0]
    BY <1>3, <2>1 DEF update_device
  <2>3. TriggerOK(u, updates + 1)
    BY <1>1, <1>3, <2>2, Kinds, TriggerStep
  <2> QED
    BY <2>1, <2>3 DEF TriggerOK, IsTrigger
<1>4. CASE device[g].kind \notin {"rotation", "trigger"}
  BY <1>4 DEF update_device
<1> QED
  BY <1>2, <1>3, <1>4

(* An update of a group: the cells flash if the group does.                *)
LEMMA UpdateCells ==
    ASSUME IInv, CInv, NEW ticked \in BOOLEAN, update(ticked), NEW g \in Groups
    PROVE  CellsOK(patch[g], device'[g], flash'[g], updates')
<1>1. PICK now \in BOOLEAN :
        now = (((strobe_on /\ ticked) \/ flash_next_update) /\ strobe_enabled[g])
  OBVIOUS
<1>2. /\ device'[g] = update_device(g, now)
      /\ flash'[g] = IF now /\ CanStrobe(patch[g]) THEN 0 ELSE update_flash(g)
  BY <1>1 DEF update
<1>3. CellsOK(patch[g], device[g], flash[g], updates) /\ patch \in UNION Shows
  BY DEF CInv, IInv
<1>4. CASE device[g].kind # "flasher"
  <2>1. device'[g].kind # "flasher"
    BY <1>2, <1>4, NotAFlasher
  <2> QED
    BY <2>1 DEF CellsOK
<1>5. CASE device[g].kind = "flasher"
  <2>1. /\ IsArray(patch[g]) /\ flash[g] \in {Off, 0}
        /\ FlasherOK(ArrayOf(patch[g]), device[g])
    BY <1>3, <1>5 DEF CellsOK
  <2>2. flash'[g] = IF now THEN 0 ELSE Off
    <3>1. CanStrobe(patch[g]) /\ length(Response(patch[g])) = 1
      BY <1>3, <2>1, ArrayGroup
    <3> QED
      BY <1>2, <2>1, <3>1 DEF update_flash, Off
  <2>3. device'[g]
            = update_flasher(ArrayOf(patch[g]), device[g], now, "Reverse" \in on[g])
    BY <1>2, <1>5 DEF update_device
  <2>4. PICK array : array = ArrayOf(patch[g])
    OBVIOUS
  <2>5. PICK u : u = device'[g]
    OBVIOUS
  <2>6. /\ FlasherOK(array, u)
        /\ Exists(array, u.selected) =>
             IF now THEN Lights(array, u.selected, u.lit) ELSE u.lit = {}
    <3>1. ("Reverse" \in on[g]) \in BOOLEAN
      OBVIOUS
    <3>4. u = update_flasher(array, device[g], now, "Reverse" \in on[g])
      BY <2>3, <2>4, <2>5
    <3>2. ArrayOK(array)
      BY <2>4, AnyArray
    <3>3. FlasherOK(array, device[g])
      BY <2>1, <2>4
    <3> QED
      BY <3>1, <3>2, <3>3, <3>4, FlasherUpdate, Zenon
  <2> QED
    BY <2>1, <2>2, <2>4, <2>5, <2>6 DEF CellsOK, Off
<1> QED
  BY <1>4, <1>5

(* A group that is patched anew keeps its array, as it has the same type   *)
(* and options, or has a new one.                                          *)
LEMMA RepatchCells ==
    ASSUME CInv, NEW p, Repatch(p)
    PROVE  CInv'
<1> DEFINE before(g) == {h \in Groups : Reconfigured(patch[h], p[g])}
           kept(g) == before(g) # {}
           was(g) == CHOOSE h \in before(g) : TRUE
<1>1. /\ updates = 0 /\ updates' = 0 /\ patch' = p /\ flash' = [g \in DOMAIN p |-> Off]
      /\ device' = [g \in DOMAIN p |->
             IF kept(g) THEN device[was(g)] ELSE new_device(p[g])]
  BY DEF Repatch, Control
<1>2. ASSUME NEW g \in DOMAIN p
      PROVE  CellsOK(p[g], device'[g], Off, 0)
  <2>1. CASE kept(g)
    <3>1. PICK h \in Groups : h = was(g) /\ Reconfigured(patch[h], p[g])
      BY <2>1
    <3>2. device'[g] = device[h]
      BY <1>1, <2>1, <3>1
    <3>3. IsArray(p[g]) = IsArray(patch[h]) /\ ArrayOf(p[g]) = ArrayOf(patch[h])
      BY <3>1 DEF Reconfigured, IsArray, ArrayOf
    <3>4. CellsOK(patch[h], device[h], flash[h], 0)
      BY <1>1, <3>1 DEF CInv
    <3> QED
      BY <3>2, <3>3, <3>4 DEF CellsOK
  <2>2. CASE ~kept(g)
    <3>1. device'[g] = new_device(p[g])
      BY <1>1, <2>2
    <3> QED
      BY <3>1, NewCells
  <2> QED
    BY <2>1, <2>2
<1>3. Groups' = DOMAIN p /\ DOMAIN flash' = DOMAIN p
  BY <1>1 DEF Groups
<1>4. \A g \in DOMAIN p : flash'[g] = Off
  BY <1>1
<1> HIDE DEF before, kept, was
<1> QED
  BY <1>1, <1>2, <1>3, <1>4 DEF CInv, CellsOK, IsArray, ArrayOf, Profile

(* Every step keeps the cells in order; that only arrays are flashers is   *)
(* known from IInv.                                                        *)
LEMMA StepCells == IInv /\ CInv /\ [Next]_vars => CInv'
<1> SUFFICES ASSUME IInv, CInv, [Next]_vars PROVE CInv'
  OBVIOUS
<1>1. ASSUME NEW g \in Groups, NEW s, ToggleSwitch(g, s) PROVE CInv'
  BY <1>1, SameCells DEF ToggleSwitch
<1>2. ASSUME NEW g \in Groups, ToggleStrobe(g) PROVE CInv'
  BY <1>2, SameCells DEF ToggleStrobe
<1>3. ASSUME NEW g \in Groups, NEW d, d.kind = "flasher" => CellsOK(patch[g], d, flash[g], 0),
             updates = 0, device' = [device EXCEPT ![g] = d],
             UNCHANGED <<patch, flash, updates>>
      PROVE  CInv'
  <2>1. CellsOK(patch[g], d, flash[g], 0)
    BY <1>3 DEF CellsOK
  <2>2. DOMAIN device = Groups
    BY DEF IInv
  <2>3. ASSUME NEW h \in Groups PROVE CellsOK(patch[h], device'[h], flash[h], 0)
    BY <1>3, <2>1, <2>2 DEF CInv
  <2> QED
    BY <1>3, <2>3 DEF CInv, Groups, CellsOK, IsArray, ArrayOf, Profile
<1>4. ASSUME NEW g \in Groups, NEW s \in patch[g].steps, EnqueueStep(g, s) PROVE CInv'
  <2>1. /\ updates = 0 /\ device[g].kind = "trigger" /\ UNCHANGED <<patch, flash, updates>>
        /\ device' = [device EXCEPT ![g] = enqueue_step(device[g], s)]
    BY <1>4 DEF EnqueueStep, Control
  <2>2. IsTrigger(device[g])
    BY <2>1, Kinds DEF IInv, TriggerOK
  <2>3. enqueue_step(device[g], s).kind = "trigger"
    BY <2>2 DEF IsTrigger, enqueue_step
  <2> QED
    BY <1>3, <2>1, <2>3
<1>5. ASSUME NEW g \in Groups, NEW choice \in patch[g].choices, SelectChase(g, choice)
      PROVE  CInv'
  <2>1. PICK d : d = [[device[g] EXCEPT !.chase = choice[1]] EXCEPT !.mult = choice[2]]
    OBVIOUS
  <2>2. /\ updates = 0 /\ device[g].kind = "flasher" /\ UNCHANGED <<patch, flash, updates>>
        /\ device' = [device EXCEPT ![g] = d]
    BY <1>5, <2>1 DEF SelectChase, Control, IInv
  <2>3. CellsOK(patch[g], device[g], flash[g], 0) /\ patch \in UNION Shows
    BY <2>2 DEF CInv, IInv
  <2>4. choice[1] \in 1 .. len(ArrayOf(patch[g]))
    BY <2>2, <2>3, GroupsAssumption DEF CellsOK, Groups
  <2>5. PICK array : array = ArrayOf(patch[g])
    OBVIOUS
  <2>6. FlasherOK(array, device[g])
    BY <2>2, <2>3, <2>5 DEF CellsOK
  <2>7. FlasherOK(array, d)
    BY <2>1, <2>4, <2>5, <2>6 DEF FlasherOK
  <2>8. CellsOK(patch[g], d, flash[g], 0)
    BY <2>2, <2>3, <2>5, <2>7 DEF CellsOK
  <2> QED
    BY <1>3, <2>2, <2>8
<1>6. CASE StrobeOn \/ FlashNow \/ Intensity
  BY <1>6, SameCells DEF StrobeOn, FlashNow, Intensity, groupVars
<1>7. CASE \E show \in Shows : patch \in show /\ \E p \in show : Repatch(p)
  BY <1>7, RepatchCells
<1>8. ASSUME NEW ticked \in BOOLEAN, update(ticked) PROVE CInv'
  <2>1. patch' = patch /\ DOMAIN flash' = Groups /\ Groups' = Groups
    BY <1>8 DEF update, Groups
  <2>2. \A g \in Groups : CellsOK(patch[g], device'[g], flash'[g], updates')
    BY <1>8, UpdateCells
  <2> QED
    BY <2>1, <2>2 DEF CInv, CellsOK, IsArray, ArrayOf, Profile
<1>9. CASE render
  <2>1. /\ UNCHANGED <<patch, flash>> /\ updates' = 0 /\ Groups' = Groups
        /\ device' = [g \in Groups |->
               IF device[g].kind = "trigger" THEN sent(device[g]) ELSE device[g]]
    BY <1>9 DEF render, Groups
  <2>2. ASSUME NEW g \in Groups PROVE CellsOK(patch[g], device'[g], flash[g], 0)
    <3>1. CASE device[g].kind = "trigger"
      <4>1. IsTrigger(device[g]) /\ device'[g] = sent(device[g])
        BY <2>1, <3>1, Kinds DEF IInv, TriggerOK
      <4>2. device'[g].kind = "trigger"
        BY <4>1 DEF IsTrigger, sent
      <4> QED
        BY <4>2 DEF CellsOK
    <3>2. CASE device[g].kind # "trigger"
      BY <2>1, <3>2, BetweenFrames DEF CInv
    <3> QED
      BY <3>1, <3>2
  <2> QED
    BY <2>1, <2>2 DEF CInv, CellsOK, IsArray, ArrayOf, Profile
<1>10. CASE UNCHANGED vars
  BY <1>10, SameCells DEF vars
<1> QED
  BY <1>1, <1>2, <1>4, <1>5, <1>6, <1>7, <1>8, <1>9, <1>10 DEF Next

(* The cells are in order in every state.                                  *)
LEMMA CellsInvariant == Spec => []CInv
BY InitInv, StepInv, InitCells, StepCells, PTL DEF Spec

(* What is lit, of a chase that exists.                                    *)
LEMMA LitEvenly ==
    ASSUME NEW array, ArrayOK(array), NEW selected, Selects(array, selected),
           Exists(array, selected), selected.chase = 1, NEW lit,
           Lights(array, selected, lit), NEW m,
           m = Len(array.chases[selected.mult][1].offsets)
    PROVE  Even(array.cells, m, lit)
<1>1. PICK chase : chase = array.chases[selected.mult][1]
  OBVIOUS
<1>2. chase = chase_mut(array, selected) /\ FirstOK(array.cells, chase)
  BY <1>1 DEF chase_mut, ArrayOK, Exists
<1>3. PICK n : n = array.cells
  OBVIOUS
<1>4. PICK p \in 0 .. n - 1 :
        lit = {(p + chase.offsets[k]) % n : k \in DOMAIN chase.offsets}
  BY <1>2, <1>3 DEF Lights
<1> QED
  BY <1>1, <1>2, <1>3, <1>4, Evenly

(* For any patches and choices of chases, the cells flash exactly in the   *)
(* updates in which the group does, and the parts of a chase keep their    *)
(* distance however often it is reversed, chosen anew or patched over      *)
(* (Flasher::update and Chase::next).                                      *)
THEOREM CellsFlashInStep == Spec => []CellsInStep
<1>1. CInv => CellsInStep
  <2> SUFFICES ASSUME CInv, NEW g \in Groups, device[g].kind = "flasher",
                      Exists(ArrayOf(patch[g]), device[g].selected), updates > 0
               PROVE  LET d == device[g]
                          array == ArrayOf(patch[g])
                          n == Len(array.chases[d.selected.mult][1].offsets)
                          parts == {c \in 0 .. array.cells - 1 :
                                \E k \in 1 .. n :
                                    (c + k * (array.cells \div n)) % array.cells \in d.lit}
                      IN  /\ (d.lit # {}) <=> (flash[g] # Off)
                          /\ d.selected.chase = 1 /\ d.lit # {} =>
                                Cardinality(d.lit) = n /\ parts = d.lit
    BY Zenon DEF CellsInStep
  <2> DEFINE d == device[g]
             array == ArrayOf(patch[g])
             n == Len(array.chases[d.selected.mult][1].offsets)
  <2>1. /\ FlasherOK(array, d)
        /\ IF flash[g] # Off THEN Lights(array, d.selected, d.lit) ELSE d.lit = {}
    BY DEF CInv, CellsOK
  <2>2. (d.lit # {}) <=> (flash[g] # Off)
    BY <2>1 DEF Lights
  <2>3. ASSUME d.selected.chase = 1, d.lit # {}
        PROVE  Even(array.cells, n, d.lit)
    <3>1. Lights(array, d.selected, d.lit) /\ Selects(array, d.selected)
      BY <2>1, <2>3 DEF FlasherOK
    <3>2. ArrayOK(array) /\ Exists(array, d.selected)
      BY AnyArray
    <3> HIDE DEF array, d
    <3> QED
      BY <2>3, <3>1, <3>2, LitEvenly
  <2>4. ASSUME d.selected.chase = 1, d.lit # {}
        PROVE  /\ Cardinality(d.lit) = n
               /\ {c \in 0 .. array.cells - 1 : \E k \in 1 .. n :
                        (c + k * (array.cells \div n)) % array.cells \in d.lit} = d.lit
    <3> HIDE DEF array, d, n
    <3> QED
      BY <2>3, <2>4, Zenon DEF Even
  <2> QED
    BY <2>2, <2>4, Zenon
<1> QED
  BY <1>1, CellsInvariant, PTL
=============================================================================

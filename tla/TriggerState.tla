---------------------------- MODULE TriggerState ----------------------------
(***************************************************************************)
(* The Comet's trigger channel (fixture/profile/comet.rs).  The fixture    *)
(* takes a step when the value of the channel becomes a step value, so that *)
(* a second step the same way must leave the value and come back, and each *)
(* value must be held long enough to be sent.                              *)
(***************************************************************************)
EXTENDS Naturals, Sequences

CONSTANTS
    UpdatesToHold,   \* UPDATES_TO_HOLD
    MaxSteps         \* bounds the queue of steps

ASSUME TriggerAssumption ==
    UpdatesToHold \in Nat \ {0} /\ MaxSteps \in Nat \ {0}

Steps == {"forward", "backward"}
Outputs == Steps \cup {"stop", "music", "auto"}

\* due, seen and known are history.  due: the steps asked for that the
\* fixture has not taken; seen: the last value it was sent; known: no value
\* has been passed over by updates without a frame in between, and due is kept.
new_trigger == [kind |-> "trigger", steps |-> <<>>, prior |-> "Idle", hold |-> 0,
                output |-> "stop", due |-> <<>>, seen |-> "stop", known |-> TRUE]

enqueue_step(t, step) ==
    [t EXCEPT !.steps = Append(@, step),
              !.due = IF t.known THEN Append(@, step) ELSE @]

\* What is put out when there is no step to take.
idle_output(switches) ==
    IF "TrigSoundActive" \in switches THEN "music"
    ELSE IF "AutoStep" \in switches THEN "auto" ELSE "stop"

\* Mutant: the value is not left between two steps the same way.
take_step_Directly(t) ==
    [t EXCEPT !.prior = Head(t.steps), !.output = Head(t.steps),
              !.hold = UpdatesToHold - 1, !.steps = Tail(@)]
\* The step that is next is taken unless it was the last one taken, in which
\* case the value goes to stop and the step stays in the queue.
take_step(t) ==
    LET step == Head(t.steps) IN
    IF step = t.prior
      THEN [t EXCEPT !.prior = "Idle", !.output = "stop", !.hold = UpdatesToHold - 1]
      ELSE [t EXCEPT !.prior = step, !.output = step, !.hold = UpdatesToHold - 1,
                     !.steps = Tail(@)]

update_trigger(t, switches) ==
    IF t.hold > 0 THEN [t EXCEPT !.hold = @ - 1]
    ELSE IF t.steps # <<>> THEN take_step(t)
    ELSE [t EXCEPT !.prior = "Idle", !.output = idle_output(switches)]

\* The fixture is sent the value.
sent(t) ==
    [t EXCEPT !.seen = t.output,
              !.due = IF ~t.known THEN <<>>
                      ELSE IF t.output \notin Steps \/ t.output = t.seen THEN @
                      ELSE IF @ # <<>> /\ Head(@) = t.output THEN Tail(@)
                      ELSE <<"never asked for">>]
=============================================================================

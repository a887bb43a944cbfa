-------------------------------- MODULE Rig --------------------------------
(***************************************************************************)
(* The fixtures on the show thread: their controls, the strobe, the parts  *)
(* of some of them that change with time, and the DMX frame they are       *)
(* rendered into (show.rs, strobe.rs, fixture/group.rs, fixture/mod.rs).    *)
(*                                                                         *)
(* One iteration of Show::run handles a control, catches up on updates and *)
(* then renders once, without emptying the frame.  A group is a record of  *)
(* its key, options and fixtures and, as a bound, of what is operated: some *)
(* of its switches, steps and choices of a chase, and of the master strobe. *)
(***************************************************************************)
EXTENDS Profiles, RotationPhase, TriggerState, StrobeArray

CONSTANTS
    Shows,       \* a set of sets of patches between which a show repatches
    MaxUpdates   \* bounds the updates between two frames

VARIABLES
    patch,              \* the groups, a sequence
    on,                 \* the switches that are on in each group
    strobe_enabled,     \* FixtureGroup::strobe_enabled
    flash,              \* the age of each group's flash, or Off
    device,             \* what changes with time in each group's fixture
    strobe_on, flash_next_update, intensity,   \* StrobeClock
    updates,            \* the updates since the last frame
    frame               \* the control each DMX channel was last written from
vars == <<patch, on, strobe_enabled, flash, device, strobe_on, flash_next_update,
          intensity, updates, frame>>
groupVars == <<on, strobe_enabled, flash, device>>
clockVars == <<strobe_on, flash_next_update, intensity>>

Off == -1
NoDevice == [kind |-> "none"]

Groups == DOMAIN patch
Profile(group) == group.fixtures[1].profile
Response(group) == Profile(group).strobe
CanStrobe(group) == Response(group) # "none"
\* StrobeResponse::length.
length(response) == IF response = "Short" THEN 1 ELSE 3

Operated(what) == \E g \in Groups : what \in patch[g].master

ArrayOf(group) ==
    CASE Profile(group).type = "FreqStrobe" -> FreqStrobeArray
      [] group.options = "paired" -> FlashBangPairedArray
      [] OTHER -> FlashBangArray
IsArray(group) == Profile(group).type \in {"FreqStrobe", "FlashBang"}

new_device(group) ==
    CASE Profile(group).type = "Moonraker" -> new_rotation
      [] Profile(group).type = "Comet" -> new_trigger
      [] IsArray(group) -> new_flasher
      [] OTHER -> NoDevice

(***************************************************************************)
(* Rendering                                                               *)
(***************************************************************************)
\* Mutant: the strobe overrides only while a flash is on.
Overridden_FlashOnly(g) == strobe_enabled[g] /\ flash[g] # Off
\* strobe_intensity() is Some, and strobe_shutter() is Some(true).
Overridden(g) == strobe_enabled[g] /\ (flash[g] # Off \/ strobe_on)
Flashing(g) == strobe_enabled[g] /\ flash[g] # Off /\ intensity > 0

Spinning(g) == device[g].kind = "rotation" /\ device[g].phase = "Spinning"

switches(g) ==
    on[g] \cup {s \in {"enabled"} : strobe_enabled[g]}
          \cup {s \in {"strobing"} : strobe_on}
          \cup {s \in {"strobe"} : Overridden(g)}
          \cup {s \in {"flash"} : Flashing(g)}
          \cup {s \in {"spinning"} : Spinning(g)}

\* What a write puts into the frame: the control it is from, unless that
\* gives 0 just now or is the trigger's output.
value(g, w) ==
    CASE w.from = "strobe"  -> IF Flashing(g) THEN "strobe" ELSE "zero"
      [] w.from = "cells"   -> IF w.ch \in device[g].lit THEN "cells" ELSE "zero"
      [] w.from = "Trigger" -> device[g].output
      [] OTHER              -> w.from

Happens(g, w) == w.on \subseteq switches(g) /\ w.off \cap switches(g) = {}
written(g, f) ==
    {[ch |-> f.addr + w.ch, value |-> value(g, w)] :
        w \in {w \in f.profile.writes : Happens(g, w)}}

FixturesOf(p) ==
    UNION {{[group |-> g, i |-> i, addr |-> p[g].fixtures[i].addr,
             profile |-> p[g].fixtures[i].profile] : i \in DOMAIN p[g].fixtures} :
           g \in DOMAIN p}
block(f) == f.addr .. f.addr + f.profile.count - 1
\* What decides on a write and is none of a group's own switches.
Reserved == {"enabled", "strobing", "strobe", "flash", "spinning"}
\* A group is operated by its own controls, a chase is one of the array's, and
\* no group is without a fixture.
ASSUME GroupsAssumption ==
    \A show \in Shows : \A p \in show : \A g \in DOMAIN p :
        /\ 1 \in DOMAIN p[g].fixtures
        /\ \A i \in DOMAIN p[g].fixtures :
            p[g].fixtures[i].profile \in AllProfiles /\ p[g].fixtures[i].addr \in Nat
        /\ p[g].steps \subseteq Steps
        /\ p[g].switches \cap Reserved = {}
        /\ IsArray(p[g]) =>
            \A choice \in p[g].choices : choice[1] \in 1 .. len(ArrayOf(p[g]))
\* Addresses are allocated once (NoAddressTwice of Patch), except to the parts
\* of one fixture; that these are patched as the notes of the profiles ask for
\* ("PATCH WITH CAUTION", swizzle_stick.rs:14) is up to the user.
ASSUME PatchedApart ==
    \A show \in Shows : \A p \in show : \A f \in FixturesOf(p) :
        \A other \in FixturesOf(p) \ {f} :
            \/ block(f) \cap block(other) = {}
            \/ f.addr = other.addr /\ Overlaid(f.profile, other.profile)

empty_frame(p) == [ch \in UNION {block(f) : f \in FixturesOf(p)} |-> "zero"]

\* No channel is written twice (OneWriter), so that the order of groups and
\* fixtures is left out.
rendered(buffer) ==
    LET writes == UNION {written(f.group, f) : f \in FixturesOf(patch)} IN
    [ch \in DOMAIN buffer |->
        IF \E w \in writes : w.ch = ch
          THEN (CHOOSE w \in writes : w.ch = ch).value ELSE buffer[ch]]

render ==
    /\ updates > 0
    /\ updates' = 0
    /\ frame' = rendered(frame)
    /\ device' = [g \in Groups |->
           IF device[g].kind = "trigger" THEN sent(device[g]) ELSE device[g]]
    /\ UNCHANGED <<patch, on, strobe_enabled, flash, clockVars>>

(***************************************************************************)
(* Updating.  When a tick of the strobe clock falls is left open.          *)
(***************************************************************************)
update_device(g, flash_now) ==
    LET d == device[g] IN
    CASE d.kind = "rotation" -> update_rotation(d, "Rotate" \in on[g])
      [] d.kind = "trigger" ->
            [update_trigger(d, on[g]) EXCEPT !.known = @ /\ updates = 0]
      [] d.kind = "flasher" ->
            update_flasher(ArrayOf(patch[g]), d, flash_now, "Reverse" \in on[g])
      [] OTHER -> d

\* FlashState::update, of groups that can strobe.
update_flash(g) ==
    IF flash[g] = Off \/ flash[g] + 1 >= length(Response(patch[g]))
      THEN Off ELSE flash[g] + 1

update(ticked) ==
    LET flash_now == (strobe_on /\ ticked) \/ flash_next_update
        distributed(g) == flash_now /\ strobe_enabled[g]
    IN
    /\ updates < MaxUpdates
    /\ updates' = updates + 1
    /\ flash_next_update' = FALSE
    /\ device' = [g \in Groups |-> update_device(g, distributed(g))]
    /\ flash' = [g \in Groups |->
           IF distributed(g) /\ CanStrobe(patch[g]) THEN 0 ELSE update_flash(g)]
    /\ UNCHANGED <<patch, on, strobe_enabled, strobe_on, intensity, frame>>

(***************************************************************************)
(* Controls, handled before the updates of an iteration                    *)
(***************************************************************************)
Control == updates = 0

ToggleSwitch(g, s) ==
    /\ Control
    /\ on' = [on EXCEPT ![g] = IF s \in @ THEN @ \ {s} ELSE @ \cup {s}]
    /\ UNCHANGED <<patch, strobe_enabled, flash, device, clockVars, updates, frame>>

\* A group that cannot strobe ignores the message.
ToggleStrobe(g) ==
    /\ Control
    /\ CanStrobe(patch[g])
    /\ strobe_enabled' = [strobe_enabled EXCEPT ![g] = ~@]
    /\ UNCHANGED <<patch, on, flash, device, clockVars, updates, frame>>

EnqueueStep(g, s) ==
    /\ Control
    /\ device[g].kind = "trigger"
    /\ Len(device[g].steps) < MaxSteps /\ Len(device[g].due) < MaxSteps
    /\ device' = [device EXCEPT ![g] = enqueue_step(@, s)]
    /\ UNCHANGED <<patch, on, strobe_enabled, flash, clockVars, updates, frame>>

SelectChase(g, choice) ==
    /\ Control
    /\ device[g].kind = "flasher"
    /\ device' = [device EXCEPT ![g].chase = choice[1], ![g].mult = choice[2]]
    /\ UNCHANGED <<patch, on, strobe_enabled, flash, clockVars, updates, frame>>

StrobeOn ==
    /\ Control /\ Operated("StrobeOn")
    /\ strobe_on' = ~strobe_on
    /\ UNCHANGED <<patch, groupVars, flash_next_update, intensity, updates, frame>>
FlashNow ==
    /\ Control /\ Operated("FlashNow")
    /\ flash_next_update' = TRUE
    /\ UNCHANGED <<patch, groupVars, strobe_on, intensity, updates, frame>>
Intensity ==
    /\ Control /\ Operated("Intensity")
    /\ intensity' = 1 - intensity
    /\ UNCHANGED <<patch, groupVars, strobe_on, flash_next_update, updates, frame>>

\* A group keeps its controls if it had the same type and options before
\* (reconfigure_from); its flash is always new, and the frame empty.
Reconfigured(old, group) ==
    /\ old.key = group.key
    /\ Profile(old).type = Profile(group).type
    /\ old.options = group.options
Repatch(p) ==
    LET before(g) == {h \in Groups : Reconfigured(patch[h], p[g])}
        kept(g) == before(g) # {}
        was(g) == CHOOSE h \in before(g) : TRUE
    IN
    /\ Control
    /\ patch' = p
    /\ on' = [g \in DOMAIN p |-> IF kept(g) THEN on[was(g)] ELSE {}]
    /\ strobe_enabled' = [g \in DOMAIN p |-> kept(g) /\ strobe_enabled[was(g)]]
    /\ device' = [g \in DOMAIN p |->
           IF kept(g) THEN device[was(g)] ELSE new_device(p[g])]
    /\ flash' = [g \in DOMAIN p |-> Off]
    /\ frame' = empty_frame(p)
    /\ UNCHANGED <<clockVars, updates>>

Init ==
    /\ patch \in UNION Shows
    /\ on = [g \in Groups |-> {}]
    /\ strobe_enabled = [g \in Groups |-> FALSE]
    /\ flash = [g \in Groups |-> Off]
    /\ device = [g \in Groups |-> new_device(patch[g])]
    /\ strobe_on = FALSE /\ flash_next_update = FALSE /\ intensity = 1
    /\ updates = 0
    /\ frame = empty_frame(patch)

Next ==
    \/ \E g \in Groups :
        \/ \E s \in patch[g].switches : ToggleSwitch(g, s)
        \/ ToggleStrobe(g)
        \/ \E s \in patch[g].steps : EnqueueStep(g, s)
        \/ \E choice \in patch[g].choices : SelectChase(g, choice)
    \/ StrobeOn \/ FlashNow \/ Intensity
    \/ \E show \in Shows : patch \in show /\ \E p \in show : Repatch(p)
    \/ \E ticked \in BOOLEAN : update(ticked)
    \/ render

Spec == Init /\ [][Next]_vars

(***************************************************************************)
(* Properties                                                              *)
(***************************************************************************)
TypeOK ==
    /\ updates \in 0 .. MaxUpdates /\ intensity \in 0 .. 1
    /\ DOMAIN on = Groups /\ DOMAIN flash = Groups /\ DOMAIN device = Groups
    /\ DOMAIN strobe_enabled = Groups
    /\ \A g \in Groups :
        /\ strobe_enabled[g] \in {FALSE, CanStrobe(patch[g])}
        /\ flash[g] \in Off .. length(Response(patch[g])) - 1
        /\ device[g].kind = "rotation" => device[g] \in Rotations

\* The Comet writes channel 0 neither from the shutter nor from the switch
\* when the first is open and the second off.
Unwritten == {f.addr : f \in {f \in FixturesOf(patch) : f.profile.type = "Comet"}}
\* Frames are never emptied "because we will always overwrite all
\* previously-rendered state" (show.rs:625): but for the Comet's channel, what
\* a frame shows does not depend on the frame before, whichever controls
\* have changed in between.
NothingStale ==
    [][render => \A ch \in DOMAIN frame \ Unwritten :
                    frame'[ch] = rendered(empty_frame(patch))[ch]]_vars

\* No render function writes a channel from two controls or outside its
\* block, and of groups that are patched over each other (the parts of a
\* Swarmolon, the heads of a Swizzle Stick) no two write the same channel.
OneWriter ==
    LET fixtures == FixturesOf(patch)
        channels(f) == {w.ch : w \in written(f.group, f)}
    IN  \A f \in fixtures :
        /\ \A w1, w2 \in {w \in f.profile.writes : Happens(f.group, w)} :
            w1.ch = w2.ch => w1.from = w2.from
        /\ channels(f) \subseteq block(f)
        /\ \A other \in fixtures \ {f} : channels(f) \cap channels(other) = {}

\* While the strobe is on for a group, its light is dark in every frame that
\* has no flash, whatever its controls say.  The Hypnotic's shutter and the
\* Comet's stay open, and an organ's color goes before the strobe.  It says
\* nothing of a profile whose light is "none".
StrobedLight(f) ==
    {f.addr + w.ch : w \in {w \in f.profile.writes : w.from = f.profile.light}}
BlackBetweenFlashes ==
    [][render =>
        \A f \in FixturesOf(patch) :
            /\ strobe_enabled[f.group] /\ strobe_on /\ flash[f.group] = Off
            /\ f.profile.type \notin {"Hypnotic", "Comet"}
            /\ "organ" \notin on[f.group]
            => \A ch \in StrobedLight(f) : frame'[ch] = "zero"]_vars

\* The head of a Moonraker spins only when the clamp has held the worst case
\* for ROTATION_ARM, however often rotation is requested and released and the
\* group is patched anew.
SpinUnderClamp ==
    \A g \in Groups : Spinning(g) => device[g].held = RotationArm

\* If no update was passed over, the Comet takes every step that was asked
\* for, in that order, and no other: at rest none is due.  For how many updates
\* a value is held does not matter here, since each of them is then sent.
StepsTaken ==
    \A g \in Groups :
        device[g].kind = "trigger" /\ device[g].known =>
            /\ Len(device[g].due) >= Len(device[g].steps)
            /\ (device[g].steps = <<>> /\ updates = 0) => device[g].due = <<>>

\* The cells of an array flash in the updates in which the group flashes, and
\* the parts of a chase keep their distance: with multiplier m the single
\* pulse lights m cells, evenly spaced.
CellsInStep ==
    \A g \in Groups :
        LET d == device[g]
            array == ArrayOf(patch[g])
            n == Len(array.chases[d.selected.mult][1].offsets)
            parts == {c \in 0 .. array.cells - 1 :
                        \E k \in 1 .. n :
                           (c + k * (array.cells \div n)) % array.cells \in d.lit}
        IN  d.kind = "flasher" /\ Exists(array, d.selected) /\ updates > 0 =>
                /\ (d.lit # {}) <=> (flash[g] # Off)
                /\ d.selected.chase = 1 /\ d.lit # {} =>
                    Cardinality(d.lit) = n /\ parts = d.lit

\* "Released before the spin engaged: the head never left the park angle, so
\* the relaxed margin is immediately safe again" (moonraker.rs:189): the clamp
\* holds the worst case as long as the head may be moving.
ClampCoversHead ==
    \A g \in Groups :
        device[g].kind = "rotation" /\ device[g].coast > 0 =>
            WorstCase(device[g].phase)
=============================================================================

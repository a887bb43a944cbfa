----------------------------- MODULE Positioner -----------------------------
(***************************************************************************)
(* The positioner (positioner.rs): for every group whose fixture type has  *)
(* one, named presets of per-fixture offsets, of which one is active, and  *)
(* the selection and step that the Positioner tab edits with.  The tab     *)
(* (osc/positioner.rs) shows the positioner of the selected channel; every *)
(* group's own template has a radio button and labels for its presets.     *)
(*                                                                         *)
(* Handlers do not redraw a surface: each sends the few values it knows to *)
(* have changed, so that what the surfaces show is state of its own here,  *)
(* as is the show file that the last change submitted.                     *)
(*                                                                         *)
(* A patch is a record [channels, groups]: the groups on channels, in      *)
(* order, and for every group its kind (fixture type and options) and the  *)
(* number of its fixtures.  All handlers run on the show thread, one at a  *)
(* time.                                                                   *)
(***************************************************************************)
EXTENDS Integers, Sequences

CONSTANTS
    Patches,              \* the patches the operator may ask for
    PositionableKinds,    \* kinds of groups that have a positioner
    N_POSITIONER_SLOTS,   \* presets of a group (8)
    DefaultName,          \* slot |-> the name it has at first
    NewNames,             \* names the operator types
    Axes,                 \* X, Y and Focus
    Scale,                \* 1.0, in units of the finest step
    Positions,            \* positions a fader may be moved to
    Bumps,                \* the bump buttons in use: <<axis, sign>>
    magnitude,            \* bump step |-> its size, in the same units
    DefaultStep,          \* BumpStep::Medium
    NoChannel, NoGroup,   \* None
    Cleared               \* what a control without a value shows

Slots == 0 .. N_POSITIONER_SLOTS - 1
BumpSteps == DOMAIN magnitude
Names == {DefaultName[s] : s \in Slots} \cup NewNames

ASSUME PatchesAssumption ==
    /\ Patches # {}
    /\ \A p \in Patches :
        /\ p.channels \in Seq(DOMAIN p.groups)
        /\ \A g \in DOMAIN p.groups : p.groups[g].fixture_count \in Nat
        /\ \A i, j \in DOMAIN p.channels :
            p.channels[i] = p.channels[j] => i = j
        /\ NoGroup \notin DOMAIN p.groups
ASSUME SlotsAssumption ==
    N_POSITIONER_SLOTS \in Nat \ {0} /\ DOMAIN DefaultName = Slots
ASSUME OffsetsAssumption ==
    /\ Scale \in Nat
    /\ Positions \subseteq -Scale .. Scale
    /\ Bumps \subseteq Axes \X {-1, 1}
    /\ magnitude \in [BumpSteps -> Nat] /\ DefaultStep \in BumpSteps
ASSUME NoneAssumption == NoChannel \notin Nat

VARIABLES
    patch, current,  \* the patch and the selected channel
    positioners,     \* group |-> its positioner, for those that have one
    tab,             \* what the Positioner tab shows
    selectors,       \* group |-> what its preset radio and labels show
    file,            \* the last show file submitted to the saver
    result           \* what the last message returned

vars == <<patch, current, positioners, tab, selectors, file, result>>

(***************************************************************************)
(* Positioners                                                             *)
(***************************************************************************)
Offsets == [Axes -> -Scale .. Scale]
Zero == [a \in Axes |-> 0]

\* BipolarFloat::new
clamped(v) == IF v > Scale THEN Scale ELSE IF v < -Scale THEN -Scale ELSE v

default_presets(count) ==
    [s \in Slots |->
        [name |-> DefaultName[s], offsets |-> [i \in 0 .. count - 1 |-> Zero]]]

default_for(count) ==
    [presets |-> default_presets(count), active |-> 0,
     selected_fixture |-> 0, bump_step |-> DefaultStep,
     fixture_count |-> count]

resized_presets(presets, count) ==
    [s \in Slots |->
        [name |-> presets[s].name,
         offsets |-> [i \in 0 .. count - 1 |->
            IF i \in DOMAIN presets[s].offsets
            THEN presets[s].offsets[i] ELSE Zero]]]

\* Mutant: the selection is left where it was.
reconcile_to_fixture_count_Unclamped(p, count) ==
    [p EXCEPT !.presets = resized_presets(p.presets, count),
              !.fixture_count = count]

\* Mutant: the count is not brought up to date.
reconcile_to_fixture_count_Stale(p, count) ==
    [p EXCEPT !.presets = resized_presets(p.presets, count),
              !.selected_fixture =
                IF @ < count THEN @ ELSE IF count = 0 THEN 0 ELSE count - 1]

reconcile_to_fixture_count(p, count) ==
    [p EXCEPT !.presets = resized_presets(p.presets, count),
              !.fixture_count = count,
              !.selected_fixture =
                IF @ < count THEN @ ELSE IF count = 0 THEN 0 ELSE count - 1]

\* Mutant: the presets go in without their names.
install_presets_Unnamed(p, presets) ==
    [p EXCEPT !.presets =
        [s \in Slots |-> [@[s] EXCEPT
            !.offsets = resized_presets(presets, p.fixture_count)[s].offsets]]]

install_presets(p, presets) ==
    [p EXCEPT !.presets = resized_presets(presets, p.fixture_count)]

active_offsets(p) == p.presets[p.active].offsets

(***************************************************************************)
(* Groups                                                                  *)
(***************************************************************************)
positionable(p) ==
    {g \in DOMAIN p.groups : p.groups[g].kind \in PositionableKinds}

channel_ids(p) == 0 .. Len(p.channels) - 1
group_at(p, ch) == IF ch = NoChannel THEN NoGroup ELSE p.channels[ch + 1]
first_channel(p) == IF p.channels = <<>> THEN NoChannel ELSE 0
current_group == group_at(patch, current)

\* A group keeps its positioner over a repatch if its kind is still the same.
carried_over(p) ==
    [g \in positionable(p) |->
        LET count == p.groups[g].fixture_count
        IN  IF /\ g \in DOMAIN positioners
               /\ patch.groups[g].kind = p.groups[g].kind
            THEN reconcile_to_fixture_count(positioners[g], count)
            ELSE default_for(count)]

\* Patch::from_show_file: the presets of the file in new positioners.
loaded(f) ==
    [g \in positionable(f.patch) |->
        LET fresh == default_for(f.patch.groups[g].fixture_count)
        IN  IF g \in DOMAIN f.positioners
            THEN install_presets(fresh, f.positioners[g])
            ELSE fresh]

\* Show::save_show
show_file ==
    [patch |-> patch,
     positioners |-> [g \in DOMAIN positioners |-> positioners[g].presets]]

(***************************************************************************)
(* Surfaces.  A value sent to a control replaces what the control showed.  *)
(***************************************************************************)
names(p) == [s \in Slots |-> p.presets[s].name]

fixture_label(p) ==
    IF p.fixture_count = 0
    THEN Cleared
    ELSE [number |-> p.selected_fixture + 1, of |-> p.fixture_count]

\* emit_axis: the offset of the selected fixture, or 0 if there is none.
axis(p, a) ==
    IF p.selected_fixture \in DOMAIN active_offsets(p)
    THEN active_offsets(p)[p.selected_fixture][a] ELSE 0

axes(p) == [a \in Axes |-> axis(p, a)]

positioner_state(p) ==
    [label |-> fixture_label(p), axes |-> axes(p), preset |-> p.active,
     names |-> names(p), step |-> p.bump_step]

cleared_positioner_state ==
    [label |-> Cleared, axes |-> Zero, preset |-> Cleared,
     names |-> [s \in Slots |-> Cleared], step |-> Cleared]

per_group_state(p) == [preset |-> p.active, names |-> names(p)]

\* What the Positioner tab is sent for the channel ch of patch p, ps its
\* positioners.
tab_for(p, ch, ps) ==
    LET g == group_at(p, ch)
    IN  IF g \in DOMAIN ps
        THEN positioner_state(ps[g]) ELSE cleared_positioner_state

refresh_ui ==
    /\ tab' = tab_for(patch', current', positioners')
    /\ selectors' = [g \in DOMAIN selectors \cup DOMAIN positioners' |->
            IF g \in DOMAIN positioners'
            THEN per_group_state(positioners'[g]) ELSE selectors[g]]

\* A handler returns, and snapshot_state saves the show if it is flagged.
Returns(r) ==
    /\ result' = r
    /\ file' = IF r = "show_file" THEN show_file' ELSE file

unchanged_show == UNCHANGED <<patch, current, positioners>>
unchanged_surfaces == UNCHANGED <<tab, selectors>>

Init ==
    /\ patch \in Patches
    /\ current = first_channel(patch)
    /\ positioners = [g \in positionable(patch) |->
            default_for(patch.groups[g].fixture_count)]
    /\ tab = tab_for(patch, current, positioners)
    /\ selectors = [g \in DOMAIN positioners |->
            per_group_state(positioners[g])]
    /\ file = show_file
    /\ result = "clean"

(***************************************************************************)
(* The Positioner tab.  A message goes to the positioner of the selected   *)
(* channel's group, if there is one.                                       *)
(***************************************************************************)
Editing == current_group \in DOMAIN positioners
edited == positioners[current_group]

\* selected_offset_mut: "ok", "clean" if the group has no fixtures, or the
\* code of a broken invariant.
selected_offset ==
    IF edited.fixture_count = 0 THEN "clean"
    ELSE IF edited.active \notin Slots THEN "PO-001"
    ELSE IF edited.selected_fixture \notin DOMAIN active_offsets(edited)
    THEN "PO-002" ELSE "ok"

offset == active_offsets(edited)[edited.selected_fixture]

\* Set the selected fixture's offset and send those axes that it touched.
\* Mutant: it is set in the first preset.
set_offset_FirstPreset(new, touched) ==
    /\ UNCHANGED <<patch, current, selectors>>
    /\ positioners' = [positioners EXCEPT ![current_group].presets[0].
                            offsets[edited.selected_fixture] = new]
    /\ tab' = [tab EXCEPT !.axes = [a \in Axes |->
                    IF a \in touched THEN axis(edited', a) ELSE @[a]]]
    /\ Returns("show_file")

set_offset(new, touched) ==
    /\ UNCHANGED <<patch, current, selectors>>
    /\ positioners' = [positioners EXCEPT ![current_group].
                presets[edited.active].offsets[edited.selected_fixture] = new]
    /\ tab' = [tab EXCEPT !.axes = [a \in Axes |->
                    IF a \in touched THEN axis(edited', a) ELSE @[a]]]
    /\ Returns("show_file")

SelectedOffsetMissing ==
    /\ Editing /\ selected_offset # "ok"
    /\ unchanged_show /\ unchanged_surfaces
    /\ Returns(selected_offset)

handle_fader(a, val) ==
    /\ Editing /\ selected_offset = "ok"
    /\ set_offset([offset EXCEPT ![a] = val], {a})

handle_bump(a, sign) ==
    /\ Editing /\ selected_offset = "ok"
    /\ set_offset([offset EXCEPT ![a] =
            clamped(@ + sign * magnitude[edited.bump_step])], {a})

handle_reset_fixture ==
    /\ Editing /\ selected_offset = "ok"
    /\ set_offset(Zero, Axes)

handle_reset_preset ==
    /\ Editing
    /\ UNCHANGED <<patch, current, selectors>>
    /\ positioners' = [positioners EXCEPT ![current_group].
                presets[edited.active].offsets =
                    [i \in DOMAIN active_offsets(edited) |-> Zero]]
    /\ tab' = [tab EXCEPT !.axes = axes(edited')]
    /\ Returns("show_file")

handle_bump_step_select(step) ==
    /\ Editing
    /\ UNCHANGED <<patch, current, selectors>>
    /\ positioners' = [positioners EXCEPT ![current_group].bump_step = step]
    /\ tab' = [tab EXCEPT !.step = step]
    /\ Returns("clean")

\* select_fixture, in the part that concerns the tab
selection_shown ==
    tab' = [tab EXCEPT !.label = fixture_label(edited'),
                       !.axes = axes(edited')]

handle_nudge_fixture(sign) ==
    /\ Editing /\ edited.fixture_count > 0
    /\ UNCHANGED <<patch, current, selectors>>
    /\ positioners' = [positioners EXCEPT ![current_group].
                selected_fixture = (@ + sign) % edited.fixture_count]
    /\ selection_shown
    /\ Returns("show_file")

next_fixture == edited.selected_fixture + 1

\* As selected_offset, for copying to the next fixture.
next_offset ==
    IF next_fixture >= edited.fixture_count THEN "clean"
    ELSE IF edited.active \notin Slots THEN "PO-001"
    ELSE IF ~({edited.selected_fixture, next_fixture}
                \subseteq DOMAIN active_offsets(edited))
    THEN "PO-002" ELSE "ok"

\* Mutant: it is not flagged as a change to save.
handle_copy_to_next_Unsaved ==
    /\ Editing /\ next_offset = "ok"
    /\ UNCHANGED <<patch, current, selectors>>
    /\ positioners' = [positioners EXCEPT
            ![current_group].presets[edited.active].
                    offsets[next_fixture] = offset,
            ![current_group].selected_fixture = next_fixture]
    /\ selection_shown
    /\ Returns("clean")

handle_copy_to_next ==
    /\ Editing /\ next_offset = "ok"
    /\ UNCHANGED <<patch, current, selectors>>
    /\ positioners' = [positioners EXCEPT
            ![current_group].presets[edited.active].
                    offsets[next_fixture] = offset,
            ![current_group].selected_fixture = next_fixture]
    /\ selection_shown
    /\ Returns("show_file")

NextOffsetMissing ==
    /\ Editing /\ next_offset # "ok"
    /\ unchanged_show /\ unchanged_surfaces
    /\ Returns(next_offset)

\* Messages that change nothing: buttons let go, the preset that is active
\* already, anything for a channel without a positioner.
Ignored ==
    /\ unchanged_show /\ unchanged_surfaces
    /\ Returns("clean")

(***************************************************************************)
(* Presets: chosen on the tab for the selected channel's group, or on a    *)
(* group's own template; renamed in the GUI (show.rs).                     *)
(***************************************************************************)
\* Mutant: the tab is refreshed whichever group it is.
handle_preset_select_AnyGroup(g, index) ==
    /\ g \in DOMAIN positioners /\ positioners[g].active # index
    /\ UNCHANGED <<patch, current>>
    /\ positioners' = [positioners EXCEPT ![g].active = index]
    /\ selectors' = [selectors EXCEPT ![g] = per_group_state(positioners'[g])]
    /\ tab' = positioner_state(positioners'[g])
    /\ Returns("clean")

handle_preset_select(g, index) ==
    /\ g \in DOMAIN positioners /\ positioners[g].active # index
    /\ UNCHANGED <<patch, current>>
    /\ positioners' = [positioners EXCEPT ![g].active = index]
    /\ selectors' = [selectors EXCEPT ![g] = per_group_state(positioners'[g])]
    /\ tab' = IF g = current_group
              THEN positioner_state(positioners'[g]) ELSE tab
    /\ Returns("clean")

\* Mutant: only the tab is told.
rename_active_preset_TabOnly(name) ==
    /\ Editing
    /\ UNCHANGED <<patch, current, selectors>>
    /\ positioners' = [positioners EXCEPT ![current_group].
                            presets[edited.active].name = name]
    /\ tab' = [tab EXCEPT !.names[edited.active] = name]
    /\ Returns("show_file")

rename_active_preset(name) ==
    /\ Editing
    /\ UNCHANGED <<patch, current>>
    /\ positioners' = [positioners EXCEPT ![current_group].
                            presets[edited.active].name = name]
    /\ selectors' = [selectors EXCEPT ![current_group].
                            names[edited.active] = name]
    /\ tab' = [tab EXCEPT !.names[edited.active] = name]
    /\ Returns("show_file")

(***************************************************************************)
(* What the show does around it                                            *)
(***************************************************************************)
\* Channels::control for SelectChannel: the channel's group sends its state,
\* and so does the tab.
SelectChannel(ch) ==
    /\ ch \in channel_ids(patch) /\ ch # current
    /\ current' = ch
    /\ UNCHANGED <<patch, positioners>>
    /\ selectors' = [g \in DOMAIN selectors |->
            IF g = current_group' /\ g \in DOMAIN positioners
            THEN per_group_state(positioners[g]) ELSE selectors[g]]
    /\ tab' = tab_for(patch, ch, positioners)
    /\ Returns("clean")

\* MetaCommand::RefreshUI, and what else refreshes the surfaces.
RefreshUI ==
    /\ unchanged_show
    /\ refresh_ui
    /\ Returns("clean")

Repatch(p) ==
    /\ patch' = p
    /\ current' = IF current \in channel_ids(p)
                  THEN current ELSE first_channel(p)
    /\ positioners' = carried_over(p)
    /\ refresh_ui
    /\ Returns("show_file")

\* The program ends and is started again with the show file.
Restart ==
    /\ patch' = file.patch
    /\ current' = first_channel(file.patch)
    /\ positioners' = loaded(file)
    /\ refresh_ui
    /\ file' = show_file'
    /\ result' = "clean"

Next ==
    \/ \E a \in Axes, val \in Positions : handle_fader(a, val)
    \/ \E b \in Bumps : handle_bump(b[1], b[2])
    \/ \E step \in BumpSteps : handle_bump_step_select(step)
    \/ \E sign \in {-1, 1} : handle_nudge_fixture(sign)
    \/ handle_copy_to_next
    \/ handle_reset_fixture
    \/ handle_reset_preset
    \/ \E g \in DOMAIN positioners, index \in Slots :
            handle_preset_select(g, index)
    \/ SelectedOffsetMissing
    \/ NextOffsetMissing
    \/ Ignored
    \/ \E name \in NewNames : rename_active_preset(name)
    \/ \E ch \in channel_ids(patch) : SelectChannel(ch)
    \/ RefreshUI
    \/ \E p \in Patches : Repatch(p)
    \/ Restart

Spec == Init /\ [][Next]_vars

(***************************************************************************)
(* Properties                                                              *)
(***************************************************************************)
PresetsOf(count) ==
    [Slots -> [name : Names, offsets : [0 .. count - 1 -> Offsets]]]

\* Every variable has its type, offsets stay within the bipolar range
\* whatever is bumped, and what a handler returns is never an error.
TypeOK ==
    /\ patch \in Patches
    /\ current \in channel_ids(patch) \cup {NoChannel}
    /\ DOMAIN positioners = positionable(patch)
    /\ \A g \in DOMAIN positioners :
        LET p == positioners[g]
        IN  /\ p \in [presets : PresetsOf(p.fixture_count), active : Slots,
                      selected_fixture : Nat, bump_step : BumpSteps,
                      fixture_count : Nat]
    /\ file.patch \in Patches
    /\ result \in {"clean", "show_file", "PO-001", "PO-002"}

\* A positioner is sized for the fixtures the patch has in its group, and the
\* selected fixture is one of them, over every repatch and restart
\* (positioner.rs, FixtureGroup::reconfigure_from).
SizesAgree ==
    \A g \in DOMAIN positioners :
        LET p == positioners[g]
        IN  /\ p.fixture_count = patch.groups[g].fixture_count
            /\ \A s \in Slots :
                DOMAIN p.presets[s].offsets = 0 .. p.fixture_count - 1
            /\ p.selected_fixture < p.fixture_count \/ p.selected_fixture = 0

\* No handler meets a preset or a fixture that does not exist
\* (positioner_inconsistency, "this is a bug").
NoInconsistency == result \notin {"PO-001", "PO-002"}

\* The Positioner tab shows the state of the selected channel's positioner,
\* though the handlers send only parts of it and presets are chosen, renamed
\* and repatched from elsewhere.
TabCurrent == tab = tab_for(patch, current, positioners)

\* The preset controls of every group's template show its active preset and
\* the names of its presets.
SelectorsCurrent ==
    \A g \in DOMAIN positioners :
        g \in DOMAIN selectors /\ selectors[g] = per_group_state(positioners[g])

\* The last show file submitted has the patch and the presets there are: no
\* handler that changes them forgets to say so (StateDirty::SHOW_FILE).
SavedIsCurrent == file = show_file

EditSeen ==
    \A g \in DOMAIN positioners \cap DOMAIN positioners' :
        \A s \in Slots :
            LET old == positioners[g].presets[s].offsets
                new == positioners'[g].presets[s].offsets
            IN  \A i \in DOMAIN old :
                    patch' = patch /\ old[i] # new[i] =>
                        /\ g = current_group /\ s = tab.preset
                        /\ \/ tab'.label.number = i + 1
                           \/ \A j \in DOMAIN new : new[j] = Zero

\* Between repatches, offsets change only in the active preset of the group
\* the tab shows, and only for the fixture it then names, unless the whole
\* preset is reset.
EditsAreSeen == [][EditSeen]_vars

\* A restart brings back every group's presets, though not what was selected
\* for editing (show_file.rs, Patch::from_show_file).
RestartRestores ==
    [][ Restart =>
            /\ patch' = patch
            /\ show_file' = show_file ]_vars

=============================================================================

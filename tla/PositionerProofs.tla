-------------------------- MODULE PositionerProofs --------------------------
(***************************************************************************)
(* Proofs about Positioner, for any number of presets, any axes and range, *)
(* any groups and patches.                                                 *)
(*                                                                         *)
(* The argument has two levels.  Sized says what a positioner is for a     *)
(* group of n fixtures; the first lemmas show that every operation on one  *)
(* positioner keeps it.  IInv then says that all positioners are sized for *)
(* the patch and that the tab, the templates and the show file agree with  *)
(* them; an operation on the tab is an instance of one lemma, Edited, that *)
(* replaces one positioner.                                                *)
(***************************************************************************)
EXTENDS Positioner, TLAPS

Sized(p, n) ==
    /\ n \in Nat
    /\ p \in [presets : PresetsOf(n), active : Slots, selected_fixture : Nat,
              bump_step : BumpSteps, fixture_count : Nat]
    /\ p.fixture_count = n
    /\ p.selected_fixture < n \/ p.selected_fixture = 0

\* The inductive invariant: the properties of Positioner, with the sizes of
\* TypeOK and SizesAgree put as one fact about each positioner.
IInv ==
    /\ patch \in Patches
    /\ current \in channel_ids(patch) \cup {NoChannel}
    /\ DOMAIN positioners = positionable(patch)
    /\ \A g \in DOMAIN positioners :
            Sized(positioners[g], patch.groups[g].fixture_count)
    /\ TabCurrent
    /\ SelectorsCurrent
    /\ SavedIsCurrent
    /\ result \in {"clean", "show_file"}

(***************************************************************************)
(* One positioner                                                          *)
(***************************************************************************)
\* 0 is a position of an axis, and an offset of zeros an offset.
LEMMA ZeroIsOffset == Zero \in Offsets
BY OffsetsAssumption DEF Zero, Offsets

\* The first preset is one of the slots.
LEMMA FirstSlot == 0 \in Slots /\ Slots \subseteq Nat
BY SlotsAssumption DEF Slots

\* What is clamped is in range (BipolarFloat::new).
LEMMA ClampedInRange ==
    ASSUME NEW v \in Int
    PROVE  clamped(v) \in -Scale .. Scale
BY OffsetsAssumption DEF clamped

\* A new positioner is sized for its group.
LEMMA DefaultSized ==
    ASSUME NEW n \in Nat
    PROVE  Sized(default_for(n), n)
<1>1. default_presets(n) \in PresetsOf(n)
  BY ZeroIsOffset DEF default_presets, PresetsOf, Names
<1> QED
  BY <1>1, FirstSlot, OffsetsAssumption DEF default_for, Sized

\* Resized presets are sized for the new number of fixtures.
LEMMA ResizedPresets ==
    ASSUME NEW m \in Nat, NEW n \in Nat, NEW presets \in PresetsOf(m)
    PROVE  resized_presets(presets, n) \in PresetsOf(n)
BY ZeroIsOffset DEF resized_presets, PresetsOf

\* Resizing presets to the size they have leaves them as they are.
LEMMA ResizedToSame ==
    ASSUME NEW n \in Nat, NEW presets \in PresetsOf(n)
    PROVE  resized_presets(presets, n) = presets
<1>1. ASSUME NEW s \in Slots
      PROVE  resized_presets(presets, n)[s] = presets[s]
  <2> DEFINE old == presets[s].offsets
             new == [i \in 0 .. n - 1 |->
                        IF i \in DOMAIN old THEN old[i] ELSE Zero]
  <2>1. presets[s] \in [name : Names, offsets : [0 .. n - 1 -> Offsets]]
    BY DEF PresetsOf
  <2>2. new = old
    BY <2>1
  <2>3. presets[s] = [name |-> presets[s].name, offsets |-> old]
    BY <2>1
  <2>4. resized_presets(presets, n)[s]
            = [name |-> presets[s].name, offsets |-> new]
    BY DEF resized_presets
  <2> QED
    BY <2>2, <2>3, <2>4
<1> QED
  BY <1>1 DEF resized_presets, PresetsOf

\* A repatch resizes a positioner and clamps its selection.
LEMMA ReconciledSized ==
    ASSUME NEW m \in Nat, NEW n \in Nat, NEW p, Sized(p, m)
    PROVE  Sized(reconcile_to_fixture_count(p, n), n)
<1> DEFINE sel == IF p.selected_fixture < n THEN p.selected_fixture
                  ELSE IF n = 0 THEN 0 ELSE n - 1
           q == reconcile_to_fixture_count(p, n)
<1>1. resized_presets(p.presets, n) \in PresetsOf(n)
  BY ResizedPresets DEF Sized
<1>2. sel \in Nat /\ (sel < n \/ sel = 0)
  BY DEF Sized
<1>3. q = [p EXCEPT !.presets = resized_presets(p.presets, n),
                    !.fixture_count = n, !.selected_fixture = sel]
  BY DEF reconcile_to_fixture_count
<1> HIDE DEF sel, q
<1>4. Sized(q, n)
  BY <1>1, <1>2, <1>3 DEF Sized
<1> QED
  BY <1>4 DEF q

\* Installing loaded presets keeps a positioner sized.
LEMMA InstalledSized ==
    ASSUME NEW m \in Nat, NEW n \in Nat, NEW p, Sized(p, n),
           NEW presets \in PresetsOf(m)
    PROVE  Sized(install_presets(p, presets), n)
<1>1. resized_presets(presets, n) \in PresetsOf(n)
  BY ResizedPresets
<1> QED
  BY <1>1 DEF Sized, install_presets

\* An offset of a preset can be set.
LEMMA OffsetSetSized ==
    ASSUME NEW n, NEW p, Sized(p, n), NEW s \in Slots, NEW i \in 0 .. n - 1,
           NEW o \in Offsets
    PROVE  Sized([p EXCEPT !.presets[s].offsets[i] = o], n)
<1> DEFINE presets == [p.presets EXCEPT ![s].offsets[i] = o]
<1>1. p.presets \in PresetsOf(n)
  BY DEF Sized
<1>2. presets \in PresetsOf(n)
  BY <1>1 DEF PresetsOf
<1>3. [p EXCEPT !.presets[s].offsets[i] = o] = [p EXCEPT !.presets = presets]
  OBVIOUS
<1> HIDE DEF presets
<1> QED
  BY <1>2, <1>3 DEF Sized

\* The offsets of a preset can be replaced.
LEMMA OffsetsReplaced ==
    ASSUME NEW n \in Nat, NEW presets \in PresetsOf(n), NEW s \in Slots,
           NEW offs \in [0 .. n - 1 -> Offsets]
    PROVE  LET new == [presets EXCEPT ![s].offsets = offs]
           IN  /\ new \in PresetsOf(n)
               /\ \A r \in Slots : new[r].name = presets[r].name
<1>1. [presets[s] EXCEPT !.offsets = offs]
            = [name |-> presets[s].name, offsets |-> offs]
  BY DEF PresetsOf
<1> QED
  BY <1>1 DEF PresetsOf

\* The name of a preset can be replaced.
LEMMA NameReplaced ==
    ASSUME NEW n \in Nat, NEW presets \in PresetsOf(n), NEW s \in Slots,
           NEW name \in Names
    PROVE  LET new == [presets EXCEPT ![s].name = name]
           IN  /\ new \in PresetsOf(n)
               /\ \A r \in Slots : new[r].offsets = presets[r].offsets
<1>1. [presets[s] EXCEPT !.name = name]
            = [name |-> name, offsets |-> presets[s].offsets]
  BY DEF PresetsOf
<1> QED
  BY <1>1 DEF PresetsOf

\* Replacing the presets of a sized positioner touches nothing else.
LEMMA PresetsReplaced ==
    ASSUME NEW n, NEW p, Sized(p, n), NEW presets \in PresetsOf(n)
    PROVE  LET q == [p EXCEPT !.presets = presets]
           IN  /\ Sized(q, n) /\ q.presets = presets
               /\ q.active = p.active /\ q.bump_step = p.bump_step
               /\ q.selected_fixture = p.selected_fixture
               /\ q.fixture_count = p.fixture_count
BY DEF Sized

\* What the offset of a sized positioner with fixtures is.
LEMMA SelectedOffset ==
    ASSUME NEW n, NEW p, Sized(p, n), n # 0
    PROVE  /\ p.selected_fixture \in 0 .. n - 1
           /\ active_offsets(p) \in [0 .. n - 1 -> Offsets]
BY DEF Sized, active_offsets, PresetsOf

(***************************************************************************)
(* The show                                                                *)
(***************************************************************************)
\* A patch says how many fixtures a group has.
LEMMA FixtureCounts ==
    ASSUME NEW p \in Patches, NEW g \in positionable(p)
    PROVE  p.groups[g].fixture_count \in Nat
BY PatchesAssumption DEF positionable

\* The first channel of a patch is one of its channels, if it has any.
LEMMA FirstChannel ==
    ASSUME NEW p \in Patches
    PROVE  first_channel(p) \in channel_ids(p) \cup {NoChannel}
<1>1. p.channels \in Seq(DOMAIN p.groups)
  BY PatchesAssumption
<1>2. p.channels # <<>> => Len(p.channels) \in Nat \ {0}
  BY <1>1
<1> QED
  BY <1>2 DEF first_channel, channel_ids

\* The show starts in the invariant.
LEMMA InitInv == Init => IInv
<1> SUFFICES ASSUME Init PROVE IInv
  OBVIOUS
<1>1. \A g \in DOMAIN positioners :
        Sized(positioners[g], patch.groups[g].fixture_count)
  BY FixtureCounts, DefaultSized DEF Init
<1> QED
  BY <1>1, FirstChannel DEF Init, IInv, TabCurrent, SelectorsCurrent,
                            SavedIsCurrent

\* Replacing one positioner keeps the invariant if it is sized as before, the
\* tab shows it when it is the selected channel's, its template shows it, and
\* a change of its presets is saved.
LEMMA Changed ==
    ASSUME IInv, NEW g \in DOMAIN positioners, NEW q,
           Sized(q, positioners[g].fixture_count),
           UNCHANGED <<patch, current>>,
           positioners' = [positioners EXCEPT ![g] = q],
           tab' = IF g = current_group THEN positioner_state(q) ELSE tab,
           \/ /\ selectors' = selectors
              /\ per_group_state(q) = per_group_state(positioners[g])
           \/ selectors' = [selectors EXCEPT ![g] = per_group_state(q)],
           \/ Returns("show_file")
           \/ Returns("clean") /\ q.presets = positioners[g].presets
    PROVE  IInv'
<1>1. DOMAIN positioners' = DOMAIN positioners /\ positioners'[g] = q
  OBVIOUS
<1>2. \A h \in DOMAIN positioners : h # g => positioners'[h] = positioners[h]
  OBVIOUS
<1>3. positioners[g].fixture_count = patch.groups[g].fixture_count
  BY DEF IInv, Sized
<1>4. (\A h \in DOMAIN positioners :
        Sized(positioners[h], patch.groups[h].fixture_count))'
  <2> SUFFICES ASSUME NEW h \in DOMAIN positioners
               PROVE  Sized(positioners'[h], patch.groups[h].fixture_count)
    BY <1>1
  <2> QED
    BY <1>1, <1>2, <1>3 DEF IInv
<1>5. TabCurrent'
  <2>1. current_group' = current_group
    BY DEF current_group
  <2>2. CASE g = current_group
    BY <1>1, <2>1, <2>2 DEF TabCurrent, tab_for, current_group
  <2>3. CASE g # current_group
    BY <1>1, <1>2, <2>1, <2>3 DEF IInv, TabCurrent, tab_for, current_group
  <2> QED
    BY <2>2, <2>3
<1>6. SelectorsCurrent'
  BY <1>1, <1>2 DEF IInv, SelectorsCurrent
<1>7. SavedIsCurrent'
  <2>1. CASE Returns("show_file")
    BY <2>1 DEF Returns, SavedIsCurrent
  <2>2. CASE Returns("clean") /\ q.presets = positioners[g].presets
    <3>1. \A h \in DOMAIN positioners :
            positioners'[h].presets = positioners[h].presets
      BY <1>1, <1>2, <2>2
    <3>2. show_file' = show_file
      BY <1>1, <3>1 DEF show_file
    <3> QED
      BY <2>2, <3>2 DEF Returns, IInv, SavedIsCurrent
  <2> QED
    BY <2>1, <2>2
<1>8. result' \in {"clean", "show_file"}
  BY DEF Returns
<1> QED
  BY <1>1, <1>4, <1>5, <1>6, <1>7, <1>8 DEF IInv

\* In the invariant, a message for the tab finds a sized positioner.
LEMMA EditedSized ==
    ASSUME IInv, Editing
    PROVE  /\ Sized(edited, edited.fixture_count)
           /\ tab = positioner_state(edited)
BY DEF IInv, Editing, edited, Sized, TabCurrent, tab_for, current_group

\* The offset of the selected fixture exists unless the group has none.
LEMMA OffsetFound ==
    ASSUME IInv, Editing
    PROVE  /\ selected_offset \in {"ok", "clean"}
           /\ selected_offset = "ok" => edited.fixture_count # 0
<1>1. Sized(edited, edited.fixture_count)
  BY EditedSized
<1>2. edited.active \in Slots
  BY <1>1 DEF Sized
<1>3. edited.fixture_count # 0 =>
        edited.selected_fixture \in DOMAIN active_offsets(edited)
  BY <1>1, SelectedOffset
<1> QED
  BY <1>2, <1>3 DEF selected_offset

\* Setting the selected offset keeps the invariant, when the axes that are
\* sent are all that change.
LEMMA SetOffset ==
    ASSUME IInv, Editing, selected_offset = "ok",
           NEW new \in Offsets, NEW touched \in SUBSET Axes,
           \A a \in Axes \ touched : new[a] = offset[a],
           set_offset(new, touched)
    PROVE  IInv'
<1> PICK g : g = current_group
  OBVIOUS
<1> PICK p : p = positioners[g]
  OBVIOUS
<1> PICK q : q = [p EXCEPT !.presets[p.active].
                                offsets[p.selected_fixture] = new]
  OBVIOUS
<1>1. p = edited /\ g \in DOMAIN positioners
  BY DEF edited, Editing
<1>2. Sized(p, p.fixture_count) /\ p.fixture_count # 0
  BY <1>1, EditedSized, OffsetFound
<1>3. /\ p.active \in Slots
      /\ p.selected_fixture \in 0 .. p.fixture_count - 1
      /\ active_offsets(p) \in [0 .. p.fixture_count - 1 -> Offsets]
  BY <1>2, SelectedOffset DEF Sized
<1>4. Sized(q, p.fixture_count)
  BY <1>2, <1>3, OffsetSetSized
<1>5. positioners' = [positioners EXCEPT ![g] = q]
  BY <1>1 DEF set_offset
<1>6. UNCHANGED <<patch, current, selectors>> /\ Returns("show_file")
  BY DEF set_offset
<1>7. edited' = q
  BY <1>1, <1>5, <1>6 DEF edited, current_group
<1>8. /\ q.active = p.active /\ q.selected_fixture = p.selected_fixture
      /\ q.fixture_count = p.fixture_count /\ q.bump_step = p.bump_step
      /\ active_offsets(q) = [active_offsets(p) EXCEPT
                                    ![p.selected_fixture] = new]
      /\ names(q) = names(p)
  <2>1. p.presets \in PresetsOf(p.fixture_count)
    BY <1>2 DEF Sized
  <2>2. q.presets = [p.presets EXCEPT
                        ![p.active].offsets[p.selected_fixture] = new]
    BY <1>2 DEF Sized
  <2>3. /\ q.presets[p.active].offsets =
                [active_offsets(p) EXCEPT ![p.selected_fixture] = new]
        /\ \A s \in Slots : q.presets[s].name = p.presets[s].name
    BY <1>3, <2>1, <2>2 DEF PresetsOf, active_offsets
  <2>4. /\ q.active = p.active /\ q.selected_fixture = p.selected_fixture
        /\ q.fixture_count = p.fixture_count /\ q.bump_step = p.bump_step
    BY <1>2 DEF Sized
  <2> QED
    BY <2>3, <2>4 DEF active_offsets, names
<1>9. axes(q) = [a \in Axes |-> new[a]]
  <2>1. /\ q.selected_fixture \in DOMAIN active_offsets(q)
        /\ active_offsets(q)[q.selected_fixture] = new
    <3>1. p.selected_fixture \in DOMAIN active_offsets(p)
      BY <1>3
    <3> QED
      BY <1>8, <3>1
  <2>2. \A a : axis(q, a) = new[a]
    BY <2>1 DEF axis
  <2> QED
    BY <2>2 DEF axes
<1>10. \A a \in Axes \ touched : new[a] = axes(p)[a]
  BY <1>1, <1>3 DEF axes, axis, offset
<1>11. tab' = positioner_state(q)
  <2>1. tab = positioner_state(p)
    BY <1>1, EditedSized
  <2>2. tab' = [tab EXCEPT !.axes = [a \in Axes |->
                    IF a \in touched THEN axis(q, a) ELSE tab.axes[a]]]
    BY <1>7 DEF set_offset
  <2>3. [a \in Axes |-> IF a \in touched THEN axis(q, a) ELSE tab.axes[a]]
            = axes(q)
    BY <1>9, <1>10, <2>1 DEF axes, positioner_state
  <2>4. fixture_label(q) = fixture_label(p)
    BY <1>8 DEF fixture_label
  <2> QED
    BY <1>8, <2>1, <2>2, <2>3, <2>4 DEF positioner_state
<1>12. per_group_state(q) = per_group_state(p)
  BY <1>8 DEF per_group_state
<1> QED
  BY <1>1, <1>4, <1>5, <1>6, <1>11, <1>12, Changed

\* The offset that is edited is an offset.
LEMMA OffsetTyped ==
    ASSUME IInv, Editing, selected_offset = "ok"
    PROVE  offset \in Offsets
<1>1. Sized(edited, edited.fixture_count) /\ edited.fixture_count # 0
  BY EditedSized, OffsetFound
<1> QED
  BY <1>1, SelectedOffset DEF offset

(***************************************************************************)
(* The actions                                                             *)
(***************************************************************************)
\* A message that changes nothing keeps the invariant.
LEMMA NothingInv ==
    ASSUME IInv, unchanged_show, unchanged_surfaces, Returns("clean")
    PROVE  IInv'
<1>1. UNCHANGED <<patch, current, positioners, tab, selectors, file>>
  BY DEF unchanged_show, unchanged_surfaces, Returns
<1> QED
  BY <1>1 DEF IInv, TabCurrent, SelectorsCurrent, SavedIsCurrent, show_file,
              Returns

\* A fader sets one axis.
LEMMA FaderInv ==
    ASSUME IInv, NEW a \in Axes, NEW val \in Positions, handle_fader(a, val)
    PROVE  IInv'
<1> PICK new : new = [offset EXCEPT ![a] = val]
  OBVIOUS
<1>1. offset \in Offsets
  BY OffsetTyped DEF handle_fader
<1>2. new \in Offsets
  BY <1>1, OffsetsAssumption DEF Offsets
<1>3. \A x \in Axes \ {a} : new[x] = offset[x]
  BY <1>1 DEF Offsets
<1>4. Editing /\ selected_offset = "ok" /\ set_offset(new, {a})
  BY DEF handle_fader
<1> QED
  BY <1>2, <1>3, <1>4, SetOffset

\* A bump moves one axis and stops at the end of the range.
LEMMA BumpInv ==
    ASSUME IInv, NEW b \in Bumps, handle_bump(b[1], b[2])
    PROVE  IInv'
<1> PICK a, sign : a = b[1] /\ sign = b[2]
  OBVIOUS
<1>1. a \in Axes /\ sign \in {-1, 1}
  BY OffsetsAssumption
<1>2. Editing /\ selected_offset = "ok" /\ Sized(edited, edited.fixture_count)
  BY EditedSized DEF handle_bump
<1>3. offset \in Offsets
  BY <1>2, OffsetTyped
<1>4. magnitude[edited.bump_step] \in Nat
  BY <1>2, OffsetsAssumption DEF Sized
<1> PICK d : d = sign * magnitude[edited.bump_step]
  OBVIOUS
<1>5. d \in Int
  BY <1>1, <1>4
<1> PICK v : v = clamped(offset[a] + d)
  OBVIOUS
<1>6. v \in -Scale .. Scale
  <2>1. offset[a] + d \in Int
    BY <1>1, <1>3, <1>5, OffsetsAssumption DEF Offsets
  <2> QED
    BY <2>1, ClampedInRange
<1> PICK new : new = [offset EXCEPT ![a] = v]
  OBVIOUS
<1>7. new \in Offsets
  BY <1>3, <1>6 DEF Offsets
<1>8. \A x \in Axes \ {a} : new[x] = offset[x]
  BY <1>3 DEF Offsets
<1>9. set_offset(new, {a})
  BY DEF handle_bump
<1> QED
  BY <1>1, <1>2, <1>7, <1>8, <1>9, SetOffset

\* Resetting a fixture sets all its axes.
LEMMA ResetFixtureInv ==
    ASSUME IInv, handle_reset_fixture
    PROVE  IInv'
<1>1. Editing /\ selected_offset = "ok" /\ set_offset(Zero, Axes)
  BY DEF handle_reset_fixture
<1> QED
  BY <1>1, ZeroIsOffset, SetOffset

\* Resetting the active preset zeroes the offset that the tab shows too.
LEMMA ResetPresetInv ==
    ASSUME IInv, handle_reset_preset
    PROVE  IInv'
<1> PICK g : g = current_group
  OBVIOUS
<1> PICK p : p = positioners[g]
  OBVIOUS
<1> PICK zeros : zeros = [i \in DOMAIN active_offsets(p) |-> Zero]
  OBVIOUS
<1> PICK q : q = [p EXCEPT !.presets[p.active].offsets = zeros]
  OBVIOUS
<1>1. /\ p = edited /\ g \in DOMAIN positioners
      /\ Sized(p, p.fixture_count) /\ tab = positioner_state(p)
  BY EditedSized DEF handle_reset_preset, edited, Editing
<1>2. p.presets \in PresetsOf(p.fixture_count) /\ p.active \in Slots
  BY <1>1 DEF Sized
<1>3. zeros \in [0 .. p.fixture_count - 1 -> Offsets]
  BY <1>2, ZeroIsOffset DEF PresetsOf, active_offsets
<1> PICK presets : presets = [p.presets EXCEPT ![p.active].offsets = zeros]
  OBVIOUS
<1>4. /\ presets \in PresetsOf(p.fixture_count)
      /\ \A s \in Slots : presets[s].name = p.presets[s].name
  <2>1. p.fixture_count \in Nat
    BY <1>1 DEF Sized
  <2> DEFINE new == [p.presets EXCEPT ![p.active].offsets = zeros]
  <2>2. new \in PresetsOf(p.fixture_count)
    BY <1>2, <1>3, <2>1, OffsetsReplaced
  <2>3. \A s \in Slots : new[s].name = p.presets[s].name
    BY <1>2, <1>3, <2>1, OffsetsReplaced
  <2> QED
    BY <2>2, <2>3
<1>5. q = [p EXCEPT !.presets = presets]
  OBVIOUS
<1>6. Sized(q, p.fixture_count) /\ q.presets = presets
  BY <1>1, <1>4, <1>5, PresetsReplaced
<1>7. positioners' = [positioners EXCEPT ![g] = q]
  BY <1>1 DEF handle_reset_preset
<1>8. UNCHANGED <<patch, current, selectors>> /\ Returns("show_file")
  BY DEF handle_reset_preset
<1>9. edited' = q
  BY <1>1, <1>7, <1>8 DEF edited, current_group
<1>10. /\ q.active = p.active /\ q.selected_fixture = p.selected_fixture
       /\ q.fixture_count = p.fixture_count /\ q.bump_step = p.bump_step
  BY <1>1, <1>4, <1>5, PresetsReplaced
<1>11. names(q) = names(p)
  BY <1>4, <1>6 DEF names
<1>12. tab' = positioner_state(q)
  <2>1. tab' = [tab EXCEPT !.axes = axes(q)]
    BY <1>9 DEF handle_reset_preset
  <2>2. fixture_label(q) = fixture_label(p)
    BY <1>10 DEF fixture_label
  <2> QED
    BY <1>1, <1>10, <1>11, <2>1, <2>2 DEF positioner_state
<1>13. per_group_state(q) = per_group_state(p)
  BY <1>10, <1>11 DEF per_group_state
<1> QED
  BY <1>1, <1>6, <1>7, <1>8, <1>12, <1>13, Changed

\* The bump step is part of the tab, not of the presets.
LEMMA BumpStepInv ==
    ASSUME IInv, NEW step \in BumpSteps, handle_bump_step_select(step)
    PROVE  IInv'
<1> PICK g : g = current_group
  OBVIOUS
<1> PICK p : p = positioners[g]
  OBVIOUS
<1> PICK q : q = [p EXCEPT !.bump_step = step]
  OBVIOUS
<1>1. /\ p = edited /\ g \in DOMAIN positioners
      /\ Sized(p, p.fixture_count) /\ tab = positioner_state(p)
  BY EditedSized DEF handle_bump_step_select, edited, Editing
<1>2. /\ Sized(q, p.fixture_count) /\ q.presets = p.presets
      /\ q.active = p.active /\ q.selected_fixture = p.selected_fixture
      /\ q.fixture_count = p.fixture_count /\ q.bump_step = step
  BY <1>1 DEF Sized
<1>3. /\ positioners' = [positioners EXCEPT ![g] = q]
      /\ UNCHANGED <<patch, current, selectors>> /\ Returns("clean")
      /\ tab' = [tab EXCEPT !.step = step]
  BY <1>1 DEF handle_bump_step_select
<1>4. /\ fixture_label(q) = fixture_label(p) /\ axes(q) = axes(p)
      /\ names(q) = names(p)
  BY <1>2 DEF fixture_label, axes, axis, active_offsets, names
<1>5. tab' = positioner_state(q)
  BY <1>1, <1>2, <1>3, <1>4 DEF positioner_state
<1>6. per_group_state(q) = per_group_state(p)
  BY <1>2, <1>4 DEF per_group_state
<1> QED
  BY <1>1, <1>2, <1>3, <1>5, <1>6, Changed

\* Moving the selection, having set an offset or not, keeps the invariant if
\* the presets that result are sized and carry the same names.
LEMMA Selected ==
    ASSUME IInv, Editing, NEW presets \in PresetsOf(edited.fixture_count),
           \A s \in Slots : presets[s].name = edited.presets[s].name,
           NEW i \in 0 .. edited.fixture_count - 1,
           positioners' = [positioners EXCEPT ![current_group] =
                [edited EXCEPT !.presets = presets, !.selected_fixture = i]],
           UNCHANGED <<patch, current, selectors>>,
           selection_shown, Returns("show_file")
    PROVE  IInv'
<1> PICK g : g = current_group
  OBVIOUS
<1> PICK p : p = positioners[g]
  OBVIOUS
<1> PICK q : q = [p EXCEPT !.presets = presets, !.selected_fixture = i]
  OBVIOUS
<1>1. /\ p = edited /\ g \in DOMAIN positioners
      /\ Sized(p, p.fixture_count) /\ tab = positioner_state(p)
  BY EditedSized DEF edited, Editing
<1>2. /\ Sized(q, p.fixture_count) /\ q.presets = presets
      /\ q.active = p.active /\ q.bump_step = p.bump_step
  <2>1. q = [presets |-> presets, active |-> p.active,
             selected_fixture |-> i, bump_step |-> p.bump_step,
             fixture_count |-> p.fixture_count]
    BY <1>1 DEF Sized
  <2>2. p.active \in Slots /\ p.bump_step \in BumpSteps
        /\ p.fixture_count \in Nat /\ i \in Nat /\ i < p.fixture_count
    BY <1>1 DEF Sized
  <2> QED
    BY <1>1, <2>1, <2>2 DEF Sized
<1>3. positioners' = [positioners EXCEPT ![g] = q]
  BY <1>1
<1>4. edited' = q
  BY <1>1, <1>3 DEF edited, current_group
<1>5. names(q) = names(p)
  BY <1>1, <1>2 DEF names
<1>6. tab' = positioner_state(q)
  <2>1. tab' = [tab EXCEPT !.label = fixture_label(q), !.axes = axes(q)]
    BY <1>4 DEF selection_shown
  <2> QED
    BY <1>1, <1>2, <1>5, <2>1 DEF positioner_state
<1>7. per_group_state(q) = per_group_state(p)
  BY <1>2, <1>5 DEF per_group_state
<1> QED
  BY <1>1, <1>2, <1>3, <1>6, <1>7, Changed

\* Prev and Next stay within the group, whichever end they wrap around.
LEMMA NudgeInv ==
    ASSUME IInv, NEW sign \in {-1, 1}, handle_nudge_fixture(sign)
    PROVE  IInv'
<1> PICK presets : presets = edited.presets
  OBVIOUS
<1> PICK i : i = (edited.selected_fixture + sign) % edited.fixture_count
  OBVIOUS
<1>1. Editing /\ edited.fixture_count > 0 /\ Sized(edited, edited.fixture_count)
  BY EditedSized DEF handle_nudge_fixture
<1>2. i \in 0 .. edited.fixture_count - 1
  BY <1>1 DEF Sized
<1>3. presets \in PresetsOf(edited.fixture_count)
  BY <1>1 DEF Sized
<1>4. [edited EXCEPT !.presets = presets, !.selected_fixture = i]
        = [edited EXCEPT !.selected_fixture = i]
  BY <1>1 DEF Sized
<1>5. positioners' = [positioners EXCEPT ![current_group] =
                [edited EXCEPT !.presets = presets, !.selected_fixture = i]]
  BY <1>4 DEF handle_nudge_fixture, edited
<1>6. /\ UNCHANGED <<patch, current, selectors>>
      /\ selection_shown /\ Returns("show_file")
  BY DEF handle_nudge_fixture
<1> QED
  BY <1>1, <1>2, <1>3, <1>5, <1>6, Selected

\* The next fixture exists whenever there is one to copy to.
LEMMA NextFound ==
    ASSUME IInv, Editing
    PROVE  /\ next_offset \in {"ok", "clean"}
           /\ next_offset = "ok" => next_fixture \in 1 .. edited.fixture_count - 1
<1>1. Sized(edited, edited.fixture_count)
  BY EditedSized
<1>2. edited.active \in Slots /\ edited.fixture_count \in Nat
      /\ edited.selected_fixture \in Nat
  BY <1>1 DEF Sized
<1>3. edited.fixture_count # 0 =>
        DOMAIN active_offsets(edited) = 0 .. edited.fixture_count - 1
  BY <1>1, SelectedOffset
<1> QED
  BY <1>2, <1>3 DEF next_offset, next_fixture

\* Copying sets the next fixture's offset and selects it.
LEMMA CopyInv ==
    ASSUME IInv, handle_copy_to_next
    PROVE  IInv'
<1> PICK p : p = edited
  OBVIOUS
<1> PICK n, i, o : n = p.fixture_count /\ i = next_fixture /\ o = offset
  OBVIOUS
<1> PICK presets : presets = [p.presets EXCEPT ![p.active].offsets[i] = o]
  OBVIOUS
<1>1. Editing /\ Sized(p, n)
  BY EditedSized DEF handle_copy_to_next
<1>2. i \in 0 .. n - 1 /\ n # 0 /\ n \in Nat
  BY <1>1, NextFound DEF handle_copy_to_next, Sized
<1>3. o \in Offsets /\ active_offsets(p) \in [0 .. n - 1 -> Offsets]
  BY <1>1, <1>2, SelectedOffset DEF offset
<1>4. p.presets \in PresetsOf(n) /\ p.active \in Slots
  BY <1>1 DEF Sized
<1> PICK offs : offs = [active_offsets(p) EXCEPT ![i] = o]
  OBVIOUS
<1>5. offs \in [0 .. n - 1 -> Offsets]
  BY <1>2, <1>3
<1>6. presets = [p.presets EXCEPT ![p.active].offsets = offs]
  BY DEF active_offsets
<1>7. presets \in PresetsOf(n)
      /\ \A s \in Slots : presets[s].name = p.presets[s].name
  <2> DEFINE new == [p.presets EXCEPT ![p.active].offsets = offs]
  <2>1. new \in PresetsOf(n)
    BY <1>2, <1>4, <1>5, OffsetsReplaced
  <2>2. \A s \in Slots : new[s].name = p.presets[s].name
    BY <1>2, <1>4, <1>5, OffsetsReplaced
  <2> QED
    BY <1>6, <2>1, <2>2
<1>8. positioners' = [positioners EXCEPT ![current_group] =
                [edited EXCEPT !.presets = presets, !.selected_fixture = i]]
  BY <1>1 DEF handle_copy_to_next, edited, Editing
<1>9. /\ UNCHANGED <<patch, current, selectors>>
      /\ selection_shown /\ Returns("show_file")
  BY DEF handle_copy_to_next
<1> QED
  BY <1>1, <1>2, <1>7, <1>8, <1>9, Selected

\* A preset is chosen: the tab follows only if it shows that group.
LEMMA PresetSelectInv ==
    ASSUME IInv, NEW g \in DOMAIN positioners, NEW index \in Slots,
           handle_preset_select(g, index)
    PROVE  IInv'
<1> PICK p : p = positioners[g]
  OBVIOUS
<1> PICK q : q = [p EXCEPT !.active = index]
  OBVIOUS
<1>1. Sized(p, p.fixture_count)
  BY DEF IInv, Sized
<1>2. Sized(q, p.fixture_count) /\ q.presets = p.presets
  BY <1>1 DEF Sized
<1>3. positioners' = [positioners EXCEPT ![g] = q] /\ positioners'[g] = q
  BY DEF handle_preset_select
<1>4. /\ UNCHANGED <<patch, current>> /\ Returns("clean")
      /\ selectors' = [selectors EXCEPT ![g] = per_group_state(q)]
      /\ tab' = IF g = current_group THEN positioner_state(q) ELSE tab
  BY <1>3 DEF handle_preset_select
<1> QED
  BY <1>2, <1>3, <1>4, Changed

\* A rename changes one label on the tab and one on the template.
LEMMA RenameInv ==
    ASSUME IInv, NEW name \in NewNames, rename_active_preset(name)
    PROVE  IInv'
<1> PICK g : g = current_group
  OBVIOUS
<1> PICK p : p = positioners[g]
  OBVIOUS
<1> PICK presets : presets = [p.presets EXCEPT ![p.active].name = name]
  OBVIOUS
<1> PICK q : q = [p EXCEPT !.presets = presets]
  OBVIOUS
<1>1. /\ p = edited /\ g \in DOMAIN positioners
      /\ Sized(p, p.fixture_count) /\ tab = positioner_state(p)
  BY EditedSized DEF rename_active_preset, edited, Editing
<1>2. /\ p.presets \in PresetsOf(p.fixture_count) /\ p.active \in Slots
      /\ p.fixture_count \in Nat /\ name \in Names
  BY <1>1 DEF Sized, Names
<1>3. /\ presets \in PresetsOf(p.fixture_count)
      /\ \A s \in Slots : presets[s].offsets = p.presets[s].offsets
  <2> DEFINE new == [p.presets EXCEPT ![p.active].name = name]
  <2>1. new \in PresetsOf(p.fixture_count)
    BY <1>2, NameReplaced
  <2>2. \A s \in Slots : new[s].offsets = p.presets[s].offsets
    BY <1>2, NameReplaced
  <2> QED
    BY <2>1, <2>2
<1>4. names(q) = [names(p) EXCEPT ![p.active] = name]
  BY <1>1, <1>2 DEF names, Sized, PresetsOf
<1>5. /\ Sized(q, p.fixture_count) /\ q.presets = presets
      /\ q.active = p.active /\ q.bump_step = p.bump_step
      /\ q.selected_fixture = p.selected_fixture
      /\ q.fixture_count = p.fixture_count
  BY <1>1, <1>3, PresetsReplaced
<1>6. active_offsets(q) = active_offsets(p)
  BY <1>2, <1>3, <1>5 DEF active_offsets
<1>7. fixture_label(q) = fixture_label(p) /\ axes(q) = axes(p)
  BY <1>5, <1>6 DEF fixture_label, axes, axis
<1>8. /\ positioners' = [positioners EXCEPT ![g] = q]
      /\ UNCHANGED <<patch, current>> /\ Returns("show_file")
  BY <1>1 DEF rename_active_preset
<1>9. tab' = positioner_state(q)
  <2>1. tab' = [tab EXCEPT !.names = [names(p) EXCEPT ![p.active] = name]]
    BY <1>1 DEF rename_active_preset, positioner_state
  <2> QED
    BY <1>1, <1>4, <1>5, <1>7, <2>1 DEF positioner_state
<1>10. selectors' = [selectors EXCEPT ![g] = per_group_state(q)]
  <2>1. selectors[g] = per_group_state(p)
    BY <1>1 DEF IInv, SelectorsCurrent
  <2>2. [selectors[g] EXCEPT !.names[p.active] = name] = per_group_state(q)
    BY <1>4, <1>5, <2>1 DEF per_group_state
  <2>3. selectors' = [selectors EXCEPT ![g] =
                            [selectors[g] EXCEPT !.names[p.active] = name]]
    BY <1>1 DEF rename_active_preset
  <2> QED
    BY <2>2, <2>3
<1> QED
  BY <1>1, <1>5, <1>8, <1>9, <1>10, Changed

\* A repatch, a restart and a full refresh leave every surface right,
\* whatever it showed before.
LEMMA Refreshed ==
    ASSUME IInv, refresh_ui
    PROVE  TabCurrent' /\ SelectorsCurrent'
BY DEF refresh_ui, TabCurrent, SelectorsCurrent

\* Refreshing the surfaces changes nothing else.
LEMMA RefreshInv ==
    ASSUME IInv, RefreshUI
    PROVE  IInv'
<1>1. UNCHANGED <<patch, current, positioners, file>> /\ result' = "clean"
  BY DEF RefreshUI, unchanged_show, Returns
<1>2. TabCurrent' /\ SelectorsCurrent'
  BY Refreshed DEF RefreshUI
<1> QED
  BY <1>1, <1>2 DEF IInv, SavedIsCurrent, show_file

\* Another channel is selected: the tab is sent the state of its group.
LEMMA SelectChannelInv ==
    ASSUME IInv, NEW ch \in channel_ids(patch), SelectChannel(ch)
    PROVE  IInv'
<1>1. /\ UNCHANGED <<patch, positioners, file>> /\ current' = ch
      /\ result' = "clean"
  BY DEF SelectChannel, Returns
<1>2. TabCurrent'
  BY <1>1 DEF SelectChannel, TabCurrent
<1>3. SelectorsCurrent'
  BY <1>1 DEF SelectChannel, IInv, SelectorsCurrent
<1> QED
  BY <1>1, <1>2, <1>3 DEF IInv, SavedIsCurrent, show_file

\* A repatch sizes the positioners it carries over and makes new ones.
LEMMA RepatchInv ==
    ASSUME IInv, NEW p \in Patches, Repatch(p)
    PROVE  IInv'
<1>1. /\ patch' = p /\ positioners' = carried_over(p)
      /\ DOMAIN positioners' = positionable(p)
      /\ result' = "show_file" /\ file' = show_file'
  BY DEF Repatch, Returns, carried_over
<1>2. current' \in channel_ids(p) \cup {NoChannel}
  BY FirstChannel DEF Repatch
<1>3. ASSUME NEW g \in positionable(p)
      PROVE  Sized(carried_over(p)[g], p.groups[g].fixture_count)
  <2> PICK n : n = p.groups[g].fixture_count
    OBVIOUS
  <2>1. n \in Nat
    BY FixtureCounts
  <2>2. CASE /\ g \in DOMAIN positioners
             /\ patch.groups[g].kind = p.groups[g].kind
    <3>1. Sized(positioners[g], patch.groups[g].fixture_count)
      BY <2>2 DEF IInv
    <3>2. patch.groups[g].fixture_count \in Nat
      BY <3>1 DEF Sized
    <3>3. carried_over(p)[g] = reconcile_to_fixture_count(positioners[g], n)
      BY <2>2 DEF carried_over
    <3> QED
      BY <2>1, <3>1, <3>2, <3>3, ReconciledSized
  <2>3. CASE ~ /\ g \in DOMAIN positioners
               /\ patch.groups[g].kind = p.groups[g].kind
    <3>1. carried_over(p)[g] = default_for(n)
      BY <2>3 DEF carried_over
    <3> QED
      BY <2>1, <3>1, DefaultSized
  <2> QED
    BY <2>2, <2>3
<1>4. TabCurrent' /\ SelectorsCurrent'
  BY Refreshed DEF Repatch
<1> QED
  BY <1>1, <1>2, <1>3, <1>4 DEF IInv, SavedIsCurrent

\* What a restart loads has the sizes the groups need and the presets that
\* there were.
LEMMA Loaded ==
    ASSUME IInv
    PROVE  /\ file.patch = patch
           /\ DOMAIN loaded(file) = DOMAIN positioners
           /\ \A g \in DOMAIN positioners :
                /\ Sized(loaded(file)[g], patch.groups[g].fixture_count)
                /\ loaded(file)[g].presets = positioners[g].presets
<1>1. file = show_file
  BY DEF IInv, SavedIsCurrent
<1>2. /\ file.patch = patch
      /\ file.positioners =
            [g \in DOMAIN positioners |-> positioners[g].presets]
  BY <1>1 DEF show_file
<1>3. DOMAIN loaded(file) = DOMAIN positioners
  BY <1>2 DEF loaded, IInv
<1>4. ASSUME NEW g \in DOMAIN positioners
      PROVE  /\ Sized(loaded(file)[g], patch.groups[g].fixture_count)
             /\ loaded(file)[g].presets = positioners[g].presets
  <2> PICK n, presets : /\ n = patch.groups[g].fixture_count
                        /\ presets = positioners[g].presets
    OBVIOUS
  <2> PICK fresh : fresh = default_for(n)
    OBVIOUS
  <2>1. n \in Nat /\ presets \in PresetsOf(n)
    BY DEF IInv, Sized
  <2>2. loaded(file)[g] = install_presets(fresh, presets)
    BY <1>2, <1>3 DEF loaded
  <2>3. Sized(fresh, n) /\ fresh.fixture_count = n
    BY <2>1, DefaultSized DEF Sized
  <2>4. Sized(install_presets(fresh, presets), n)
    BY <2>1, <2>3, InstalledSized
  <2>5. install_presets(fresh, presets).presets
            = resized_presets(presets, n)
    BY <2>3 DEF install_presets, Sized
  <2>6. resized_presets(presets, n) = presets
    BY <2>1, ResizedToSame
  <2> QED
    BY <2>2, <2>4, <2>5, <2>6
<1> QED
  BY <1>2, <1>3, <1>4

\* A restart loads the file and shows and saves what it loaded.
LEMMA RestartInv ==
    ASSUME IInv, Restart
    PROVE  IInv'
<1>1. /\ patch' = patch /\ positioners' = loaded(file)
      /\ result' = "clean" /\ file' = show_file'
  BY Loaded DEF Restart
<1>2. current' \in channel_ids(patch) \cup {NoChannel}
  BY Loaded, FirstChannel DEF Restart, IInv
<1>3. TabCurrent' /\ SelectorsCurrent'
  BY Refreshed DEF Restart
<1> QED
  BY <1>1, <1>2, <1>3, Loaded DEF IInv, SavedIsCurrent

\* Every step keeps the invariant.
LEMMA NextInv ==
    ASSUME IInv, [Next]_vars
    PROVE  IInv'
<1>1. CASE \E a \in Axes, val \in Positions : handle_fader(a, val)
  BY <1>1, FaderInv
<1>2. CASE \E b \in Bumps : handle_bump(b[1], b[2])
  BY <1>2, BumpInv
<1>3. CASE \E step \in BumpSteps : handle_bump_step_select(step)
  BY <1>3, BumpStepInv
<1>4. CASE \E sign \in {-1, 1} : handle_nudge_fixture(sign)
  BY <1>4, NudgeInv
<1>5. CASE handle_copy_to_next
  BY <1>5, CopyInv
<1>6. CASE handle_reset_fixture
  BY <1>6, ResetFixtureInv
<1>7. CASE handle_reset_preset
  BY <1>7, ResetPresetInv
<1>8. CASE \E g \in DOMAIN positioners, index \in Slots :
                handle_preset_select(g, index)
  BY <1>8, PresetSelectInv
<1>9. CASE SelectedOffsetMissing
  BY <1>9, OffsetFound, NothingInv DEF SelectedOffsetMissing
<1>10. CASE NextOffsetMissing
  BY <1>10, NextFound, NothingInv DEF NextOffsetMissing
<1>11. CASE Ignored
  BY <1>11, NothingInv DEF Ignored
<1>12. CASE \E name \in NewNames : rename_active_preset(name)
  BY <1>12, RenameInv
<1>13. CASE \E ch \in channel_ids(patch) : SelectChannel(ch)
  BY <1>13, SelectChannelInv
<1>14. CASE RefreshUI
  BY <1>14, RefreshInv
<1>15. CASE \E p \in Patches : Repatch(p)
  BY <1>15, RepatchInv
<1>16. CASE Restart
  BY <1>16, RestartInv
<1>17. CASE UNCHANGED vars
  BY <1>17 DEF vars, IInv, TabCurrent, SelectorsCurrent, SavedIsCurrent,
               show_file
<1> QED
  BY <1>1, <1>2, <1>3, <1>4, <1>5, <1>6, <1>7, <1>8, <1>9, <1>10, <1>11,
     <1>12, <1>13, <1>14, <1>15, <1>16, <1>17 DEF Next

\* The inductive invariant holds in every reachable state.
LEMMA Invariant == Spec => []IInv
BY InitInv, NextInv, PTL DEF Spec

(***************************************************************************)
(* Edits                                                                   *)
(***************************************************************************)
\* A step that leaves all offsets alone satisfies the property.
LEMMA SameOffsetsSeen ==
    ASSUME \A g \in DOMAIN positioners \cap DOMAIN positioners' :
            \A s \in Slots : positioners'[g].presets[s].offsets
                                = positioners[g].presets[s].offsets
    PROVE  EditSeen
BY DEF EditSeen

\* Setting the offset of one fixture is seen if the tab names that fixture
\* after it.
LEMMA OneOffsetSeen ==
    ASSUME IInv, Editing, edited.fixture_count # 0,
           NEW i \in 0 .. edited.fixture_count - 1, NEW o, NEW n,
           positioners' = [positioners EXCEPT ![current_group] =
                [edited EXCEPT !.presets[edited.active].offsets[i] = o,
                               !.selected_fixture = n]],
           tab'.label.number = i + 1
    PROVE  EditSeen
<1> PICK c, p : c = current_group /\ p = edited
  OBVIOUS
<1> PICK q : q = [p EXCEPT !.presets[p.active].offsets[i] = o,
                           !.selected_fixture = n]
  OBVIOUS
<1>1. /\ p = positioners[c] /\ c \in DOMAIN positioners
      /\ Sized(p, p.fixture_count) /\ tab.preset = p.active
  BY EditedSized DEF edited, Editing, positioner_state
<1>2. /\ positioners'[c] = q
      /\ \A g \in DOMAIN positioners : g # c => positioners'[g] = positioners[g]
  BY <1>1
<1>3. p.presets \in PresetsOf(p.fixture_count) /\ p.active \in Slots
  BY <1>1 DEF Sized
<1>4. q.presets = [p.presets EXCEPT ![p.active].offsets[i] = o]
  BY <1>1 DEF Sized
<1>5. \A s \in Slots : s # p.active => q.presets[s] = p.presets[s]
  BY <1>3, <1>4 DEF PresetsOf
<1>6. \A j \in DOMAIN p.presets[p.active].offsets :
        j # i => q.presets[p.active].offsets[j]
                    = p.presets[p.active].offsets[j]
  BY <1>3, <1>4 DEF PresetsOf
<1> SUFFICES ASSUME NEW g \in DOMAIN positioners, NEW s \in Slots,
                    NEW j \in DOMAIN positioners[g].presets[s].offsets,
                    positioners[g].presets[s].offsets[j]
                        # positioners'[g].presets[s].offsets[j]
             PROVE  g = c /\ s = tab.preset /\ j = i
  BY DEF EditSeen
<1>7. g = c
  BY <1>2
<1>8. s = p.active
  BY <1>1, <1>2, <1>5, <1>7
<1>9. j = i
  BY <1>1, <1>2, <1>6, <1>7, <1>8
<1> QED
  BY <1>1, <1>7, <1>8, <1>9

\* What the handlers of faders, bumps and resets share is seen.
LEMMA SetOffsetSeen ==
    ASSUME IInv, Editing, selected_offset = "ok", NEW new, NEW touched,
           set_offset(new, touched)
    PROVE  EditSeen
<1> PICK p, i : p = edited /\ i = edited.selected_fixture
  OBVIOUS
<1>1. /\ Sized(p, p.fixture_count) /\ p.fixture_count # 0
      /\ tab = positioner_state(p)
  BY EditedSized, OffsetFound
<1>2. i \in 0 .. p.fixture_count - 1
  BY <1>1, SelectedOffset
<1>3. tab'.label.number = i + 1
  BY <1>1 DEF set_offset, positioner_state, fixture_label
<1> PICK q : q = [p EXCEPT !.presets[p.active].offsets[i] = new]
  OBVIOUS
<1>4. q = [p EXCEPT !.presets[p.active].offsets[i] = new,
                    !.selected_fixture = i]
  BY <1>1 DEF Sized
<1>5. positioners' = [positioners EXCEPT ![current_group] = q]
  BY DEF set_offset, edited
<1>6. positioners' = [positioners EXCEPT ![current_group] =
            [edited EXCEPT !.presets[edited.active].offsets[i] = new,
                           !.selected_fixture = i]]
  BY <1>4, <1>5
<1>7. i \in 0 .. edited.fixture_count - 1 /\ edited.fixture_count # 0
  BY <1>1, <1>2
<1> QED
  BY <1>3, <1>6, <1>7, OneOffsetSeen

\* Copying changes the fixture that the tab moves on to.
LEMMA CopySeen ==
    ASSUME IInv, handle_copy_to_next
    PROVE  EditSeen
<1> PICK p, i, o : p = edited /\ i = next_fixture /\ o = offset
  OBVIOUS
<1> PICK q : q = [p EXCEPT !.presets[p.active].offsets[i] = o,
                           !.selected_fixture = i]
  OBVIOUS
<1>1. Editing /\ Sized(p, p.fixture_count)
  BY EditedSized DEF handle_copy_to_next
<1>2. i \in 0 .. p.fixture_count - 1 /\ p.fixture_count # 0
  BY <1>1, NextFound DEF handle_copy_to_next, Sized
<1>3. positioners' = [positioners EXCEPT ![current_group] = q]
  BY DEF handle_copy_to_next, edited
<1>4. edited' = q
  BY <1>1, <1>3 DEF edited, Editing, current_group, handle_copy_to_next
<1>5. q.selected_fixture = i /\ q.fixture_count = p.fixture_count
  BY <1>1 DEF Sized
<1>6. tab'.label = fixture_label(q)
  BY <1>1, <1>4, EditedSized DEF handle_copy_to_next, selection_shown,
                                 positioner_state
<1>7. tab'.label.number = i + 1
  BY <1>2, <1>5, <1>6 DEF fixture_label
<1> QED
  BY <1>1, <1>2, <1>3, <1>7, OneOffsetSeen

\* Resetting a preset zeroes it.
LEMMA ResetPresetSeen ==
    ASSUME IInv, handle_reset_preset
    PROVE  EditSeen
<1> PICK c, p : c = current_group /\ p = edited
  OBVIOUS
<1> PICK zeros : zeros = [i \in DOMAIN active_offsets(p) |-> Zero]
  OBVIOUS
<1> PICK q : q = [p EXCEPT !.presets[p.active].offsets = zeros]
  OBVIOUS
<1>1. /\ p = positioners[c] /\ c \in DOMAIN positioners
      /\ Sized(p, p.fixture_count) /\ tab.preset = p.active
  BY EditedSized DEF handle_reset_preset, edited, Editing, positioner_state
<1>2. positioners' = [positioners EXCEPT ![c] = q]
  BY DEF handle_reset_preset, edited
<1>3. p.presets \in PresetsOf(p.fixture_count) /\ p.active \in Slots
  BY <1>1 DEF Sized
<1>4. q.presets = [p.presets EXCEPT ![p.active].offsets = zeros]
  BY <1>1 DEF Sized
<1>5. /\ \A s \in Slots : s # p.active => q.presets[s] = p.presets[s]
      /\ q.presets[p.active].offsets = zeros
  BY <1>3, <1>4 DEF PresetsOf
<1>6. /\ positioners'[c] = q
      /\ \A g \in DOMAIN positioners : g # c => positioners'[g] = positioners[g]
  BY <1>1, <1>2
<1>7. \A j \in DOMAIN zeros : zeros[j] = Zero
  OBVIOUS
<1> SUFFICES ASSUME NEW g \in DOMAIN positioners, NEW s \in Slots,
                    NEW j \in DOMAIN positioners[g].presets[s].offsets,
                    positioners[g].presets[s].offsets[j]
                        # positioners'[g].presets[s].offsets[j]
             PROVE  /\ g = current_group /\ s = tab.preset
                    /\ \A k \in DOMAIN positioners'[g].presets[s].offsets :
                            positioners'[g].presets[s].offsets[k] = Zero
  BY DEF EditSeen
<1>8. g = c
  BY <1>6
<1>9. s = p.active
  BY <1>1, <1>5, <1>6, <1>8
<1>10. positioners'[g].presets[s].offsets = zeros
  BY <1>5, <1>6, <1>8, <1>9
<1> QED
  BY <1>1, <1>7, <1>8, <1>9, <1>10

\* A repatch to the same patch, and a restart, change no offset.
LEMMA RepatchSeen ==
    ASSUME IInv, NEW p \in Patches, Repatch(p)
    PROVE  EditSeen
<1> SUFFICES ASSUME NEW g \in DOMAIN positioners \cap DOMAIN positioners',
                    patch' = patch
             PROVE  positioners'[g].presets = positioners[g].presets
  BY DEF EditSeen
<1> PICK old, n : old = positioners[g] /\ n = patch.groups[g].fixture_count
  OBVIOUS
<1>1. Sized(old, n) /\ old.presets \in PresetsOf(n) /\ n \in Nat
  BY DEF IInv, Sized
<1>2. positioners'[g] = reconcile_to_fixture_count(old, n)
  BY DEF Repatch, carried_over, IInv
<1>3. reconcile_to_fixture_count(old, n).presets
            = resized_presets(old.presets, n)
  BY <1>1 DEF reconcile_to_fixture_count, Sized
<1> QED
  BY <1>1, <1>2, <1>3, ResizedToSame

\* What a restart loads are the presets there were.
LEMMA RestartSeen ==
    ASSUME IInv, Restart
    PROVE  EditSeen
<1>1. \A g \in DOMAIN positioners :
            positioners'[g].presets = positioners[g].presets
  BY Loaded DEF Restart
<1> QED
  BY <1>1, SameOffsetsSeen

\* Stepping to another fixture changes no offset.
LEMMA NudgeSeen ==
    ASSUME IInv, NEW sign \in {-1, 1}, handle_nudge_fixture(sign)
    PROVE  EditSeen
<1>1. \A g \in DOMAIN positioners :
            positioners'[g].presets = positioners[g].presets
  BY DEF handle_nudge_fixture, IInv, Sized
<1> QED
  BY <1>1, SameOffsetsSeen

\* Choosing a bump step changes no offset.
LEMMA BumpStepSeen ==
    ASSUME IInv, NEW step \in BumpSteps, handle_bump_step_select(step)
    PROVE  EditSeen
<1>1. \A g \in DOMAIN positioners :
            positioners'[g].presets = positioners[g].presets
  BY DEF handle_bump_step_select, IInv, Sized
<1> QED
  BY <1>1, SameOffsetsSeen

\* Choosing a preset changes no offset, on whichever surface.
LEMMA PresetSelectSeen ==
    ASSUME IInv, NEW g \in DOMAIN positioners, NEW index \in Slots,
           handle_preset_select(g, index)
    PROVE  EditSeen
<1>1. \A h \in DOMAIN positioners :
            positioners'[h].presets = positioners[h].presets
  BY DEF handle_preset_select, IInv, Sized
<1> QED
  BY <1>1, SameOffsetsSeen

\* Renaming a preset changes no offset.
LEMMA RenameSeen ==
    ASSUME IInv, NEW name \in NewNames, rename_active_preset(name)
    PROVE  EditSeen
<1> PICK c, p : c = current_group /\ p = edited
  OBVIOUS
<1>1. /\ p = positioners[c] /\ c \in DOMAIN positioners
      /\ Sized(p, p.fixture_count)
  BY EditedSized DEF rename_active_preset, edited, Editing
<1>2. p.presets \in PresetsOf(p.fixture_count) /\ p.active \in Slots
  BY <1>1 DEF Sized
<1> PICK q : q = [p EXCEPT !.presets[p.active].name = name]
  OBVIOUS
<1>3. positioners' = [positioners EXCEPT ![c] = q]
  BY DEF rename_active_preset, edited
<1>4. q.presets = [p.presets EXCEPT ![p.active].name = name]
  BY <1>1 DEF Sized
<1>5. \A s \in Slots : q.presets[s].offsets = p.presets[s].offsets
  BY <1>2, <1>4 DEF PresetsOf
<1>6. /\ positioners'[c] = q
      /\ \A g \in DOMAIN positioners : g # c => positioners'[g] = positioners[g]
  BY <1>1, <1>3
<1>7. ASSUME NEW g \in DOMAIN positioners, NEW s \in Slots
      PROVE  positioners'[g].presets[s].offsets
                = positioners[g].presets[s].offsets
  <2>1. CASE g = c
    BY <1>1, <1>5, <1>6, <2>1
  <2>2. CASE g # c
    BY <1>6, <2>2
  <2> QED
    BY <2>1, <2>2
<1> QED
  BY <1>7, SameOffsetsSeen

\* A step that leaves the positioners alone changes no offset.
LEMMA UnchangedSeen ==
    ASSUME positioners' = positioners
    PROVE  EditSeen
BY SameOffsetsSeen

\* Every step is seen.
LEMMA NextSeen ==
    ASSUME IInv, [Next]_vars
    PROVE  EditSeen
<1>1. CASE \E a \in Axes, val \in Positions : handle_fader(a, val)
  BY <1>1, SetOffsetSeen DEF handle_fader
<1>2. CASE \E b \in Bumps : handle_bump(b[1], b[2])
  BY <1>2, SetOffsetSeen DEF handle_bump
<1>3. CASE \E step \in BumpSteps : handle_bump_step_select(step)
  BY <1>3, BumpStepSeen
<1>4. CASE \E sign \in {-1, 1} : handle_nudge_fixture(sign)
  BY <1>4, NudgeSeen
<1>5. CASE handle_copy_to_next
  BY <1>5, CopySeen
<1>6. CASE handle_reset_fixture
  BY <1>6, SetOffsetSeen DEF handle_reset_fixture
<1>7. CASE handle_reset_preset
  BY <1>7, ResetPresetSeen
<1>8. CASE \E g \in DOMAIN positioners, index \in Slots :
                handle_preset_select(g, index)
  BY <1>8, PresetSelectSeen
<1>9. CASE SelectedOffsetMissing \/ NextOffsetMissing \/ Ignored \/ RefreshUI
  BY <1>9, UnchangedSeen DEF SelectedOffsetMissing, NextOffsetMissing, Ignored,
                             RefreshUI, unchanged_show
<1>10. CASE \E name \in NewNames : rename_active_preset(name)
  BY <1>10, RenameSeen
<1>11. CASE \E ch \in channel_ids(patch) : SelectChannel(ch)
  BY <1>11, UnchangedSeen DEF SelectChannel
<1>12. CASE \E p \in Patches : Repatch(p)
  BY <1>12, RepatchSeen
<1>13. CASE Restart
  BY <1>13, RestartSeen
<1>14. CASE UNCHANGED vars
  BY <1>14, UnchangedSeen DEF vars
<1> QED
  BY <1>1, <1>2, <1>3, <1>4, <1>5, <1>6, <1>7, <1>8, <1>9, <1>10, <1>11,
     <1>12, <1>13, <1>14 DEF Next

(***************************************************************************)
(* The theorems                                                            *)
(***************************************************************************)
\* Variables keep their types: offsets stay in range whatever is bumped, and
\* nothing a handler returns is an error.
THEOREM TypeCorrect == Spec => []TypeOK
<1>1. IInv => TypeOK
  BY DEF IInv, TypeOK, Sized, SavedIsCurrent, show_file
<1> QED
  BY <1>1, Invariant, PTL

\* Over every sequence of edits, repatches and restarts, each positioner has
\* one offset per fixture of its group, and selects one of them
\* (reconcile_to_fixture_count, install_presets).
THEOREM SizesFit == Spec => []SizesAgree
<1>1. IInv => SizesAgree
  BY DEF IInv, SizesAgree, Sized, PresetsOf
<1> QED
  BY <1>1, Invariant, PTL

\* The errors of positioner_inconsistency, PO-001 and PO-002, are unreachable.
THEOREM NeverInconsistent == Spec => []NoInconsistency
<1>1. IInv => NoInconsistency
  BY DEF IInv, NoInconsistency
<1> QED
  BY <1>1, Invariant, PTL

\* What the handlers send piece by piece always adds up to what a full
\* refresh of the Positioner tab would send.
THEOREM TabAgrees == Spec => []TabCurrent
<1>1. IInv => TabCurrent
  BY DEF IInv
<1> QED
  BY <1>1, Invariant, PTL

\* The preset controls of all groups are current after every handler.
THEOREM TemplatesAgree == Spec => []SelectorsCurrent
<1>1. IInv => SelectorsCurrent
  BY DEF IInv
<1> QED
  BY <1>1, Invariant, PTL

\* The last show file submitted always has the current patch and presets: no
\* handler forgets to report that it changed them.
THEOREM FileComplete == Spec => []SavedIsCurrent
<1>1. IInv => SavedIsCurrent
  BY DEF IInv
<1> QED
  BY <1>1, Invariant, PTL

\* Restarting from the last show file loses no preset and no offset.
THEOREM RestartLosesNothing == Spec => RestartRestores
<1>1. ASSUME IInv, Restart
      PROVE  patch' = patch /\ show_file' = show_file
  <2>1. /\ patch' = patch /\ DOMAIN positioners' = DOMAIN positioners
        /\ \A g \in DOMAIN positioners :
                positioners'[g].presets = positioners[g].presets
    BY <1>1, Loaded DEF Restart
  <2> QED
    BY <2>1 DEF show_file
<1>2. IInv /\ [Next]_vars =>
            [Restart => patch' = patch /\ show_file' = show_file]_vars
  BY <1>1
<1> QED
  BY <1>2, Invariant, PTL DEF Spec, RestartRestores

\* Offsets change only where the operator sees it, unless the fixtures are
\* repatched.
THEOREM EditsSeen == Spec => EditsAreSeen
<1>1. IInv /\ [Next]_vars => [EditSeen]_vars
  BY NextSeen
<1> QED
  BY <1>1, Invariant, PTL DEF Spec, EditsAreSeen
=============================================================================

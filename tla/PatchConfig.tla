---------------------------- MODULE PatchConfig ----------------------------
(***************************************************************************)
(* What a patch is made of: the configuration of fixture groups that the   *)
(* operator edits (config.rs), the groups built from it (fixture/group.rs) *)
(* and the types of fixture they instantiate (fixture/patch/patcher.rs).   *)
(* Shared by PatchSpec, which says what patching promises, and by Patch,   *)
(* which says how it is done.                                              *)
(*                                                                         *)
(* A group configuration is a record                                       *)
(*   [id, fixture, group, options, channel, patches]                       *)
(* whose `patches` is a sequence of blocks [addr, count, universe,         *)
(* options].  Addresses are numbered from 1, and 0 is a block without one. *)
(* The controls of a fixture are reduced to whose they are: the id of the  *)
(* group under which they were operated, or Fresh.                         *)
(***************************************************************************)
EXTENDS Integers, Sequences, SequencesExt

CONSTANTS
    FixtureTypes,   \* names of the registered patchers
    channel_count,  \* DMX channels a fixture of each type asks for, 0 if none
    Affinities,     \* sets of types that may be patched over one another
    Positionable,   \* types that support the positioner
    BadOptions,     \* options that the type's parser refuses
    DmxSize,        \* addresses in a universe (512)
    GroupIds,       \* stable identities of groups
    NoName,         \* the group name of a config that gives none
    Fresh           \* the controls of a group nobody has operated

ASSUME TypesAssumption ==
    /\ channel_count \in [FixtureTypes -> Nat]
    /\ \A A \in Affinities : A \subseteq FixtureTypes
    /\ \A A, B \in Affinities : A = B \/ A \cap B = {}
    /\ Positionable \subseteq FixtureTypes
    /\ NoName \notin FixtureTypes
ASSUME DmxSizeAssumption == DmxSize \in Nat \ {0}
ASSUME FreshAssumption == Fresh \notin GroupIds

NoAddr == 0
NoIndex == -1

name(cfg) == IF cfg.group = NoName THEN cfg.fixture ELSE cfg.group

\* PatchBlock::start_count: a block without an address is one fixture.
start_count(block) == IF block.addr = NoAddr THEN 1 ELSE block.count

have_mutual_affinity(f, g) == \E A \in Affinities : f \in A /\ g \in A

fixture_config(universe, index, count) ==
    [universe |-> universe, dmx_index |-> index, channel_count |-> count]

addresses(fixture) ==
    IF fixture.dmx_index = NoIndex THEN {}
    ELSE {<<fixture.universe, d>> : d \in
            fixture.dmx_index .. fixture.dmx_index + fixture.channel_count - 1}

(***************************************************************************)
(* A fixture group.  `positioner` is the offset vector of one preset, or   *)
(* <<>> for a type that has none; an offset is 0 until it is nudged.       *)
(***************************************************************************)
empty_group(cfg) ==
    [id |-> cfg.id, fixture_type |-> cfg.fixture, name |-> name(cfg),
     options |-> cfg.options, fixtures |-> <<>>, controls |-> Fresh,
     positioner |-> <<>>]

init_positioner_if_supported(group) ==
    IF group.fixture_type \in Positionable
    THEN [group EXCEPT !.positioner = [f \in 1 .. Len(group.fixtures) |-> 0]]
    ELSE group

reconcile_to_fixture_count(offsets, count) ==
    [f \in 1 .. count |-> IF f <= Len(offsets) THEN offsets[f] ELSE 0]

Compatible(new, old) ==
    new.fixture_type = old.fixture_type /\ new.options = old.options

reconfigure_from(new, old) ==
    IF ~Compatible(new, old) THEN new
    ELSE [new EXCEPT
            !.controls = old.controls,
            !.positioner =
                IF old.fixture_type \in Positionable
                THEN reconcile_to_fixture_count(old.positioner,
                                                Len(new.fixtures))
                ELSE @]

(***************************************************************************)
(* Patch::repatch: each new group takes over from the old group of the     *)
(* same id, if there was one.                                              *)
(***************************************************************************)
Groups(patch) == ToSet(patch.channels) \cup ToSet(patch.non_channel)

\* Mutant: the old group is looked up by its name.
carry_over_ByName(groups, old) ==
    [g \in DOMAIN groups |->
        IF \E o \in Groups(old) : o.name = groups[g].name
        THEN reconfigure_from(groups[g],
                CHOOSE o \in Groups(old) : o.name = groups[g].name)
        ELSE groups[g]]

carry_over(groups, old) ==
    [g \in DOMAIN groups |->
        IF \E o \in Groups(old) : o.id = groups[g].id
        THEN reconfigure_from(groups[g],
                CHOOSE o \in Groups(old) : o.id = groups[g].id)
        ELSE groups[g]]

(***************************************************************************)
(* The operator works a control of a group: it is now the group's own.     *)
(***************************************************************************)
operated(groups, id) ==
    [g \in DOMAIN groups |->
        IF groups[g].id # id THEN groups[g]
        ELSE [groups[g] EXCEPT
                !.controls = id,
                !.positioner = [f \in DOMAIN groups[g].positioner |-> 1]]]
=============================================================================

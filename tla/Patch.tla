------------------------------- MODULE Patch -------------------------------
(***************************************************************************)
(* How Patch::repatch builds a patch (fixture/patch/mod.rs): the new patch *)
(* is built beside the live one, a group, a block and a fixture at a time, *)
(* each checked against what has been patched so far, and replaces the     *)
(* live one only when the whole list is through.  All of it runs on the    *)
(* show thread, so the operator works controls only between repatches.     *)
(***************************************************************************)
EXTENDS PatchConfig

CONSTANTS ConfigLists,   \* the lists the operator may ask for
          NoRequest,     \* no repatch is under way
          MaxRepatches   \* bound: repatches asked for

\* What the types of a list, a block and a flag say.
ASSUME ListsAssumption ==
    /\ NoRequest \notin ConfigLists
    /\ \A list \in ConfigLists :
        /\ list \in Seq(ToSet(list))
        /\ \A config \in ToSet(list) :
            /\ config.channel \in BOOLEAN
            /\ config.patches \in Seq(ToSet(config.patches))
            /\ \A entry \in ToSet(config.patches) : entry.count \in Nat

VARIABLES
    patch,      \* the live patch
    new_patch,  \* the patch being built
    cfgs,       \* the list being patched, or NoRequest
    i, b, left, \* group, block, and fixtures of the block still to patch
    dmx_index,  \* where the next of them goes
    group,      \* the group being built
    pc,         \* where patch_all is: "idle", "group", "block" or "fixture"
    outcome,    \* what the last repatch returned
    asked       \* repatches asked for

cursor == <<cfgs, i, b, left, dmx_index, group, pc>>
vars == <<patch, new_patch, cursor, outcome, asked>>

EmptyMap == [k \in {} |-> k]
Put(f, k, v) == [x \in DOMAIN f \cup {k} |-> IF x = k THEN v ELSE f[x]]

Channel(c) == [channel |-> TRUE, at |-> c]
NonChannel(n) == [channel |-> FALSE, at |-> n]

empty_patch ==
    [channels |-> <<>>, non_channel |-> <<>>, by_id |-> EmptyMap,
     by_name |-> EmptyMap, used_addrs |-> EmptyMap, configs |-> <<>>]

Init ==
    /\ patch = empty_patch /\ new_patch = empty_patch
    /\ cfgs = NoRequest /\ i = 0 /\ b = 0 /\ left = 0 /\ dmx_index = 0
    /\ group = <<>> /\ pc = "idle"
    /\ outcome = "none" /\ asked = 0

repatch(list) ==
    /\ pc = "idle" /\ asked < MaxRepatches
    /\ asked' = asked + 1
    /\ cfgs' = list /\ i' = 1 /\ pc' = "group"
    /\ new_patch' = empty_patch
    /\ UNCHANGED <<patch, b, left, dmx_index, group, outcome>>

(***************************************************************************)
(* The checks, in the order of the code                                    *)
(***************************************************************************)
cfg == cfgs[i]
block == cfg.patches[b]
width == channel_count[cfg.fixture]

\* Mutant: a group may take the name of a fixture type.
GroupRefused_TypeName ==
    \/ cfg.fixture \notin FixtureTypes
    \/ name(cfg) \in DOMAIN new_patch.by_name
    \/ cfg.id \in DOMAIN new_patch.by_id
    \/ cfg.options \in BadOptions
    \/ cfg.patches = <<>>

GroupRefused ==
    \/ cfg.fixture \notin FixtureTypes
    \/ cfg.group \in FixtureTypes
    \/ name(cfg) \in DOMAIN new_patch.by_name
    \/ cfg.id \in DOMAIN new_patch.by_id
    \/ cfg.options \in BadOptions
    \/ cfg.patches = <<>>

BlockRefused ==
    \/ block.options \in BadOptions
    \/ block.addr = NoAddr /\ width # 0
    \/ block.addr # NoAddr /\ (width = 0 \/ block.addr \notin 1 .. DmxSize)

Wanted == addresses(fixture_config(block.universe, dmx_index, width))

\* Mutant: only the first address of the fixture is looked up.
AddressRefused_FirstOnly ==
    \/ dmx_index >= DmxSize
    \/ dmx_index + width > DmxSize
    \/ \E a \in {<<block.universe, dmx_index>>} \cap DOMAIN new_patch.used_addrs :
        ~have_mutual_affinity(cfg.fixture, new_patch.used_addrs[a])

AddressRefused ==
    \/ dmx_index >= DmxSize
    \/ dmx_index + width > DmxSize
    \/ \E a \in Wanted \cap DOMAIN new_patch.used_addrs :
        ~have_mutual_affinity(cfg.fixture, new_patch.used_addrs[a])

(***************************************************************************)
(* Patch::patch for one configuration                                      *)
(***************************************************************************)
StartGroup ==
    /\ pc = "group" /\ i <= Len(cfgs) /\ ~GroupRefused
    /\ group' = empty_group(cfg) /\ b' = 1 /\ pc' = "block"
    /\ UNCHANGED <<patch, new_patch, cfgs, i, left, dmx_index, outcome, asked>>

PatchBlock ==
    /\ pc = "block" /\ b <= Len(cfg.patches) /\ ~BlockRefused
    /\ IF block.addr = NoAddr
       THEN /\ group' = [group EXCEPT !.fixtures =
                    Append(@, fixture_config(block.universe, NoIndex, width))]
            /\ b' = b + 1
            /\ UNCHANGED <<left, dmx_index, pc>>
       ELSE /\ left' = block.count /\ dmx_index' = block.addr - 1
            /\ pc' = "fixture" /\ UNCHANGED <<group, b>>
    /\ UNCHANGED <<patch, new_patch, cfgs, i, outcome, asked>>

allocate ==
    /\ pc = "fixture" /\ left > 0 /\ ~AddressRefused
    /\ new_patch' = [new_patch EXCEPT !.used_addrs =
            [a \in DOMAIN @ \cup Wanted |->
                IF a \in Wanted THEN cfg.fixture ELSE @[a]]]
    /\ group' = [group EXCEPT !.fixtures =
            Append(@, fixture_config(block.universe, dmx_index, width))]
    /\ dmx_index' = dmx_index + width /\ left' = left - 1
    /\ UNCHANGED <<patch, cfgs, i, b, pc, outcome, asked>>

EndBlock ==
    /\ pc = "fixture" /\ left = 0
    /\ b' = b + 1 /\ pc' = "block"
    /\ UNCHANGED <<patch, new_patch, cfgs, i, left, dmx_index, group, outcome,
                   asked>>

Placed(p, g, location) ==
    [p EXCEPT !.by_id = Put(@, g.id, location),
              !.by_name = Put(@, g.name, location)]

\* Mutant: the location is taken after the group has been pushed.
EndGroup_AfterPush ==
    LET g == init_positioner_if_supported(group)
    IN  /\ pc = "block" /\ b > Len(cfg.patches)
        /\ new_patch' =
            IF cfg.channel
            THEN Placed([new_patch EXCEPT !.channels = Append(@, g)], g,
                        Channel(Len(new_patch.channels) + 1))
            ELSE Placed([new_patch EXCEPT !.non_channel = Append(@, g)], g,
                        NonChannel(Len(new_patch.non_channel) + 1))
        /\ i' = i + 1 /\ pc' = "group"
        /\ UNCHANGED <<patch, cfgs, b, left, dmx_index, group, outcome, asked>>

EndGroup ==
    LET g == init_positioner_if_supported(group)
    IN  /\ pc = "block" /\ b > Len(cfg.patches)
        /\ new_patch' =
            IF cfg.channel
            THEN Placed([new_patch EXCEPT !.channels = Append(@, g)], g,
                        Channel(Len(new_patch.channels)))
            ELSE Placed([new_patch EXCEPT !.non_channel = Append(@, g)], g,
                        NonChannel(Len(new_patch.non_channel)))
        /\ i' = i + 1 /\ pc' = "group"
        /\ UNCHANGED <<patch, cfgs, b, left, dmx_index, group, outcome, asked>>

(***************************************************************************)
(* The end of repatch                                                      *)
(***************************************************************************)
Idle ==
    /\ cfgs' = NoRequest /\ i' = 0 /\ b' = 0 /\ left' = 0 /\ dmx_index' = 0
    /\ group' = <<>> /\ pc' = "idle" /\ new_patch' = empty_patch

\* The `?` on patch_all: the patch under construction is dropped.
Refuse ==
    /\ \/ pc = "group" /\ i <= Len(cfgs) /\ GroupRefused
       \/ pc = "block" /\ b <= Len(cfg.patches) /\ BlockRefused
       \/ pc = "fixture" /\ left > 0 /\ AddressRefused
    /\ Idle /\ outcome' = "error" /\ UNCHANGED <<patch, asked>>

Replace ==
    /\ pc = "group" /\ i > Len(cfgs)
    /\ patch' = [new_patch EXCEPT
            !.channels = carry_over(@, patch),
            !.non_channel = carry_over(@, patch),
            !.configs = cfgs]
    /\ Idle /\ outcome' = "ok" /\ UNCHANGED asked

control(id) ==
    /\ pc = "idle"
    /\ patch' = [patch EXCEPT !.channels = operated(@, id),
                              !.non_channel = operated(@, id)]
    /\ UNCHANGED <<new_patch, cursor, outcome, asked>>

Next ==
    \/ \E list \in ConfigLists : repatch(list)
    \/ StartGroup \/ PatchBlock \/ allocate \/ EndBlock \/ EndGroup
    \/ Refuse \/ Replace
    \/ \E id \in GroupIds : control(id)

Spec == Init /\ [][Next]_vars

-----------------------------------------------------------------------------
(***************************************************************************)
(* Properties                                                              *)
(***************************************************************************)
Locate(p, location) ==
    IF location.channel THEN p.channels[location.at + 1]
    ELSE p.non_channel[location.at + 1]

Locations(p) ==
    {Channel(c - 1) : c \in DOMAIN p.channels}
        \cup {NonChannel(n - 1) : n \in DOMAIN p.non_channel}

Consistent(p) ==
    /\ \A id \in DOMAIN p.by_id :
        p.by_id[id] \in Locations(p) /\ Locate(p, p.by_id[id]).id = id
    /\ \A n \in DOMAIN p.by_name :
        p.by_name[n] \in Locations(p) /\ Locate(p, p.by_name[n]).name = n
    /\ \A location \in Locations(p) :
        /\ Locate(p, location).id \in DOMAIN p.by_id
        /\ Locate(p, location).name \in DOMAIN p.by_name
        /\ p.by_id[Locate(p, location).id] = location
        /\ p.by_name[Locate(p, location).name] = location

(* The `by_id` and `by_name` maps hold locations that point into one of    *)
(* the two vectors: the group found by an id or a name is the group of     *)
(* that id or name, and every group can be found.  Its failure is what the *)
(* code reports as a patch inconsistency (PI-001).                         *)
IndicesAgree == Consistent(patch) /\ Consistent(new_patch)

(* No two fixtures of the live patch render into the same DMX address      *)
(* unless their types have mutual affinity, and every address is inside    *)
(* the universe, so that rendering slices the buffer without a panic.      *)
NoCollision ==
    LET all == Groups(patch)
    IN  /\ \A g \in all : \A k \in DOMAIN g.fixtures :
            \A a \in addresses(g.fixtures[k]) : a[2] \in 0 .. DmxSize - 1
        /\ \A g, h \in all :
            \A k \in DOMAIN g.fixtures, l \in DOMAIN h.fixtures :
                \/ <<g.id, k>> = <<h.id, l>>
                \/ addresses(g.fixtures[k]) \cap addresses(h.fixtures[l]) = {}
                \/ have_mutual_affinity(g.fixture_type, h.fixture_type)

(* "Keep their live runtime state": the controls a group holds are its own *)
(* or fresh, never those of another group it displaced, was renamed to or  *)
(* took the channel of, and its offset vectors fit its fixtures.           *)
ControlsAreOwn ==
    \A g \in Groups(patch) :
        /\ g.controls \in {Fresh, g.id}
        /\ Len(g.positioner) =
            IF g.fixture_type \in Positionable THEN Len(g.fixtures) ELSE 0

Abstract ==
    INSTANCE PatchSpec WITH
        patch <- [channels |-> patch.channels,
                  non_channel |-> patch.non_channel,
                  configs |-> patch.configs],
        request <- cfgs

(* Built group by group, block by block and address by address, the patch  *)
(* accepts exactly the lists PatchSpec calls patchable, and a repatch, one *)
(* that fails half way included, is one atomic step to its caller.         *)
ImplementsPatchSpec == Abstract!Spec
=============================================================================

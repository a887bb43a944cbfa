--------------------------- MODULE PatchContract ---------------------------
(***************************************************************************)
(* Which lists of configurations can be patched, and what they are patched *)
(* to: the part of PatchSpec that is about lists and patches only.         *)
(***************************************************************************)
EXTENDS PatchConfig

(***************************************************************************)
(* The places of the fixtures of a group: <<b, k>> is the k-th of block b. *)
(***************************************************************************)
Places(cfg) ==
    UNION {{b} \X (1 .. start_count(cfg.patches[b])) : b \in DOMAIN cfg.patches}

Lower(i, j) == i < j
Before(p, q) == p[1] < q[1] \/ (p[1] = q[1] /\ p[2] < q[2])

FixtureAt(cfg, p) ==
    LET block == cfg.patches[p[1]]
        width == channel_count[cfg.fixture]
    IN  fixture_config(block.universe,
            IF block.addr = NoAddr THEN NoIndex
            ELSE block.addr - 1 + (p[2] - 1) * width, width)

(***************************************************************************)
(* What is patchable                                                       *)
(***************************************************************************)
BlockWellFormed(block, width) ==
    /\ block.options \notin BadOptions
    /\ block.addr = NoAddr <=> width = 0
    /\ block.addr # NoAddr =>
        /\ block.addr \in 1 .. DmxSize
        /\ \A k \in 1 .. block.count : block.addr - 1 + k * width <= DmxSize

WellFormed(cfg) ==
    /\ cfg.fixture \in FixtureTypes
    /\ cfg.group \notin FixtureTypes
    /\ cfg.options \notin BadOptions
    /\ cfg.patches # <<>>
    /\ \A b \in DOMAIN cfg.patches :
        BlockWellFormed(cfg.patches[b], channel_count[cfg.fixture])

FixturesApart(cfgs) ==
    \A i, j \in DOMAIN cfgs :
        \A p \in Places(cfgs[i]), q \in Places(cfgs[j]) :
            \/ <<i, p>> = <<j, q>>
            \/ addresses(FixtureAt(cfgs[i], p))
                 \cap addresses(FixtureAt(cfgs[j], q)) = {}
            \/ have_mutual_affinity(cfgs[i].fixture, cfgs[j].fixture)

Patchable(cfgs) ==
    /\ \A i \in DOMAIN cfgs : WellFormed(cfgs[i])
    /\ \A i, j \in DOMAIN cfgs :
        i # j => cfgs[i].id # cfgs[j].id /\ name(cfgs[i]) # name(cfgs[j])
    /\ FixturesApart(cfgs)

(***************************************************************************)
(* What it is patched to                                                   *)
(***************************************************************************)
\* SetToSortSeq of the community modules, but defined so that provers can
\* expand it.
InOrder(S, Less(_, _)) ==
    CHOOSE e \in [1 .. Cardinality(S) -> S] :
        \A m, n \in DOMAIN e : m < n => Less(e[m], e[n])

Fixtures(cfg) ==
    LET places == InOrder(Places(cfg), Before)
    IN  [n \in DOMAIN places |-> FixtureAt(cfg, places[n])]

GroupOf(cfg) ==
    init_positioner_if_supported(
        [empty_group(cfg) EXCEPT !.fixtures = Fixtures(cfg)])

GroupsOf(cfgs, channel) ==
    LET chosen == InOrder({i \in DOMAIN cfgs : cfgs[i].channel = channel}, Lower)
    IN  [n \in DOMAIN chosen |-> GroupOf(cfgs[chosen[n]])]

Patched(cfgs, old) ==
    [channels |-> carry_over(GroupsOf(cfgs, TRUE), old),
     non_channel |-> carry_over(GroupsOf(cfgs, FALSE), old),
     configs |-> cfgs]
=============================================================================

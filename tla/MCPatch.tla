------------------------------ MODULE MCPatch ------------------------------
(***************************************************************************)
(* An instance of Patch: five fixture types, one of them without DMX, one  *)
(* that takes two addresses and one pair with mutual affinity, on          *)
(* universes of four addresses.                                            *)
(***************************************************************************)
EXTENDS Patch, FiniteSets

MCFixtureTypes == {"wash", "spot", "derby", "strobe", "wled"}

MCChannelCount ==
    [t \in MCFixtureTypes |->
        CASE t = "wash" -> 2 [] t = "wled" -> 0 [] OTHER -> 1]

MCAffinities == {{"derby", "strobe"}}

Single(addr, universe) ==
    [addr |-> addr, count |-> 1, universe |-> universe, options |-> "good"]
Many(addr, count) ==
    [addr |-> addr, count |-> count, universe |-> 0, options |-> "good"]

Config(id, fixture, grp, channel, patches) ==
    [id |-> id, fixture |-> fixture, group |-> grp, options |-> "good",
     channel |-> channel, patches |-> patches]

\* Lists in every relation to one another that repatch tells apart: groups
\* reordered, renamed, retyped, resized, moved off their channel and removed.
GoodLists == {
    <<>>,
    <<Config("g1", "wash", NoName, TRUE, <<Many(1, 2)>>)>>,
    <<Config("g1", "wash", "front", TRUE, <<Single(1, 0)>>),
      Config("g2", "spot", NoName, TRUE, <<Single(3, 0), Single(4, 0)>>)>>,
    <<Config("g2", "spot", "front", TRUE, <<Many(1, 3)>>),
      Config("g1", "wash", "back", FALSE, <<Single(3, 1)>>)>>,
    <<Config("g2", "spot", "front", FALSE, <<Many(1, 0)>>),
      Config("g1", "spot", NoName, TRUE, <<Single(2, 0)>>)>>,
    <<Config("g1", "derby", NoName, TRUE, <<Many(1, 2)>>),
      Config("g2", "strobe", NoName, TRUE, <<Single(2, 0)>>)>>,
    <<Config("g2", "wled", NoName, TRUE, <<Single(NoAddr, 0)>>),
      [Config("g1", "wash", NoName, TRUE, <<Many(1, 2)>>)
            EXCEPT !.options = "other"]>> }

BadLists == {
    <<Config("g1", "laser", NoName, TRUE, <<Single(1, 0)>>)>>,
    <<Config("g1", "spot", "wash", TRUE, <<Single(1, 0)>>)>>,
    <<Config("g1", "spot", NoName, TRUE, <<>>)>>,
    <<[Config("g1", "spot", NoName, TRUE, <<Single(1, 0)>>)
            EXCEPT !.options = "bad"]>>,
    <<Config("g1", "spot", NoName, TRUE,
        <<[Single(1, 0) EXCEPT !.options = "bad"]>>)>>,
    <<Config("g1", "spot", NoName, TRUE, <<Single(1, 0)>>),
      Config("g1", "spot", "front", TRUE, <<Single(2, 0)>>)>>,
    <<Config("g1", "spot", NoName, TRUE, <<Single(1, 0)>>),
      Config("g2", "spot", NoName, TRUE, <<Single(2, 0)>>)>>,
    <<Config("g1", "spot", NoName, TRUE, <<Single(2, 0)>>),
      Config("g2", "wash", NoName, TRUE, <<Single(1, 0)>>)>>,
    <<Config("g1", "derby", NoName, TRUE, <<Many(2, 2)>>),
      Config("g2", "wash", NoName, FALSE, <<Many(1, 1)>>)>>,
    <<Config("g1", "wash", NoName, TRUE, <<Many(1, 3)>>)>>,
    <<Config("g1", "wash", NoName, TRUE, <<Single(4, 0)>>)>>,
    <<Config("g1", "spot", NoName, TRUE, <<Single(5, 0)>>)>>,
    <<Config("g1", "spot", NoName, TRUE, <<Many(5, 0)>>)>>,
    <<Config("g1", "spot", NoName, TRUE, <<Many(4, 2)>>)>>,
    <<Config("g1", "wash", NoName, TRUE, <<Single(NoAddr, 0)>>)>>,
    <<Config("g1", "wled", NoName, TRUE, <<Single(1, 0)>>)>> }

MCConfigLists == GoodLists \cup BadLists
=============================================================================

---------------------------- MODULE MCPositioner ----------------------------
(***************************************************************************)
(* Instances of Positioner with presets of two slots and two axes, and     *)
(* groups whose number of fixtures, kind, channel and number change: down  *)
(* to a group of no fixtures and a patch of no channels.                   *)
(***************************************************************************)
EXTENDS Positioner

Group(kind, count) == [kind |-> kind, fixture_count |-> count]

Both == [channels |-> <<"b", "a">>,
         groups |-> [g \in {"a", "b"} |->
            IF g = "a" THEN Group("wash", 2) ELSE Group("spot", 0)]]
Less == [channels |-> <<"a", "c", "b">>,
         groups |-> [g \in {"a", "b", "c"} |->
            CASE g = "a" -> Group("wash", 1) [] g = "b" -> Group("spot", 1)
              [] g = "c" -> Group("dimmer", 1)]]
Aside == [channels |-> <<>>, groups |-> [g \in {"a"} |-> Group("spot", 1)]]

MCNames == [s \in 0 .. 1 |-> IF s = 0 THEN "Position 1" ELSE "Position 2"]

\* Sizes of a bump in units of the finest: the largest exceeds the range.
MCMagnitude == [s \in {"Coarse", "Medium"} |-> IF s = "Coarse" THEN 2 ELSE 1]

OneBump == {<<"X", 1>>}
Regroupings == {Both, Less, Aside}
=============================================================================

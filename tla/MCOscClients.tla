---------------------------- MODULE MCOscClients ----------------------------
(***************************************************************************)
(* Instances of OscClients: one surface on one port that sends all sorts   *)
(* of datagrams, and one that only sets its control, with three ports.     *)
(***************************************************************************)
EXTENDS OscClients, TLC

AllBundles == {<<l>> : l \in Levels}
    \cup {<<Deregister>>, <<Ignore>>}
    \cup {<<Deregister, l>> : l \in Levels}
    \cup {<<Malformed, l>> : l \in Levels}

\* What a surface does that neither leaves nor sends anything unusual.
FaderOnly == {<<l>> : l \in Levels}

Symmetry == Permutations(Clients) \cup Permutations(Levels)
=============================================================================

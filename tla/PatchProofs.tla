----------------------------- MODULE PatchProofs -----------------------------
(***************************************************************************)
(* Proofs about Patch, for any lists of configurations, any types of       *)
(* fixture and any size of a universe: the location maps are right after   *)
(* every group that is patched, no two fixtures of a live patch share an   *)
(* address unless they may, and controls stay with their group.            *)
(*                                                                         *)
(* For the invariants nothing is assumed of the lists: all that is relied  *)
(* on is checked by the code when it comes to it.  used_addrs has one type *)
(* per address, that of the last fixture put there; that this is enough to *)
(* tell all that are there is where affinities must be disjoint.           *)
(*                                                                         *)
(* The refinement of PatchSpec is proved from a second invariant, HInv: it *)
(* says which part of the list has been patched, and that the new patch,   *)
(* its maps, its addresses and the group that is built are what that part  *)
(* is to be patched to.                                                    *)
(***************************************************************************)
EXTENDS Patch, PatchContract, SequenceFacts, FiniteSetTheorems, FunctionTheorems,
        WellFoundedInduction

(***************************************************************************)
(* Groups                                                                  *)
(***************************************************************************)
IsGroup(g) ==
    /\ g = [id |-> g.id, fixture_type |-> g.fixture_type, name |-> g.name,
            options |-> g.options, fixtures |-> g.fixtures,
            controls |-> g.controls, positioner |-> g.positioner]
    /\ IsSeq(g.fixtures) /\ IsSeq(g.positioner)

\* The part of ControlsAreOwn that is about one group.
Own(g) ==
    /\ g.controls \in {Fresh, g.id}
    /\ Len(g.positioner) =
        IF g.fixture_type \in Positionable THEN Len(g.fixtures) ELSE 0

InUniverse(g) ==
    \A k \in DOMAIN g.fixtures : \A a \in addresses(g.fixtures[k]) :
        a[2] \in 0 .. DmxSize - 1

Clear(f, s, h, t) ==
    addresses(f) \cap addresses(h) = {} \/ have_mutual_affinity(s, t)
ClearGroups(g, h) ==
    \A k \in DOMAIN g.fixtures, l \in DOMAIN h.fixtures :
        Clear(g.fixtures[k], g.fixture_type, h.fixtures[l], h.fixture_type)
SelfClear(g) ==
    \A k, l \in DOMAIN g.fixtures :
        k = l \/ Clear(g.fixtures[k], g.fixture_type, g.fixtures[l], g.fixture_type)

GroupOK(g) == IsGroup(g) /\ Own(g) /\ InUniverse(g) /\ SelfClear(g)

\* What takes the place of a group in another patch: the same but for its state.
Kin(h, g) ==
    /\ h.id = g.id /\ h.name = g.name
    /\ h.fixture_type = g.fixture_type /\ h.fixtures = g.fixtures

(* A group keeps what it is when its state is replaced.                    *)
LEMMA KinClear ==
    ASSUME NEW g, NEW h, Kin(h, g)
    PROVE  /\ InUniverse(g) => InUniverse(h)
           /\ SelfClear(g) => SelfClear(h)
           /\ \A g2, h2 : Kin(h2, g2) /\ ClearGroups(g, g2) => ClearGroups(h, h2)
BY DEF Kin, InUniverse, SelfClear, ClearGroups

(* Being clear of each other is mutual.                                    *)
LEMMA ClearSymmetric ==
    ASSUME NEW g, NEW h, ClearGroups(g, h)
    PROVE  ClearGroups(h, g)
BY DEF ClearGroups, Clear, have_mutual_affinity

(* The group that is built has fresh controls and an offset per fixture.   *)
LEMMA BuiltGroup ==
    ASSUME NEW g, IsGroup(g), g.controls = Fresh, g.positioner = <<>>,
           NEW h, h = init_positioner_if_supported(g)
    PROVE  IsGroup(h) /\ Own(h) /\ Kin(h, g)
<1> DEFINE n == Len(g.fixtures)
           offsets == [f \in 1 .. n |-> 0]
<1>1. n \in Nat
  BY SeqFacts DEF IsGroup
<1>2. IsSeq(offsets) /\ Len(offsets) = n
  BY <1>1, FunctionIsSeq
<1>3. CASE g.fixture_type \in Positionable
  <2>1. /\ h.positioner = offsets
        /\ h = [id |-> h.id, fixture_type |-> h.fixture_type, name |-> h.name,
                options |-> h.options, fixtures |-> h.fixtures,
                controls |-> h.controls, positioner |-> h.positioner]
        /\ Kin(h, g) /\ h.controls = g.controls
    BY <1>3 DEF IsGroup, Kin, init_positioner_if_supported
  <2> HIDE DEF offsets
  <2> QED
    BY <1>2, <1>3, <2>1 DEF IsGroup, Own, Kin
<1>4. CASE g.fixture_type \notin Positionable
  BY <1>4, Len0 DEF IsGroup, Own, Kin, init_positioner_if_supported
<1> QED
  BY <1>3, <1>4

(* An old group's state is the new group's own, and fits its fixtures.     *)
LEMMA CarriedGroup ==
    ASSUME NEW g, NEW o, GroupOK(g), GroupOK(o), o.id = g.id,
           NEW h, h = reconfigure_from(g, o)
    PROVE  GroupOK(h) /\ Kin(h, g)
<1> DEFINE n == Len(g.fixtures)
           offsets == reconcile_to_fixture_count(o.positioner, n)
<1>1. n \in Nat
  BY SeqFacts DEF GroupOK, IsGroup
<1>2. IsSeq(offsets) /\ Len(offsets) = n
  BY <1>1, FunctionIsSeq DEF reconcile_to_fixture_count
<1>3. CASE ~Compatible(g, o)
  BY <1>3 DEF reconfigure_from, Kin
<1>4. CASE Compatible(g, o)
  <2>1. /\ h.positioner = IF o.fixture_type \in Positionable THEN offsets ELSE g.positioner
        /\ h = [id |-> h.id, fixture_type |-> h.fixture_type, name |-> h.name,
                options |-> h.options, fixtures |-> h.fixtures,
                controls |-> h.controls, positioner |-> h.positioner]
        /\ Kin(h, g) /\ h.controls = o.controls
    BY <1>4 DEF GroupOK, IsGroup, Kin, reconfigure_from
  <2>2. o.fixture_type = g.fixture_type
    BY <1>4 DEF Compatible
  <2> HIDE DEF offsets
  <2>3. IsGroup(h) /\ Own(h)
    BY <1>2, <2>1, <2>2 DEF GroupOK, IsGroup, Own, Kin
  <2> QED
    BY <2>1, <2>3, KinClear DEF GroupOK
<1> QED
  BY <1>3, <1>4

(* A group whose controls are operated makes them its own.                 *)
LEMMA OperatedGroup ==
    ASSUME NEW g, GroupOK(g), NEW h,
           h = [g EXCEPT !.controls = g.id,
                         !.positioner = [f \in DOMAIN g.positioner |-> 1]]
    PROVE  GroupOK(h) /\ Kin(h, g)
<1> DEFINE offsets == [f \in DOMAIN g.positioner |-> 1]
<1>1. DOMAIN g.positioner = 1 .. Len(g.positioner) /\ Len(g.positioner) \in Nat
  BY SeqFacts DEF GroupOK, IsGroup
<1>2. IsSeq(offsets) /\ Len(offsets) = Len(g.positioner)
  BY <1>1, FunctionIsSeq
<1>3. /\ h.positioner = offsets
      /\ h = [id |-> h.id, fixture_type |-> h.fixture_type, name |-> h.name,
              options |-> h.options, fixtures |-> h.fixtures,
              controls |-> h.controls, positioner |-> h.positioner]
      /\ Kin(h, g) /\ h.controls = g.id
  BY DEF GroupOK, IsGroup, Kin
<1> HIDE DEF offsets
<1>4. IsGroup(h) /\ Own(h)
  BY <1>2, <1>3 DEF GroupOK, IsGroup, Own, Kin
<1> QED
  BY <1>3, <1>4, KinClear DEF GroupOK

(***************************************************************************)
(* Patches                                                                 *)
(***************************************************************************)
IsPatch(p) ==
    /\ p = [channels |-> p.channels, non_channel |-> p.non_channel,
            by_id |-> p.by_id, by_name |-> p.by_name,
            used_addrs |-> p.used_addrs, configs |-> p.configs]
    /\ IsSeq(p.channels) /\ IsSeq(p.non_channel)

AllClear(p) ==
    \A x, y \in Locations(p) : x = y \/ ClearGroups(Locate(p, x), Locate(p, y))

PatchOK(p) ==
    /\ IsPatch(p) /\ Consistent(p) /\ AllClear(p)
    /\ \A x \in Locations(p) : GroupOK(Locate(p, x))

(* The groups of a patch are those at its locations.                       *)
LEMMA Located ==
    ASSUME NEW p, IsPatch(p)
    PROVE  /\ \A g \in Groups(p) : \E x \in Locations(p) : g = Locate(p, x)
           /\ \A x \in Locations(p) : Locate(p, x) \in Groups(p)
<1>1. /\ \A c \in DOMAIN p.channels : c \in Int /\ (c - 1) + 1 = c
      /\ \A c \in DOMAIN p.non_channel : c \in Int /\ (c - 1) + 1 = c
  <2>1. IsSeq(p.channels) /\ IsSeq(p.non_channel)
    BY DEF IsPatch
  <2>2. /\ DOMAIN p.channels = 1 .. Len(p.channels)
        /\ DOMAIN p.non_channel = 1 .. Len(p.non_channel)
    BY <2>1, SeqFacts
  <2> QED
    BY <2>2
<1>2. /\ \A c \in DOMAIN p.channels : Locate(p, Channel(c - 1)) = p.channels[c]
      /\ \A c \in DOMAIN p.non_channel :
            Locate(p, NonChannel(c - 1)) = p.non_channel[c]
  <2>1. \A c : Channel(c).channel /\ Channel(c).at = c
    BY DEF Channel
  <2>2. \A c : ~NonChannel(c).channel /\ NonChannel(c).at = c
    BY DEF NonChannel
  <2> QED
    BY <1>1, <2>1, <2>2 DEF Locate
<1>3. /\ \A x \in Locations(p) :
            \/ \E c \in DOMAIN p.channels : x = Channel(c - 1)
            \/ \E c \in DOMAIN p.non_channel : x = NonChannel(c - 1)
      /\ \A c \in DOMAIN p.channels : Channel(c - 1) \in Locations(p)
      /\ \A c \in DOMAIN p.non_channel : NonChannel(c - 1) \in Locations(p)
  BY DEF Locations
<1>4. \A g : g \in Groups(p) <=>
            \/ \E c \in DOMAIN p.channels : g = p.channels[c]
            \/ \E c \in DOMAIN p.non_channel : g = p.non_channel[c]
  BY DEF Groups, ToSet
<1> QED
  BY <1>2, <1>3, <1>4

(* A patch whose groups are replaced by their kin.                         *)
LEMMA KinPatch ==
    ASSUME NEW p, PatchOK(p), NEW q, IsPatch(q),
           DOMAIN q.channels = DOMAIN p.channels,
           DOMAIN q.non_channel = DOMAIN p.non_channel,
           q.by_id = p.by_id, q.by_name = p.by_name,
           \A x \in Locations(p) :
                GroupOK(Locate(q, x)) /\ Kin(Locate(q, x), Locate(p, x))
    PROVE  PatchOK(q)
<1>1. Locations(q) = Locations(p)
  BY DEF Locations
<1>2. Consistent(q)
  BY <1>1 DEF Consistent, PatchOK, Kin
<1>3. AllClear(q)
  BY <1>1, KinClear DEF AllClear, PatchOK
<1> QED
  BY <1>1, <1>2, <1>3 DEF PatchOK

Pushed(p, g, q, z) ==
    \/ /\ z = Channel(Len(p.channels))
       /\ q = Placed([p EXCEPT !.channels = Append(@, g)], g, z)
    \/ /\ z = NonChannel(Len(p.non_channel))
       /\ q = Placed([p EXCEPT !.non_channel = Append(@, g)], g, z)

(* A group that is pushed, with its location put in the maps: all that is  *)
(* at a location is what was there, and the group is at the new one.       *)
LEMMA PushedGroup ==
    ASSUME NEW p, IsPatch(p), NEW g, NEW q, NEW z, Pushed(p, g, q, z)
    PROVE  /\ IsPatch(q) /\ Locations(q) = Locations(p) \cup {z} /\ Locate(q, z) = g
           /\ z \notin Locations(p)
           /\ \A x \in Locations(p) : Locate(q, x) = Locate(p, x)
           /\ q.by_id = Put(p.by_id, g.id, z) /\ q.by_name = Put(p.by_name, g.name, z)
           /\ q.used_addrs = p.used_addrs
<1>1. IsSeq(p.channels) /\ IsSeq(p.non_channel)
  BY DEF IsPatch
<1>2. /\ Len(p.channels) \in Nat /\ DOMAIN p.channels = 1 .. Len(p.channels)
      /\ Len(p.non_channel) \in Nat /\ DOMAIN p.non_channel = 1 .. Len(p.non_channel)
  BY <1>1, SeqFacts
<1>3. /\ \A c : Channel(c).channel /\ Channel(c).at = c
      /\ \A c : ~NonChannel(c).channel /\ NonChannel(c).at = c
  BY DEF Channel, NonChannel
<1>4. \A x \in Locations(p) :
        \/ \E c \in DOMAIN p.channels : x = Channel(c - 1)
        \/ \E c \in DOMAIN p.non_channel : x = NonChannel(c - 1)
  BY DEF Locations
<1>5. CASE /\ z = Channel(Len(p.channels))
           /\ q = Placed([p EXCEPT !.channels = Append(@, g)], g, z)
  <2>1. PICK s : s = Append(p.channels, g)
    OBVIOUS
  <2>2. /\ q.channels = s /\ q.non_channel = p.non_channel
        /\ q.by_id = Put(p.by_id, g.id, z) /\ q.by_name = Put(p.by_name, g.name, z)
        /\ q.used_addrs = p.used_addrs
        /\ q = [channels |-> q.channels, non_channel |-> q.non_channel,
                by_id |-> q.by_id, by_name |-> q.by_name,
                used_addrs |-> q.used_addrs, configs |-> q.configs]
    BY <1>5, <2>1 DEF IsPatch, Placed
  <2>3. /\ IsSeq(s) /\ Len(s) = Len(p.channels) + 1 /\ s[Len(p.channels) + 1] = g
        /\ \A c \in 1 .. Len(p.channels) : s[c] = p.channels[c]
    BY <1>1, <2>1, AppendSeq
  <2>4. DOMAIN s = DOMAIN p.channels \cup {Len(p.channels) + 1}
    <3>1. DOMAIN s = 1 .. Len(s)
      BY <2>3, SeqFacts
    <3> QED
      BY <1>2, <2>3, <3>1
  <2>5. Locations(q) = Locations(p) \cup {z}
    <3>1. (Len(p.channels) + 1) - 1 = Len(p.channels)
      BY <1>2
    <3> QED
      BY <1>5, <2>2, <2>4, <3>1 DEF Locations
  <2>6. Locate(q, z) = g
    BY <1>3, <1>5, <2>2, <2>3 DEF Locate
  <2>7. ASSUME NEW x \in Locations(p) PROVE Locate(q, x) = Locate(p, x)
    <3>1. CASE \E c \in DOMAIN p.channels : x = Channel(c - 1)
      BY <1>2, <1>3, <2>2, <2>3, <3>1 DEF Locate
    <3>2. CASE \E c \in DOMAIN p.non_channel : x = NonChannel(c - 1)
      BY <1>3, <2>2, <3>2 DEF Locate
    <3> QED
      BY <1>4, <3>1, <3>2
  <2>8. z \notin Locations(p)
    BY <1>2, <1>3, <1>4, <1>5
  <2> QED
    BY <1>1, <2>2, <2>3, <2>5, <2>6, <2>7, <2>8 DEF IsPatch
<1>6. CASE /\ z = NonChannel(Len(p.non_channel))
           /\ q = Placed([p EXCEPT !.non_channel = Append(@, g)], g, z)
  <2>1. PICK s : s = Append(p.non_channel, g)
    OBVIOUS
  <2>2. /\ q.channels = p.channels /\ q.non_channel = s
        /\ q.by_id = Put(p.by_id, g.id, z) /\ q.by_name = Put(p.by_name, g.name, z)
        /\ q.used_addrs = p.used_addrs
        /\ q = [channels |-> q.channels, non_channel |-> q.non_channel,
                by_id |-> q.by_id, by_name |-> q.by_name,
                used_addrs |-> q.used_addrs, configs |-> q.configs]
    BY <1>6, <2>1 DEF IsPatch, Placed
  <2>3. /\ IsSeq(s) /\ Len(s) = Len(p.non_channel) + 1 /\ s[Len(p.non_channel) + 1] = g
        /\ \A c \in 1 .. Len(p.non_channel) : s[c] = p.non_channel[c]
    BY <1>1, <2>1, AppendSeq
  <2>4. DOMAIN s = DOMAIN p.non_channel \cup {Len(p.non_channel) + 1}
    <3>1. DOMAIN s = 1 .. Len(s)
      BY <2>3, SeqFacts
    <3> QED
      BY <1>2, <2>3, <3>1
  <2>5. Locations(q) = Locations(p) \cup {z}
    <3>1. (Len(p.non_channel) + 1) - 1 = Len(p.non_channel)
      BY <1>2
    <3> QED
      BY <1>6, <2>2, <2>4, <3>1 DEF Locations
  <2>6. Locate(q, z) = g
    BY <1>3, <1>6, <2>2, <2>3 DEF Locate
  <2>7. ASSUME NEW x \in Locations(p) PROVE Locate(q, x) = Locate(p, x)
    <3>1. CASE \E c \in DOMAIN p.channels : x = Channel(c - 1)
      BY <1>3, <2>2, <3>1 DEF Locate
    <3>2. CASE \E c \in DOMAIN p.non_channel : x = NonChannel(c - 1)
      BY <1>2, <1>3, <2>2, <2>3, <3>2 DEF Locate
    <3> QED
      BY <1>4, <3>1, <3>2
  <2>8. z \notin Locations(p)
    BY <1>2, <1>3, <1>4, <1>6
  <2> QED
    BY <1>1, <2>2, <2>3, <2>5, <2>6, <2>7, <2>8 DEF IsPatch
<1> QED
  BY <1>5, <1>6 DEF Pushed

(* If it is clear of all that are there the patch is as good as before.    *)
LEMMA AddedGroup ==
    ASSUME NEW p, PatchOK(p), NEW q, IsPatch(q), NEW g, GroupOK(g), NEW z,
           Locations(q) = Locations(p) \cup {z}, Locate(q, z) = g,
           \A x \in Locations(p) :
                Locate(q, x) = Locate(p, x) /\ ClearGroups(Locate(p, x), g),
           q.by_id = Put(p.by_id, g.id, z), q.by_name = Put(p.by_name, g.name, z),
           z \notin Locations(p),
           g.id \notin DOMAIN p.by_id, g.name \notin DOMAIN p.by_name
    PROVE  PatchOK(q)
<1>1. Consistent(q)
  BY DEF Consistent, PatchOK, Put
<1>2. AllClear(q)
  BY ClearSymmetric DEF AllClear, PatchOK
<1> QED
  BY <1>1, <1>2 DEF PatchOK

(* Both sequences of groups replaced, each group by its kin.               *)
LEMMA KinGroups ==
    ASSUME NEW p, PatchOK(p), NEW cs, NEW ns, IsSeq(cs), IsSeq(ns),
           DOMAIN cs = DOMAIN p.channels, DOMAIN ns = DOMAIN p.non_channel,
           \A c \in DOMAIN cs : GroupOK(cs[c]) /\ Kin(cs[c], p.channels[c]),
           \A c \in DOMAIN ns : GroupOK(ns[c]) /\ Kin(ns[c], p.non_channel[c]),
           NEW q, NEW list,
           q = [p EXCEPT !.channels = cs, !.non_channel = ns, !.configs = list]
    PROVE  PatchOK(q)
<1>1. /\ q.channels = cs /\ q.non_channel = ns
      /\ q.by_id = p.by_id /\ q.by_name = p.by_name
      /\ q = [channels |-> q.channels, non_channel |-> q.non_channel,
              by_id |-> q.by_id, by_name |-> q.by_name,
              used_addrs |-> q.used_addrs, configs |-> q.configs]
  BY DEF PatchOK, IsPatch
<1>2. IsPatch(q)
  BY <1>1 DEF IsPatch
<1>3. /\ \A c \in DOMAIN cs : (c - 1) + 1 = c
      /\ \A c \in DOMAIN ns : (c - 1) + 1 = c
  <2>1. DOMAIN cs = 1 .. Len(cs) /\ DOMAIN ns = 1 .. Len(ns)
    BY SeqFacts
  <2> QED
    BY <2>1
<1>4. /\ \A c : Channel(c).channel /\ Channel(c).at = c
      /\ \A c : ~NonChannel(c).channel /\ NonChannel(c).at = c
  BY DEF Channel, NonChannel
<1>5. ASSUME NEW x \in Locations(p)
      PROVE  GroupOK(Locate(q, x)) /\ Kin(Locate(q, x), Locate(p, x))
  <2>1. CASE \E c \in DOMAIN p.channels : x = Channel(c - 1)
    BY <1>1, <1>3, <1>4, <2>1 DEF Locate
  <2>2. CASE \E c \in DOMAIN p.non_channel : x = NonChannel(c - 1)
    BY <1>1, <1>3, <1>4, <2>2 DEF Locate
  <2> QED
    BY <2>1, <2>2 DEF Locations
<1> QED
  BY <1>1, <1>2, <1>5, KinPatch

(* Every group of a patch is all right.                                    *)
LEMMA GroupsOK ==
    ASSUME NEW p, PatchOK(p)
    PROVE  /\ IsSeq(p.channels) /\ IsSeq(p.non_channel)
           /\ \A g \in Groups(p) : GroupOK(g)
           /\ \A c \in DOMAIN p.channels : GroupOK(p.channels[c])
           /\ \A c \in DOMAIN p.non_channel : GroupOK(p.non_channel[c])
<1>1. \A g \in Groups(p) : GroupOK(g)
  BY Located DEF PatchOK
<1> QED
  BY <1>1 DEF Groups, ToSet, PatchOK, IsPatch

(* The groups of a new patch with the state of the old one's.              *)
LEMMA CarriedOver ==
    ASSUME NEW groups, IsSeq(groups), \A c \in DOMAIN groups : GroupOK(groups[c]),
           NEW old, PatchOK(old), NEW s, s = carry_over(groups, old)
    PROVE  /\ IsSeq(s) /\ DOMAIN s = DOMAIN groups
           /\ \A c \in DOMAIN s : GroupOK(s[c]) /\ Kin(s[c], groups[c])
<1>1. DOMAIN groups = 1 .. Len(groups) /\ Len(groups) \in Nat
  BY SeqFacts
<1>2. DOMAIN s = DOMAIN groups /\ IsSeq(s)
  BY <1>1 DEF carry_over, IsSeq
<1>3. ASSUME NEW c \in DOMAIN groups
      PROVE  GroupOK(s[c]) /\ Kin(s[c], groups[c])
  <2>1. CASE \E o \in Groups(old) : o.id = groups[c].id
    <3>1. PICK o : /\ o \in Groups(old) /\ o.id = groups[c].id
                   /\ s[c] = reconfigure_from(groups[c], o)
      BY <2>1 DEF carry_over
    <3> QED
      BY <3>1, GroupsOK, CarriedGroup
  <2>2. CASE ~\E o \in Groups(old) : o.id = groups[c].id
    BY <2>2 DEF carry_over, Kin
  <2> QED
    BY <2>1, <2>2
<1> QED
  BY <1>2, <1>3

(* The groups of a patch when one is operated.                             *)
LEMMA OperatedOver ==
    ASSUME NEW groups, IsSeq(groups), \A c \in DOMAIN groups : GroupOK(groups[c]),
           NEW id, NEW s, s = operated(groups, id)
    PROVE  /\ IsSeq(s) /\ DOMAIN s = DOMAIN groups
           /\ \A c \in DOMAIN s : GroupOK(s[c]) /\ Kin(s[c], groups[c])
<1>1. DOMAIN groups = 1 .. Len(groups) /\ Len(groups) \in Nat
  BY SeqFacts
<1>2. DOMAIN s = DOMAIN groups /\ IsSeq(s)
  BY <1>1 DEF operated, IsSeq
<1>3. ASSUME NEW c \in DOMAIN groups
      PROVE  GroupOK(s[c]) /\ Kin(s[c], groups[c])
  <2>1. CASE groups[c].id = id
    <3>1. s[c] = [groups[c] EXCEPT
                    !.controls = groups[c].id,
                    !.positioner = [f \in DOMAIN groups[c].positioner |-> 1]]
      BY <2>1 DEF operated
    <3> QED
      BY <3>1, OperatedGroup
  <2>2. CASE groups[c].id # id
    BY <2>2 DEF operated, Kin
  <2> QED
    BY <2>1, <2>2
<1> QED
  BY <1>2, <1>3

(***************************************************************************)
(* Addresses                                                               *)
(***************************************************************************)
\* used_addrs knows of the fixtures of a group, or of others put over them.
Recorded(g, used) ==
    \A k \in DOMAIN g.fixtures : \A a \in addresses(g.fixtures[k]) :
        /\ a \in DOMAIN used
        /\ used[a] = g.fixture_type \/ have_mutual_affinity(used[a], g.fixture_type)

(* Affinity is passed on, since a type has one set of types at most.       *)
LEMMA Transitive ==
    ASSUME NEW f, NEW g, NEW h, have_mutual_affinity(f, g), have_mutual_affinity(g, h)
    PROVE  have_mutual_affinity(f, h)
BY TypesAssumption DEF have_mutual_affinity

(* A fixture that is not refused is clear of all that is recorded.         *)
LEMMA NotRefused ==
    ASSUME NEW g, NEW used, Recorded(g, used), NEW f, NEW t,
           \A a \in addresses(f) \cap DOMAIN used : have_mutual_affinity(t, used[a])
    PROVE  \A k \in DOMAIN g.fixtures :
             /\ Clear(g.fixtures[k], g.fixture_type, f, t)
             /\ Clear(f, t, g.fixtures[k], g.fixture_type)
<1>1. ASSUME NEW k \in DOMAIN g.fixtures,
             NEW a \in addresses(g.fixtures[k]) \cap addresses(f)
      PROVE  have_mutual_affinity(t, g.fixture_type)
  BY <1>1, Transitive DEF Recorded
<1>2. \A r, s : have_mutual_affinity(r, s) => have_mutual_affinity(s, r)
  BY DEF have_mutual_affinity
<1> QED
  BY <1>1, <1>2 DEF Clear

(* It is recorded in its turn, and so are all others still.                *)
LEMMA StillRecorded ==
    ASSUME NEW g, NEW used, Recorded(g, used), NEW W, NEW t,
           \A a \in W \cap DOMAIN used : have_mutual_affinity(t, used[a]),
           NEW used2,
           used2 = [a \in DOMAIN used \cup W |-> IF a \in W THEN t ELSE used[a]]
    PROVE  Recorded(g, used2)
BY Transitive DEF Recorded

(* One more fixture in a group.                                            *)
LEMMA OneMore ==
    ASSUME NEW g, IsGroup(g), InUniverse(g), SelfClear(g), NEW used, Recorded(g, used),
           NEW f, \A a \in addresses(f) : a[2] \in 0 .. DmxSize - 1,
           \A a \in addresses(f) : a \in DOMAIN used /\ used[a] = g.fixture_type,
           \A k \in DOMAIN g.fixtures :
             /\ Clear(g.fixtures[k], g.fixture_type, f, g.fixture_type)
             /\ Clear(f, g.fixture_type, g.fixtures[k], g.fixture_type),
           NEW h, h = [g EXCEPT !.fixtures = Append(@, f)]
    PROVE  /\ IsGroup(h) /\ InUniverse(h) /\ SelfClear(h) /\ Recorded(h, used)
           /\ h.fixture_type = g.fixture_type /\ h.controls = g.controls
           /\ h.positioner = g.positioner
           /\ \A o : /\ ClearGroups(o, g)
                     /\ \A k \in DOMAIN o.fixtures :
                            Clear(o.fixtures[k], o.fixture_type, f, g.fixture_type)
                     => ClearGroups(o, h)
<1>1. PICK fs : fs = Append(g.fixtures, f)
  OBVIOUS
<1>2. IsSeq(g.fixtures)
  BY DEF IsGroup
<1>3. /\ IsSeq(fs) /\ fs[Len(g.fixtures) + 1] = f
      /\ \A k \in 1 .. Len(g.fixtures) : fs[k] = g.fixtures[k]
      /\ Len(fs) = Len(g.fixtures) + 1
  BY <1>1, <1>2, AppendSeq
<1>4. /\ DOMAIN g.fixtures = 1 .. Len(g.fixtures) /\ Len(g.fixtures) \in Nat
      /\ DOMAIN fs = 1 .. Len(g.fixtures) + 1
  BY <1>2, <1>3, SeqFacts
<1>5. /\ h.fixtures = fs /\ h.fixture_type = g.fixture_type
      /\ h.controls = g.controls /\ h.positioner = g.positioner
      /\ h = [id |-> h.id, fixture_type |-> h.fixture_type, name |-> h.name,
              options |-> h.options, fixtures |-> h.fixtures,
              controls |-> h.controls, positioner |-> h.positioner]
  BY <1>1 DEF IsGroup
<1>6. \A k \in DOMAIN fs :
        \/ k \in DOMAIN g.fixtures /\ fs[k] = g.fixtures[k]
        \/ k = Len(g.fixtures) + 1 /\ fs[k] = f
  BY <1>3, <1>4
<1>7. IsGroup(h)
  BY <1>3, <1>5 DEF IsGroup
<1>8. InUniverse(h)
  BY <1>5, <1>6 DEF InUniverse
<1>9. SelfClear(h)
  BY <1>5, <1>6 DEF SelfClear
<1>10. Recorded(h, used)
  BY <1>5, <1>6 DEF Recorded
<1>11. ASSUME NEW o, ClearGroups(o, g),
              \A k \in DOMAIN o.fixtures :
                 Clear(o.fixtures[k], o.fixture_type, f, g.fixture_type)
       PROVE  ClearGroups(o, h)
  BY <1>5, <1>6, <1>11 DEF ClearGroups
<1> QED
  BY <1>5, <1>7, <1>8, <1>9, <1>10, <1>11

(***************************************************************************)
(* The inductive invariant: both patches are all right, used_addrs records *)
(* every group of the new one, and the group that is built, when there is  *)
(* one, is recorded too, clear of those, and under an id and a name that   *)
(* are still free.                                                         *)
(***************************************************************************)
AllRecorded(p) == \A x \in Locations(p) : Recorded(Locate(p, x), p.used_addrs)

Building ==
    /\ IsGroup(group) /\ InUniverse(group) /\ SelfClear(group)
    /\ group.controls = Fresh /\ group.positioner = <<>>
    /\ group.fixture_type = cfg.fixture /\ cfg.fixture \in FixtureTypes
    /\ group.id \notin DOMAIN new_patch.by_id
    /\ group.name \notin DOMAIN new_patch.by_name
    /\ Recorded(group, new_patch.used_addrs)
    /\ \A x \in Locations(new_patch) : ClearGroups(Locate(new_patch, x), group)

IInv ==
    /\ PatchOK(patch)
    /\ PatchOK(new_patch) /\ AllRecorded(new_patch)
    /\ pc \in {"block", "fixture"} => Building
    /\ pc = "fixture" => dmx_index \in Nat

(* A patch without groups has nothing that could be wrong.                 *)
LEMMA EmptyPatch == PatchOK(empty_patch) /\ AllRecorded(empty_patch)
<1>1. /\ empty_patch.channels = <<>> /\ empty_patch.non_channel = <<>>
      /\ empty_patch.by_id = EmptyMap /\ empty_patch.by_name = EmptyMap
  BY DEF empty_patch
<1>2. IsPatch(empty_patch)
  BY Len0 DEF IsPatch, empty_patch
<1>3. Locations(empty_patch) = {}
  BY <1>1, Len0 DEF Locations
<1>4. DOMAIN EmptyMap = {}
  BY DEF EmptyMap
<1> QED
  BY <1>1, <1>2, <1>3, <1>4 DEF PatchOK, Consistent, AllClear, AllRecorded

(* The first patch is the empty one.                                       *)
LEMMA InitInvariant == Init => IInv
BY EmptyPatch DEF Init, IInv

(* A group that is begun has an id and a name that nobody has.             *)
LEMMA StartGroupStep == IInv /\ StartGroup => IInv'
<1> SUFFICES ASSUME IInv, StartGroup PROVE IInv'
  OBVIOUS
<1>1. /\ patch' = patch /\ new_patch' = new_patch /\ cfg' = cfg
      /\ group' = empty_group(cfg) /\ pc' = "block" /\ ~GroupRefused
  BY DEF StartGroup, cfg
<1>2. /\ IsGroup(group') /\ group'.controls = Fresh /\ group'.positioner = <<>>
      /\ group'.fixture_type = cfg.fixture /\ group'.fixtures = <<>>
      /\ group'.id = cfg.id /\ group'.name = name(cfg)
  BY <1>1, Len0 DEF empty_group, IsGroup
<1>3. /\ InUniverse(group') /\ SelfClear(group')
      /\ Recorded(group', new_patch.used_addrs)
      /\ \A g : ClearGroups(g, group')
  BY <1>2, Len0 DEF InUniverse, SelfClear, Recorded, ClearGroups
<1>4. Building'
  BY <1>1, <1>2, <1>3 DEF Building, GroupRefused
<1> QED
  BY <1>1, <1>4 DEF IInv

(* A block without an address adds a fixture that has none.                *)
LEMMA PatchBlockStep == IInv /\ PatchBlock => IInv'
<1> SUFFICES ASSUME IInv, PatchBlock PROVE IInv'
  OBVIOUS
<1>1. /\ patch' = patch /\ new_patch' = new_patch /\ cfg' = cfg
      /\ Building /\ ~BlockRefused /\ pc = "block"
  BY DEF PatchBlock, cfg, IInv
<1>2. CASE block.addr = NoAddr
  <2>1. PICK f : f = fixture_config(block.universe, NoIndex, width)
    OBVIOUS
  <2>2. addresses(f) = {}
    BY <2>1 DEF addresses, fixture_config
  <2>3. group' = [group EXCEPT !.fixtures = Append(@, f)] /\ pc' = pc
    BY <1>2, <2>1 DEF PatchBlock
  <2>4. \A g, s, t : Clear(g, s, f, t) /\ Clear(f, s, g, t)
    BY <2>2 DEF Clear
  <2>5. /\ IsGroup(group') /\ InUniverse(group') /\ SelfClear(group')
        /\ Recorded(group', new_patch.used_addrs)
        /\ group'.fixture_type = group.fixture_type
        /\ group'.controls = group.controls /\ group'.positioner = group.positioner
        /\ \A o : ClearGroups(o, group) => ClearGroups(o, group')
    BY <1>1, <2>2, <2>3, <2>4, OneMore DEF Building
  <2>6. group'.id = group.id /\ group'.name = group.name
    BY <1>1, <2>3 DEF Building, IsGroup
  <2>7. Building'
    BY <1>1, <2>5, <2>6 DEF Building
  <2> QED
    BY <1>1, <2>3, <2>7 DEF IInv
<1>3. CASE block.addr # NoAddr
  <2>1. group' = group /\ dmx_index' = block.addr - 1 /\ block.addr \in 1 .. DmxSize
    BY <1>1, <1>3 DEF PatchBlock, BlockRefused
  <2>2. dmx_index' \in Nat
    BY <2>1, DmxSizeAssumption
  <2>3. Building'
    BY <1>1, <2>1 DEF Building
  <2> QED
    BY <1>1, <2>2, <2>3 DEF IInv
<1> QED
  BY <1>2, <1>3

(* A fixture gets its addresses only where all that is recorded lets it.   *)
LEMMA allocateStep == IInv /\ allocate => IInv'
<1> SUFFICES ASSUME IInv, allocate PROVE IInv'
  OBVIOUS
<1>1. /\ patch' = patch /\ cfg' = cfg /\ pc' = pc /\ pc = "fixture"
      /\ Building /\ dmx_index \in Nat /\ ~AddressRefused
      /\ dmx_index' = dmx_index + width
  BY DEF allocate, cfg, IInv
<1>2. width \in Nat
  BY <1>1, TypesAssumption DEF width, Building
<1>3. PICK f : f = fixture_config(block.universe, dmx_index, width)
  OBVIOUS
<1>4. /\ addresses(f) = Wanted
      /\ \A a \in Wanted : a[2] \in dmx_index .. dmx_index + width - 1
  BY <1>1, <1>3 DEF Wanted, addresses, fixture_config, NoIndex
<1>5. /\ group' = [group EXCEPT !.fixtures = Append(@, f)]
      /\ new_patch' = [new_patch EXCEPT !.used_addrs =
            [a \in DOMAIN @ \cup Wanted |-> IF a \in Wanted THEN cfg.fixture ELSE @[a]]]
  BY <1>3 DEF allocate
<1>6. PICK used : used = new_patch.used_addrs
  OBVIOUS
<1>7. PICK used2 :
        used2 = [a \in DOMAIN used \cup Wanted |->
                    IF a \in Wanted THEN cfg.fixture ELSE used[a]]
  OBVIOUS
<1>8. PatchOK(new_patch) /\ IsPatch(new_patch)
  BY DEF IInv, PatchOK
<1>9. /\ IsPatch(new_patch') /\ new_patch'.used_addrs = used2
      /\ new_patch'.channels = new_patch.channels
      /\ new_patch'.non_channel = new_patch.non_channel
      /\ new_patch'.by_id = new_patch.by_id /\ new_patch'.by_name = new_patch.by_name
  BY <1>5, <1>6, <1>7, <1>8 DEF IsPatch
<1>10. /\ Locations(new_patch') = Locations(new_patch)
       /\ \A x : Locate(new_patch', x) = Locate(new_patch, x)
  BY <1>9 DEF Locations, Locate
<1>11. PatchOK(new_patch')
  BY <1>8, <1>9, <1>10 DEF PatchOK, Consistent, AllClear
<1>12. \A a \in addresses(f) \cap DOMAIN used : have_mutual_affinity(cfg.fixture, used[a])
  BY <1>1, <1>4, <1>6 DEF AddressRefused
<1>13. ASSUME NEW g, Recorded(g, used) PROVE Recorded(g, used2)
  <2>1. PICK W : W = Wanted
    OBVIOUS
  <2>2. PICK t : t = cfg.fixture
    OBVIOUS
  <2>3. \A a \in W \cap DOMAIN used : have_mutual_affinity(t, used[a])
    BY <1>4, <1>12, <2>1, <2>2
  <2>4. used2 = [a \in DOMAIN used \cup W |-> IF a \in W THEN t ELSE used[a]]
    BY <1>7, <2>1, <2>2
  <2> QED
    BY <1>13, <2>3, <2>4, StillRecorded
<1>14. AllRecorded(new_patch')
  BY <1>6, <1>9, <1>10, <1>13 DEF AllRecorded, IInv
<1>15. \A x \in Locations(new_patch) : \A k \in DOMAIN Locate(new_patch, x).fixtures :
         Clear(Locate(new_patch, x).fixtures[k], Locate(new_patch, x).fixture_type,
               f, group.fixture_type)
  BY <1>1, <1>6, <1>12, NotRefused DEF AllRecorded, IInv, Building
<1>16. \A k \in DOMAIN group.fixtures :
         /\ Clear(group.fixtures[k], group.fixture_type, f, group.fixture_type)
         /\ Clear(f, group.fixture_type, group.fixtures[k], group.fixture_type)
  BY <1>1, <1>6, <1>12, NotRefused DEF Building
<1>17. Recorded(group, used2)
  BY <1>1, <1>6, <1>13 DEF Building
<1>18. \A a \in addresses(f) : a[2] \in 0 .. DmxSize - 1
  <2>1. ~(dmx_index + width > DmxSize)
    BY <1>1 DEF AddressRefused
  <2> QED
    BY <1>1, <1>2, <1>4, <2>1, DmxSizeAssumption
<1>19. \A a \in addresses(f) : a \in DOMAIN used2 /\ used2[a] = group.fixture_type
  BY <1>1, <1>4, <1>7 DEF Building
<1>20. IsGroup(group) /\ InUniverse(group) /\ SelfClear(group)
  BY <1>1 DEF Building
<1>21. /\ IsGroup(group') /\ InUniverse(group') /\ SelfClear(group')
       /\ Recorded(group', used2)
       /\ group'.fixture_type = group.fixture_type
       /\ group'.controls = group.controls /\ group'.positioner = group.positioner
       /\ \A x \in Locations(new_patch) :
            ClearGroups(Locate(new_patch, x), group)
                => ClearGroups(Locate(new_patch, x), group')
  BY <1>5, <1>15, <1>16, <1>17, <1>18, <1>19, <1>20, OneMore
<1>22. group'.id = group.id /\ group'.name = group.name
  BY <1>5, <1>20 DEF IsGroup
<1>23. Building'
  BY <1>1, <1>9, <1>10, <1>21, <1>22 DEF Building
<1>24. dmx_index' \in Nat
  BY <1>1, <1>2
<1> QED
  BY <1>1, <1>11, <1>14, <1>23, <1>24 DEF IInv

(* The group that is built takes its place in the new patch.               *)
LEMMA EndGroupStep == IInv /\ EndGroup => IInv'
<1> SUFFICES ASSUME IInv, EndGroup PROVE IInv'
  OBVIOUS
<1>1. patch' = patch /\ pc' = "group" /\ pc = "block" /\ Building
  BY DEF EndGroup, IInv
<1>2. PICK g : g = init_positioner_if_supported(group)
  OBVIOUS
<1>3. IsGroup(g) /\ Own(g) /\ Kin(g, group)
  BY <1>1, <1>2, BuiltGroup DEF Building
<1>4. GroupOK(g)
  BY <1>1, <1>3, KinClear DEF GroupOK, Building
<1>5. /\ Recorded(g, new_patch.used_addrs)
      /\ \A x \in Locations(new_patch) : ClearGroups(Locate(new_patch, x), g)
      /\ g.id \notin DOMAIN new_patch.by_id /\ g.name \notin DOMAIN new_patch.by_name
  BY <1>1, <1>3 DEF Kin, Recorded, ClearGroups, Building
<1>6. PICK z : Pushed(new_patch, g, new_patch', z)
  BY <1>2 DEF EndGroup, Pushed
<1>7. PatchOK(new_patch) /\ IsPatch(new_patch)
  BY DEF IInv, PatchOK
<1>8. /\ IsPatch(new_patch') /\ Locations(new_patch') = Locations(new_patch) \cup {z}
      /\ Locate(new_patch', z) = g /\ z \notin Locations(new_patch)
      /\ \A x \in Locations(new_patch) : Locate(new_patch', x) = Locate(new_patch, x)
      /\ new_patch'.by_id = Put(new_patch.by_id, g.id, z)
      /\ new_patch'.by_name = Put(new_patch.by_name, g.name, z)
      /\ new_patch'.used_addrs = new_patch.used_addrs
  BY <1>6, <1>7, PushedGroup
<1>9. PatchOK(new_patch')
  BY <1>4, <1>5, <1>7, <1>8, AddedGroup
<1>10. AllRecorded(new_patch')
  <2>1. AllRecorded(new_patch)
    BY DEF IInv
  <2> QED
    BY <1>5, <1>8, <2>1 DEF AllRecorded
<1> QED
  BY <1>1, <1>9, <1>10 DEF IInv

(* The new patch replaces the live one with the state of its groups.       *)
LEMMA ReplaceStep == IInv /\ Replace => IInv'
<1> SUFFICES ASSUME IInv, Replace PROVE IInv'
  OBVIOUS
<1>1. new_patch' = empty_patch /\ pc' = "idle"
  BY DEF Replace, Idle
<1>2. PatchOK(patch) /\ PatchOK(new_patch)
  BY DEF IInv
<1>3. PICK cs : cs = carry_over(new_patch.channels, patch)
  OBVIOUS
<1>4. PICK ns : ns = carry_over(new_patch.non_channel, patch)
  OBVIOUS
<1>5. patch' = [new_patch EXCEPT !.channels = cs, !.non_channel = ns, !.configs = cfgs]
  BY <1>3, <1>4 DEF Replace
<1>6. /\ IsSeq(new_patch.channels) /\ IsSeq(new_patch.non_channel)
      /\ \A c \in DOMAIN new_patch.channels : GroupOK(new_patch.channels[c])
      /\ \A c \in DOMAIN new_patch.non_channel : GroupOK(new_patch.non_channel[c])
  BY <1>2, GroupsOK
<1>7. /\ IsSeq(cs) /\ DOMAIN cs = DOMAIN new_patch.channels
      /\ \A c \in DOMAIN cs : GroupOK(cs[c]) /\ Kin(cs[c], new_patch.channels[c])
  BY <1>2, <1>3, <1>6, CarriedOver
<1>8. /\ IsSeq(ns) /\ DOMAIN ns = DOMAIN new_patch.non_channel
      /\ \A c \in DOMAIN ns : GroupOK(ns[c]) /\ Kin(ns[c], new_patch.non_channel[c])
  BY <1>2, <1>4, <1>6, CarriedOver
<1>9. PatchOK(patch')
  BY <1>2, <1>5, <1>7, <1>8, KinGroups
<1> QED
  BY <1>1, <1>9, EmptyPatch DEF IInv

(* An operated group is still where it was.                                *)
LEMMA controlStep == ASSUME NEW id, IInv, control(id) PROVE IInv'
<1>1. new_patch' = new_patch /\ pc' = pc /\ pc = "idle"
  BY DEF control, cursor
<1>2. PatchOK(patch)
  BY DEF IInv
<1>3. PICK cs : cs = operated(patch.channels, id)
  OBVIOUS
<1>4. PICK ns : ns = operated(patch.non_channel, id)
  OBVIOUS
<1>5. patch' = [patch EXCEPT !.channels = cs, !.non_channel = ns,
                             !.configs = patch.configs]
  BY <1>2, <1>3, <1>4 DEF control, PatchOK, IsPatch
<1>6. /\ IsSeq(patch.channels) /\ IsSeq(patch.non_channel)
      /\ \A c \in DOMAIN patch.channels : GroupOK(patch.channels[c])
      /\ \A c \in DOMAIN patch.non_channel : GroupOK(patch.non_channel[c])
  BY <1>2, GroupsOK
<1>7. /\ IsSeq(cs) /\ DOMAIN cs = DOMAIN patch.channels
      /\ \A c \in DOMAIN cs : GroupOK(cs[c]) /\ Kin(cs[c], patch.channels[c])
  BY <1>3, <1>6, OperatedOver
<1>8. /\ IsSeq(ns) /\ DOMAIN ns = DOMAIN patch.non_channel
      /\ \A c \in DOMAIN ns : GroupOK(ns[c]) /\ Kin(ns[c], patch.non_channel[c])
  BY <1>4, <1>6, OperatedOver
<1>9. PatchOK(patch')
  BY <1>2, <1>5, <1>7, <1>8, KinGroups
<1> QED
  BY <1>1, <1>9 DEF IInv, AllRecorded

(* No step can break the invariant.                                        *)
LEMMA StepInvariant == IInv /\ [Next]_vars => IInv'
<1> SUFFICES ASSUME IInv, [Next]_vars PROVE IInv'
  OBVIOUS
<1>1. ASSUME NEW list \in ConfigLists, repatch(list) PROVE IInv'
  BY <1>1, EmptyPatch DEF repatch, IInv
<1>2. CASE StartGroup
  BY <1>2, StartGroupStep
<1>3. CASE PatchBlock
  BY <1>3, PatchBlockStep
<1>4. CASE allocate
  BY <1>4, allocateStep
<1>5. CASE EndBlock
  BY <1>5 DEF EndBlock, IInv, Building, cfg
<1>6. CASE EndGroup
  BY <1>6, EndGroupStep
<1>7. CASE Refuse
  BY <1>7, EmptyPatch DEF Refuse, Idle, IInv
<1>8. CASE Replace
  BY <1>8, ReplaceStep
<1>9. ASSUME NEW id \in GroupIds, control(id) PROVE IInv'
  BY <1>9, controlStep
<1>10. CASE UNCHANGED vars
  BY <1>10 DEF vars, cursor, IInv, Building, cfg
<1> QED
  BY <1>1, <1>2, <1>3, <1>4, <1>5, <1>6, <1>7, <1>8, <1>9, <1>10 DEF Next

(* It holds of every state of every behaviour.                             *)
THEOREM Invariance == Spec => []IInv
BY InitInvariant, StepInvariant, PTL DEF Spec

-----------------------------------------------------------------------------
(* by_id and by_name, filled by Patch::patch one group at a time, always   *)
(* lead to the group of that id or name, and every group is led to, in the *)
(* patch that is live and in the one half built: PI-001 is never reported. *)
THEOREM MapsAgree == Spec => []IndicesAgree
<1>1. IInv => IndicesAgree
  BY DEF IInv, PatchOK, IndicesAgree
<1> QED
  BY Invariance, <1>1, PTL

(* However the list is made up, Patch::allocate never lets two fixtures of *)
(* a live patch render into one address unless their types may share it,   *)
(* though used_addrs has only the last type that was put there.            *)
THEOREM NoAddressTwice == Spec => []NoCollision
<1>1. ASSUME IInv PROVE NoCollision
  <2>1. PatchOK(patch) /\ IsPatch(patch) /\ AllClear(patch)
    BY <1>1 DEF IInv, PatchOK
  <2>2. \A g \in Groups(patch) : GroupOK(g)
    BY <2>1, GroupsOK
  <2>3. \A g \in Groups(patch) : \A k \in DOMAIN g.fixtures :
            \A a \in addresses(g.fixtures[k]) : a[2] \in 0 .. DmxSize - 1
    BY <2>2 DEF GroupOK, InUniverse
  <2>4. ASSUME NEW g \in Groups(patch), NEW h \in Groups(patch),
               NEW k \in DOMAIN g.fixtures, NEW l \in DOMAIN h.fixtures,
               <<g.id, k>> # <<h.id, l>>
        PROVE  \/ addresses(g.fixtures[k]) \cap addresses(h.fixtures[l]) = {}
               \/ have_mutual_affinity(g.fixture_type, h.fixture_type)
    <3>1. PICK x \in Locations(patch) : g = Locate(patch, x)
      BY <2>1, Located
    <3>2. PICK y \in Locations(patch) : h = Locate(patch, y)
      BY <2>1, Located
    <3>3. CASE x = y
      <4>1. g = h /\ k # l
        BY <2>4, <3>1, <3>2, <3>3
      <4> QED
        BY <2>2, <4>1 DEF GroupOK, SelfClear, Clear
    <3>4. CASE x # y
      BY <2>1, <3>1, <3>2, <3>4 DEF AllClear, ClearGroups, Clear
    <3> QED
      BY <3>3, <3>4
  <2> QED
    BY <2>3, <2>4 DEF NoCollision
<1> QED
  BY Invariance, <1>1, PTL

(* Patch::repatch hands state on by id and reconfigure_from only between   *)
(* groups of one type: whatever is renamed, moved, split or put in another *)
(* order, no group works another's controls, and no offsets are out of     *)
(* step with the fixtures.                                                 *)
THEOREM ControlsStay == Spec => []ControlsAreOwn
<1>1. ASSUME IInv PROVE ControlsAreOwn
  BY <1>1, GroupsOK DEF IInv, GroupOK, Own, ControlsAreOwn
<1> QED
  BY Invariance, <1>1, PTL

-----------------------------------------------------------------------------
(***************************************************************************)
(* Sets in order                                                           *)
(***************************************************************************)
Sorted(e, R) == \A m, n \in DOMAIN e : m < n => <<e[m], e[n]>> \in R
Lists(e, S) ==
    /\ IsSeq(e)
    /\ \A n \in DOMAIN e : e[n] \in S
    /\ \A x \in S : \E n \in DOMAIN e : e[n] = x

(* A set of numbers has a first.                                           *)
LEMMA First ==
    ASSUME NEW T, T \subseteq Nat, T # {}
    PROVE  \E n \in T : \A m \in T : n <= m
<1>1. PICK n \in T : \A m \in T : ~(<<m, n>> \in OpToRel(<, Nat))
  BY NatLessThanWellFounded, WFMin
<1>2. \A m \in T : ~(m < n)
  BY <1>1 DEF OpToRel
<1> QED
  BY <1>2

(* A set has one enumeration in a strict order.                            *)
LEMMA OneOrder ==
    ASSUME NEW S, NEW R, \A x, y \in S : ~(<<x, y>> \in R /\ <<y, x>> \in R),
           NEW e, Lists(e, S), Sorted(e, R)
    PROVE  /\ Cardinality(S) = Len(e) /\ e \in [1 .. Len(e) -> S]
           /\ \A f \in [1 .. Len(e) -> S] : Sorted(f, R) => f = e
<1>1. PICK N \in Nat : N = Len(e)
  BY SeqFacts DEF Lists
<1>2. DOMAIN e = 1 .. N
  BY <1>1, SeqFacts DEF Lists
<1>3. e \in [1 .. N -> S]
  BY <1>2, SeqFacts DEF Lists, IsSeq
<1>4. ASSUME NEW f \in [1 .. N -> S], Sorted(f, R)
      PROVE  f \in Injection(1 .. N, S)
  <2>1. ASSUME NEW m \in 1 .. N, NEW n \in 1 .. N, f[m] = f[n], m # n
        PROVE  FALSE
    <3>1. m < n \/ n < m
      BY <2>1
    <3>2. <<f[m], f[n]>> \in R \/ <<f[n], f[m]>> \in R
      BY <1>4, <3>1 DEF Sorted
    <3> QED
      BY <2>1, <3>2
  <2> QED
    BY <1>4, <2>1, Fun_IsInj
<1>5. e \in Surjection(1 .. N, S)
  BY <1>2, <1>3, Fun_IsSurj DEF Lists
<1>6. e \in Bijection(1 .. N, S)
  BY <1>3, <1>4, <1>5 DEF Bijection, Lists
<1>7. Cardinality(S) = N
  BY <1>6, FS_CountingElements DEF ExistsBijection
<1>8. IsFiniteSet(S)
  BY <1>6, FS_NatBijection DEF ExistsBijection
<1>9. IsFiniteSet(1 .. N) /\ Cardinality(1 .. N) = N
  BY FS_Interval
<1>10. ASSUME NEW f \in [1 .. N -> S], Sorted(f, R), f # e
       PROVE  FALSE
  <2>1. f \in Injection(1 .. N, S) /\ f \in Surjection(1 .. N, S)
    BY <1>4, <1>7, <1>8, <1>9, <1>10, FS_Injection
  <2>2. PICK T : T = {n \in 1 .. N : f[n] # e[n]}
    OBVIOUS
  <2>3. T # {} /\ T \subseteq Nat
    BY <1>3, <1>10, <2>2
  <2>4. PICK n \in T : \A m \in T : n <= m
    BY <2>2, <2>3, First
  <2>5. n \in 1 .. N /\ f[n] # e[n] /\ \A m \in 1 .. N : m < n => f[m] = e[m]
    BY <2>2, <2>4
  <2>6. f[n] \in S /\ e[n] \in S
    BY <1>3, <1>10, <2>5
  <2>7. PICK l \in 1 .. N : f[l] = e[n]
    BY <2>1, <2>6, Fun_SurjectionProperties
  <2>8. PICK k \in 1 .. N : e[k] = f[n]
    BY <1>2, <2>6 DEF Lists
  <2>9. e \in Injection(1 .. N, S)
    BY <1>6 DEF Bijection
  <2>10. /\ \A q, r \in 1 .. N : f[q] = f[r] => q = r
         /\ \A q, r \in 1 .. N : e[q] = e[r] => q = r
    BY <2>1, <2>9, Fun_InjectionProperties
  <2>11. n < l
    <3>1. CASE l < n
      BY <2>5, <2>7, <2>10, <3>1
    <3> QED
      BY <2>5, <2>7, <3>1
  <2>12. n < k
    <3>1. CASE k < n
      BY <2>5, <2>8, <2>10, <3>1
    <3> QED
      BY <2>5, <2>8, <3>1
  <2>13. <<f[n], f[l]>> \in R /\ <<e[n], e[k]>> \in R
    BY <1>2, <1>10, <2>5, <2>11, <2>12 DEF Sorted, Lists
  <2> QED
    BY <2>6, <2>7, <2>8, <2>13
<1> QED
  BY <1>1, <1>3, <1>7, <1>10

(* The places of a group that have been patched, one after the other, are  *)
(* those places in order.                                                  *)
LEMMA PlacesInOrder ==
    ASSUME NEW S, S \subseteq Nat \X Nat, NEW e, Lists(e, S),
           \A m, n \in DOMAIN e : m < n => Before(e[m], e[n])
    PROVE  InOrder(S, Before) = e
<1>1. PICK R : R = {x \in S \X S : Before(x[1], x[2])}
  OBVIOUS
<1>2. \A x, y \in S : <<x, y>> \in R <=> Before(x, y)
  BY <1>1
<1>3. \A x, y \in S : ~(Before(x, y) /\ Before(y, x))
  <2>1. \A x \in S : x[1] \in Nat /\ x[2] \in Nat
    OBVIOUS
  <2> QED
    BY <2>1 DEF Before
<1>4. Sorted(e, R)
  BY <1>2 DEF Sorted, Lists
<1>5. \A x, y \in S : ~(<<x, y>> \in R /\ <<y, x>> \in R)
  BY <1>2, <1>3
<1>6. /\ Cardinality(S) = Len(e) /\ e \in [1 .. Len(e) -> S]
      /\ \A f \in [1 .. Len(e) -> S] : Sorted(f, R) => f = e
  BY <1>4, <1>5, OneOrder
<1>7. \A f \in [1 .. Len(e) -> S] :
        (\A m, n \in DOMAIN f : m < n => Before(f[m], f[n])) => Sorted(f, R)
  BY <1>2 DEF Sorted
<1>8. \A f \in [1 .. Cardinality(S) -> S] :
        (\A m, n \in DOMAIN f : m < n => Before(f[m], f[n])) <=> f = e
  BY <1>6, <1>7
<1>9. e \in [1 .. Cardinality(S) -> S]
  BY <1>6
<1> QED
  BY <1>8, <1>9 DEF InOrder

(* So are the groups that have been patched to channels, or aside.         *)
LEMMA NumbersInOrder ==
    ASSUME NEW S, S \subseteq Nat, NEW e, Lists(e, S),
           \A m, n \in DOMAIN e : m < n => e[m] < e[n]
    PROVE  InOrder(S, Lower) = e
<1>1. PICK R : R = {x \in S \X S : x[1] < x[2]}
  OBVIOUS
<1>2. \A x, y \in S : <<x, y>> \in R <=> x < y
  BY <1>1
<1>3. \A x, y \in S : ~(<<x, y>> \in R /\ <<y, x>> \in R)
  <2>1. \A x, y \in S : x \in Nat /\ y \in Nat /\ ~(x < y /\ y < x)
    OBVIOUS
  <2> QED
    BY <1>2, <2>1, Zenon
<1>4. Sorted(e, R)
  BY <1>2 DEF Sorted, Lists
<1>5. /\ Cardinality(S) = Len(e) /\ e \in [1 .. Len(e) -> S]
      /\ \A f \in [1 .. Len(e) -> S] : Sorted(f, R) => f = e
  BY <1>3, <1>4, OneOrder
<1>6. \A f \in [1 .. Len(e) -> S] :
        (\A m, n \in DOMAIN f : m < n => f[m] < f[n]) => Sorted(f, R)
  BY <1>2 DEF Sorted
<1>7. \A f \in [1 .. Cardinality(S) -> S] :
        (\A m, n \in DOMAIN f : m < n => f[m] < f[n]) <=> f = e
  BY <1>5, <1>6
<1>8. e \in [1 .. Cardinality(S) -> S]
  BY <1>5
<1> QED
  BY <1>7, <1>8 DEF InOrder, Lower

\* One more in both of two sequences.
BothLonger(e, s, x, y, f, t) == \E l \in Nat :
    /\ IsSeq(f) /\ DOMAIN f = DOMAIN e \cup {l} /\ DOMAIN e \subseteq Nat
    /\ l \notin DOMAIN e /\ \A n \in DOMAIN e : n < l
    /\ f[l] = x /\ t[l] = y
    /\ \A n \in DOMAIN e : f[n] = e[n] /\ t[n] = s[n]
    /\ IsSeq(t) /\ DOMAIN t = DOMAIN f

(* Appending to both is that.                                              *)
LEMMA BothAppend ==
    ASSUME NEW e, IsSeq(e), NEW s, IsSeq(s), DOMAIN s = DOMAIN e,
           NEW x, NEW y, NEW f, f = Append(e, x), NEW t, t = Append(s, y)
    PROVE  BothLonger(e, s, x, y, f, t)
<1>1. Len(e) \in Nat /\ DOMAIN e = 1 .. Len(e)
  BY SeqFacts
<1>2. Len(s) = Len(e)
  <2>1. Len(s) \in Nat /\ DOMAIN s = 1 .. Len(s)
    BY SeqFacts
  <2> QED
    BY <1>1, <2>1
<1>3. /\ IsSeq(f) /\ Len(f) = Len(e) + 1
      /\ \A n \in 1 .. Len(e) : f[n] = e[n]
      /\ f[Len(e) + 1] = x
  BY AppendSeq
<1>4. /\ IsSeq(t) /\ Len(t) = Len(e) + 1
      /\ \A n \in 1 .. Len(e) : t[n] = s[n]
      /\ t[Len(e) + 1] = y
  BY <1>2, AppendSeq
<1>5. DOMAIN f = 1 .. Len(e) + 1 /\ DOMAIN t = 1 .. Len(e) + 1
  BY <1>3, <1>4, SeqFacts
<1>7. PICK l \in Nat : l = Len(e) + 1
  BY <1>1
<1>8. /\ DOMAIN f = DOMAIN e \cup {l} /\ DOMAIN e \subseteq Nat
      /\ l \notin DOMAIN e /\ \A n \in DOMAIN e : n < l
  BY <1>1, <1>5, <1>7
<1>9. /\ f[l] = x /\ t[l] = y
      /\ \A n \in DOMAIN e : f[n] = e[n] /\ t[n] = s[n]
  BY <1>1, <1>3, <1>4, <1>7
<1> QED
  BY <1>3, <1>4, <1>5, <1>8, <1>9 DEF BothLonger

(***************************************************************************)
(* What has been patched                                                   *)
(***************************************************************************)
\* A place in a list is the number of a group and a place in the group.
At(list, x) == FixtureAt(list[x[1]], x[2])
TypeAt(list, x) == list[x[1]].fixture

Apart(list, x, y) ==
    \/ x = y
    \/ addresses(At(list, x)) \cap addresses(At(list, y)) = {}
    \/ have_mutual_affinity(TypeAt(list, x), TypeAt(list, y))

\* used_addrs comes from the places D, and knows of each of them, or of
\* others put over them, and they are apart.
Used(D, list, used) ==
    /\ \A a \in DOMAIN used : \E x \in D :
        a \in addresses(At(list, x)) /\ used[a] = TypeAt(list, x)
    /\ \A x \in D : \A a \in addresses(At(list, x)) :
        /\ a \in DOMAIN used
        /\ \/ used[a] = TypeAt(list, x)
           \/ have_mutual_affinity(used[a], TypeAt(list, x))
    /\ \A x, y \in D : Apart(list, x, y)

PutOver(used, W, t) ==
    [a \in DOMAIN used \cup W |-> IF a \in W THEN t ELSE used[a]]

(* One more that is not refused.                                           *)
LEMMA UsedMore ==
    ASSUME NEW D, NEW list, NEW used, Used(D, list, used), NEW x,
           NEW W, W = addresses(At(list, x)), NEW t, t = TypeAt(list, x),
           \A a \in W \cap DOMAIN used : have_mutual_affinity(t, used[a]),
           NEW used2, used2 = PutOver(used, W, t)
    PROVE  Used(D \cup {x}, list, used2)
<1>1. /\ DOMAIN used2 = DOMAIN used \cup W
      /\ \A a \in W : used2[a] = t
      /\ \A a \in DOMAIN used : a \notin W => used2[a] = used[a]
  BY DEF PutOver
<1>2. ASSUME NEW a \in DOMAIN used2
      PROVE  \E y \in D \cup {x} : a \in addresses(At(list, y)) /\ used2[a] = TypeAt(list, y)
  BY <1>1 DEF Used
<1>3. ASSUME NEW y \in D, NEW a \in addresses(At(list, y)), a \in W
      PROVE  have_mutual_affinity(t, TypeAt(list, y))
  BY <1>3, Transitive DEF Used
<1>4. ASSUME NEW y \in D \cup {x}, NEW a \in addresses(At(list, y))
      PROVE  /\ a \in DOMAIN used2
             /\ \/ used2[a] = TypeAt(list, y)
                \/ have_mutual_affinity(used2[a], TypeAt(list, y))
  <2>1. CASE a \in W
    BY <1>1, <1>3, <2>1
  <2>2. CASE a \notin W
    <3>1. y \in D
      BY <2>2
    <3> QED
      BY <1>1, <2>2, <3>1 DEF Used
  <2> QED
    BY <2>1, <2>2
<1>5. \A r, s : have_mutual_affinity(r, s) => have_mutual_affinity(s, r)
  BY DEF have_mutual_affinity
<1>6. \A y \in D : Apart(list, x, y) /\ Apart(list, y, x)
  BY <1>3, <1>5 DEF Apart
<1>7. \A y, z \in D \cup {x} : Apart(list, y, z)
  BY <1>6 DEF Used, Apart
<1> QED
  BY <1>2, <1>4, <1>7 DEF Used

(* One more without an address.                                            *)
LEMMA UsedSame ==
    ASSUME NEW D, NEW list, NEW used, Used(D, list, used), NEW x,
           addresses(At(list, x)) = {}
    PROVE  Used(D \cup {x}, list, used)
<1>1. \A y : Apart(list, x, y) /\ Apart(list, y, x)
  BY DEF Apart
<1> QED
  BY <1>1 DEF Used

\* The places of the group that is built that have been patched, and all.
Reached(p) ==
    /\ pc \in {"block", "fixture"}
    /\ \/ p[1] < b
       \/ pc = "fixture" /\ p[1] = b /\ p[2] <= block.count - left
DoneHere == {p \in Places(cfg) : Reached(p)}
Done ==
    {x \in Nat \X (Nat \X Nat) :
        /\ x[1] \in DOMAIN cfgs /\ x[2] \in Places(cfgs[x[1]])
        /\ x[1] < i \/ (x[1] = i /\ Reached(x[2]))}

(***************************************************************************)
(* The invariant of the refinement, in parts.                              *)
(***************************************************************************)
Shape ==
    /\ cfgs \in ConfigLists /\ i \in 1 .. Len(cfgs) + 1
    /\ pc \in {"block", "fixture"} =>
        i <= Len(cfgs) /\ b \in 1 .. Len(cfg.patches) + 1
    /\ pc = "fixture" =>
        /\ b <= Len(cfg.patches) /\ ~BlockRefused /\ block.addr # NoAddr
        /\ left \in 0 .. block.count
        /\ dmx_index = block.addr - 1 + (block.count - left) * width

\* All that has been looked at is well formed.
SoFarWell ==
    /\ \A j \in 1 .. i - 1 : WellFormed(cfgs[j])
    /\ pc \in {"block", "fixture"} =>
        /\ cfg.fixture \in FixtureTypes /\ cfg.group \notin FixtureTypes
        /\ cfg.options \notin BadOptions /\ cfg.patches # <<>>
        /\ \A c \in 1 .. b - 1 : BlockWellFormed(cfg.patches[c], width)
    /\ pc = "fixture" =>
        \A k \in 1 .. block.count - left : block.addr - 1 + k * width <= DmxSize

\* The maps know the groups before, which have names of their own.
SoFarNamed ==
    /\ DOMAIN new_patch.by_id = {cfgs[j].id : j \in 1 .. i - 1}
    /\ DOMAIN new_patch.by_name = {name(cfgs[j]) : j \in 1 .. i - 1}
    /\ \A j, k \in 1 .. i - 1 :
        j # k => cfgs[j].id # cfgs[k].id /\ name(cfgs[j]) # name(cfgs[k])
    /\ pc \in {"block", "fixture"} => \A j \in 1 .. i - 1 :
        cfgs[j].id # cfg.id /\ name(cfgs[j]) # name(cfg)

\* used_addrs comes from the places patched.
SoFarApart == Used(Done, cfgs, new_patch.used_addrs)

\* The group that is built has the fixtures of its places patched, in order.
Built(g, S, c) == \E e :
    /\ Lists(e, S)
    /\ \A m, n \in DOMAIN e : m < n => Before(e[m], e[n])
    /\ g = [empty_group(c) EXCEPT
                !.fixtures = [n \in DOMAIN e |-> FixtureAt(c, e[n])]]
SoFarBuilt == pc \in {"block", "fixture"} => Built(group, DoneHere, cfg)

\* A sequence of groups is those of the configurations before, in order.
Chosen(s, n, list, channel) == \E e :
    /\ Lists(e, {j \in 1 .. n : list[j].channel = channel})
    /\ \A l, m \in DOMAIN e : l < m => e[l] < e[m]
    /\ s = [m \in DOMAIN e |-> GroupOf(list[e[m]])]
SoFarPlaced ==
    /\ Chosen(new_patch.channels, i - 1, cfgs, TRUE)
    /\ Chosen(new_patch.non_channel, i - 1, cfgs, FALSE)

HInv ==
    /\ pc \in {"idle", "group", "block", "fixture"}
    /\ pc = "idle" <=> cfgs = NoRequest
    /\ pc # "idle" =>
        /\ Shape /\ SoFarWell /\ SoFarNamed
        /\ SoFarApart /\ SoFarBuilt /\ SoFarPlaced

(* What the types of a list say.                                           *)
LEMMA ListFacts ==
    ASSUME NEW list \in ConfigLists
    PROVE  /\ list # NoRequest /\ IsSeq(list)
           /\ DOMAIN list = 1 .. Len(list) /\ Len(list) \in Nat
           /\ \A j \in DOMAIN list :
                /\ list[j].channel \in BOOLEAN
                /\ IsSeq(list[j].patches)
                /\ Len(list[j].patches) \in Nat
                /\ DOMAIN list[j].patches = 1 .. Len(list[j].patches)
                /\ \A c \in DOMAIN list[j].patches : list[j].patches[c].count \in Nat
<1>1. \A S : \A f \in Seq(S) : IsSeq(f)
  BY DEF IsSeq
<1>2. /\ list # NoRequest /\ list \in Seq(ToSet(list))
      /\ \A config \in ToSet(list) :
            /\ config.channel \in BOOLEAN
            /\ config.patches \in Seq(ToSet(config.patches))
            /\ \A entry \in ToSet(config.patches) : entry.count \in Nat
  BY ListsAssumption
<1>3. IsSeq(list)
  BY <1>1, <1>2
<1>4. \A j \in DOMAIN list : list[j] \in ToSet(list)
  BY DEF ToSet
<1>5. \A j \in DOMAIN list : \A c \in DOMAIN list[j].patches :
        list[j].patches[c] \in ToSet(list[j].patches)
  BY DEF ToSet
<1>6. \A j \in DOMAIN list : IsSeq(list[j].patches)
  BY <1>1, <1>2, <1>4
<1>7. \A f : IsSeq(f) => DOMAIN f = 1 .. Len(f) /\ Len(f) \in Nat
  BY SeqFacts
<1> QED
  BY <1>2, <1>3, <1>4, <1>5, <1>6, <1>7

(* The places of a group.                                                  *)
LEMMA PlacesOf ==
    ASSUME NEW c, NEW n \in Nat, DOMAIN c.patches = 1 .. n,
           \A k \in DOMAIN c.patches : c.patches[k].count \in Nat
    PROVE  /\ Places(c) \subseteq Nat \X Nat
           /\ \A p \in Nat \X Nat : p \in Places(c) <=>
                /\ p[1] \in DOMAIN c.patches
                /\ p[2] \in 1 .. start_count(c.patches[p[1]])
<1>1. \A k \in DOMAIN c.patches : k \in Nat /\ start_count(c.patches[k]) \in Nat
  BY DEF start_count
<1>2. \A p : p \in Places(c) <=> \E k \in DOMAIN c.patches :
                p \in {k} \X (1 .. start_count(c.patches[k]))
  BY DEF Places
<1> QED
  BY <1>1, <1>2

(* What is known while a list is patched.                                  *)
LEMMA Patching ==
    ASSUME HInv, pc # "idle"
    PROVE  /\ Shape /\ SoFarWell /\ SoFarNamed /\ SoFarApart /\ SoFarBuilt /\ SoFarPlaced
           /\ cfgs \in ConfigLists /\ cfgs # NoRequest
           /\ DOMAIN cfgs = 1 .. Len(cfgs) /\ Len(cfgs) \in Nat
           /\ i \in Nat /\ 1 <= i /\ i - 1 \in Nat
           /\ 1 .. i - 1 \subseteq DOMAIN cfgs
           /\ \A j \in DOMAIN cfgs : /\ Places(cfgs[j]) \subseteq Nat \X Nat
                                     /\ cfgs[j].channel \in BOOLEAN
           /\ i <= Len(cfgs) =>
                /\ i \in DOMAIN cfgs /\ cfg = cfgs[i]
                /\ Len(cfg.patches) \in Nat
                /\ DOMAIN cfg.patches = 1 .. Len(cfg.patches)
                /\ \A c \in DOMAIN cfg.patches : cfg.patches[c].count \in Nat
                /\ \A p \in Nat \X Nat : p \in Places(cfg) <=>
                    /\ p[1] \in DOMAIN cfg.patches
                    /\ p[2] \in 1 .. start_count(cfg.patches[p[1]])
<1>1. Shape /\ SoFarWell /\ SoFarNamed /\ SoFarApart /\ SoFarBuilt /\ SoFarPlaced
  BY DEF HInv
<1>2. cfgs \in ConfigLists /\ i \in 1 .. Len(cfgs) + 1
  BY <1>1 DEF Shape
<1>3. /\ cfgs # NoRequest /\ DOMAIN cfgs = 1 .. Len(cfgs) /\ Len(cfgs) \in Nat
      /\ \A j \in DOMAIN cfgs :
           /\ cfgs[j].channel \in BOOLEAN
           /\ Len(cfgs[j].patches) \in Nat
           /\ DOMAIN cfgs[j].patches = 1 .. Len(cfgs[j].patches)
           /\ \A c \in DOMAIN cfgs[j].patches : cfgs[j].patches[c].count \in Nat
  BY <1>2, ListFacts
<1>4. ASSUME NEW j \in DOMAIN cfgs
      PROVE  /\ Places(cfgs[j]) \subseteq Nat \X Nat
             /\ \A p \in Nat \X Nat : p \in Places(cfgs[j]) <=>
                  /\ p[1] \in DOMAIN cfgs[j].patches
                  /\ p[2] \in 1 .. start_count(cfgs[j].patches[p[1]])
  BY <1>3, PlacesOf
<1>5. /\ i \in Nat /\ 1 <= i /\ i - 1 \in Nat /\ 1 .. i - 1 \subseteq DOMAIN cfgs
      /\ i <= Len(cfgs) => i \in DOMAIN cfgs
  BY <1>2, <1>3
<1> QED
  BY <1>1, <1>2, <1>3, <1>4, <1>5 DEF cfg

(* A group that is begun has no fixtures.                                  *)
LEMMA BuiltNone == ASSUME NEW c PROVE Built(empty_group(c), {}, c)
<1>1. PICK e : e = <<>>
  OBVIOUS
<1>2. Lists(e, {}) /\ DOMAIN e = {}
  BY <1>1, Len0 DEF Lists
<1>3. [n \in DOMAIN e |-> FixtureAt(c, e[n])] = <<>>
  BY <1>2
<1>4. empty_group(c) = [empty_group(c) EXCEPT
                          !.fixtures = [n \in DOMAIN e |-> FixtureAt(c, e[n])]]
  BY <1>3 DEF empty_group
<1>5. \A m, n \in DOMAIN e : m < n => Before(e[m], e[n])
  BY <1>2
<1> QED
  BY <1>2, <1>4, <1>5 DEF Built

(* A fixture that is patched comes after all that have been.               *)
LEMMA BuiltMore ==
    ASSUME NEW g, NEW S, NEW c, Built(g, S, c), NEW p,
           \A q \in S : Before(q, p),
           NEW h, h = [g EXCEPT !.fixtures = Append(@, FixtureAt(c, p))]
    PROVE  Built(h, S \cup {p}, c)
<1>1. PICK e :
        /\ Lists(e, S) /\ \A m, n \in DOMAIN e : m < n => Before(e[m], e[n])
        /\ g = [empty_group(c) EXCEPT
                    !.fixtures = [n \in DOMAIN e |-> FixtureAt(c, e[n])]]
  BY DEF Built
<1>2. PICK s : s = [n \in DOMAIN e |-> FixtureAt(c, e[n])]
  OBVIOUS
<1>3. PICK f : f = Append(e, p)
  OBVIOUS
<1>4. PICK y : y = FixtureAt(c, p)
  OBVIOUS
<1>5. PICK t : t = Append(s, y)
  OBVIOUS
<1>6. IsSeq(e)
  BY <1>1 DEF Lists
<1>7. DOMAIN s = DOMAIN e /\ IsSeq(s)
  <2>1. Len(e) \in Nat /\ DOMAIN e = 1 .. Len(e)
    BY <1>6, SeqFacts
  <2> QED
    BY <1>2, <2>1 DEF IsSeq
<1>8. PICK l \in Nat :
        /\ IsSeq(f) /\ DOMAIN f = DOMAIN e \cup {l} /\ DOMAIN e \subseteq Nat
        /\ l \notin DOMAIN e /\ \A n \in DOMAIN e : n < l
        /\ f[l] = p /\ t[l] = y
        /\ \A n \in DOMAIN e : f[n] = e[n] /\ t[n] = s[n]
        /\ IsSeq(t) /\ DOMAIN t = DOMAIN f
  <2>1. BothLonger(e, s, p, y, f, t)
    BY <1>3, <1>5, <1>6, <1>7, BothAppend, Zenon
  <2> QED
    BY <2>1 DEF BothLonger
<1>9. Lists(f, S \cup {p})
  BY <1>1, <1>8 DEF Lists
<1>10. \A m, n \in DOMAIN f : m < n => Before(f[m], f[n])
  <2>1. \A m \in DOMAIN e : e[m] \in S
    BY <1>1 DEF Lists
  <2>2. \A n \in DOMAIN e : ~(l < n)
    BY <1>8
  <2>3. ~(l < l)
    BY <1>8
  <2> QED
    BY <1>1, <1>8, <2>1, <2>2, <2>3
<1>11. \A n \in DOMAIN f : t[n] = FixtureAt(c, f[n])
  BY <1>2, <1>4, <1>8
<1>12. t = [n \in DOMAIN f |-> FixtureAt(c, f[n])]
  <2>1. t = [n \in DOMAIN t |-> t[n]]
    BY <1>8 DEF IsSeq
  <2> QED
    BY <1>8, <1>11, <2>1
<1>13. h = [empty_group(c) EXCEPT !.fixtures = t]
  BY <1>1, <1>2, <1>4, <1>5 DEF empty_group
<1> QED
  BY <1>9, <1>10, <1>12, <1>13 DEF Built

(* When all have been, the group is what was promised.                     *)
LEMMA BuiltAll ==
    ASSUME NEW g, NEW c, Built(g, Places(c), c), Places(c) \subseteq Nat \X Nat
    PROVE  GroupOf(c) = init_positioner_if_supported(g)
<1>1. PICK e :
        /\ Lists(e, Places(c)) /\ \A m, n \in DOMAIN e : m < n => Before(e[m], e[n])
        /\ g = [empty_group(c) EXCEPT
                    !.fixtures = [n \in DOMAIN e |-> FixtureAt(c, e[n])]]
  BY DEF Built
<1>2. InOrder(Places(c), Before) = e
  BY <1>1, PlacesInOrder
<1>3. Fixtures(c) = [n \in DOMAIN e |-> FixtureAt(c, e[n])]
  BY <1>2 DEF Fixtures
<1> QED
  BY <1>1, <1>3 DEF GroupOf

(* Nothing of a group that is begun has been patched.                      *)
LEMMA StartGroupHistory == HInv /\ StartGroup => HInv'
<1> SUFFICES ASSUME HInv, StartGroup PROVE HInv'
  OBVIOUS
<1>1. /\ pc = "group" /\ pc' = "block" /\ i <= Len(cfgs) /\ ~GroupRefused
      /\ cfgs' = cfgs /\ i' = i /\ b' = 1 /\ new_patch' = new_patch
      /\ group' = empty_group(cfg) /\ cfg' = cfg /\ width' = width
  BY DEF StartGroup, cfg, width
<1>2. /\ Shape /\ SoFarWell /\ SoFarNamed /\ SoFarApart /\ SoFarPlaced
      /\ cfgs \in ConfigLists /\ i \in Nat /\ i \in DOMAIN cfgs /\ cfg = cfgs[i]
      /\ Len(cfg.patches) \in Nat /\ DOMAIN cfg.patches = 1 .. Len(cfg.patches)
      /\ \A p \in Nat \X Nat : p \in Places(cfg) => p[1] \in DOMAIN cfg.patches
      /\ Places(cfg) \subseteq Nat \X Nat /\ cfgs # NoRequest
  BY <1>1, Patching
<1>3. Shape'
  BY <1>1, <1>2 DEF Shape
<1>4. SoFarWell'
  BY <1>1, <1>2 DEF SoFarWell, GroupRefused
<1>5. SoFarNamed'
  BY <1>1, <1>2 DEF SoFarNamed, GroupRefused
<1>6. \A p \in Places(cfg) : ~Reached(p) /\ ~Reached(p)'
  <2>1. \A p \in Places(cfg) : p[1] \in Nat /\ p[1] >= 1
    BY <1>2
  <2> QED
    BY <1>1, <2>1 DEF Reached
<1>7. Done' = Done
  <2>1. \A x \in Nat \X (Nat \X Nat) :
          x[1] \in DOMAIN cfgs /\ x[2] \in Places(cfgs[x[1]])
            => ((x[1] < i \/ (x[1] = i /\ Reached(x[2])))
                  <=> (x[1] < i \/ (x[1] = i /\ Reached(x[2])')))
    BY <1>2, <1>6
  <2> QED
    BY <1>1, <2>1 DEF Done
<1>8. SoFarApart'
  BY <1>1, <1>2, <1>7 DEF SoFarApart
<1>9. SoFarBuilt'
  <2>1. DoneHere' = {}
    BY <1>1, <1>6 DEF DoneHere
  <2>2. Built(empty_group(cfg), {}, cfg)
    BY BuiltNone
  <2> QED
    BY <1>1, <2>1, <2>2 DEF SoFarBuilt
<1>10. SoFarPlaced'
  BY <1>1, <1>2 DEF SoFarPlaced
<1> QED
  BY <1>1, <1>2, <1>3, <1>4, <1>5, <1>8, <1>9, <1>10 DEF HInv

(* The places patched when one more of the group that is built is.         *)
LEMMA DoneMore ==
    ASSUME HInv, pc # "idle", i <= Len(cfgs), cfgs' = cfgs, i' = i,
           NEW p \in Places(cfg),
           \A q \in Places(cfg) : Reached(q)' <=> Reached(q) \/ q = p
    PROVE  DoneHere' = DoneHere \cup {p} /\ Done' = Done \cup {<<i, p>>}
<1>1. /\ cfg' = cfg /\ cfg = cfgs[i] /\ i \in DOMAIN cfgs /\ i \in Nat
      /\ Places(cfg) \subseteq Nat \X Nat
  BY Patching DEF cfg
<1>2. DoneHere' = DoneHere \cup {p}
  BY <1>1 DEF DoneHere
<1>3. ASSUME NEW x \in Nat \X (Nat \X Nat)
      PROVE  x \in Done' <=> x \in Done \/ x = <<i, p>>
  <2>1. x = <<x[1], x[2]>> /\ x[1] \in Nat
    OBVIOUS
  <2>2. CASE x[1] = i
    BY <1>1, <2>1, <2>2 DEF Done
  <2>3. CASE x[1] # i
    BY <1>1, <2>1, <2>3 DEF Done
  <2> QED
    BY <2>2, <2>3
<1>4. <<i, p>> \in Nat \X (Nat \X Nat)
  BY <1>1
<1>5. \A x : x \in Done \/ x \in Done' => x \in Nat \X (Nat \X Nat)
  BY DEF Done
<1> QED
  BY <1>2, <1>3, <1>4, <1>5

(* And when none is.                                                       *)
LEMMA DoneSame ==
    ASSUME HInv, pc # "idle", i <= Len(cfgs), cfgs' = cfgs, i' = i,
           \A q \in Places(cfg) : Reached(q)' <=> Reached(q)
    PROVE  DoneHere' = DoneHere /\ Done' = Done
<1>1. cfg' = cfg /\ cfg = cfgs[i]
  BY Patching DEF cfg
<1>2. DoneHere' = DoneHere
  BY <1>1 DEF DoneHere
<1>3. \A x \in Nat \X (Nat \X Nat) : x \in Done' <=> x \in Done
  BY <1>1 DEF Done
<1> QED
  BY <1>2, <1>3 DEF Done

(* A place not yet reached comes after those that are.                     *)
LEMMA ReachedBefore ==
    ASSUME HInv, pc # "idle", i <= Len(cfgs), NEW p \in Places(cfg),
           \A q \in Places(cfg) : Reached(q) => Before(q, p)
    PROVE  p \notin DoneHere /\ <<i, p>> \notin Done /\ \A q \in DoneHere : Before(q, p)
<1>1. p \in Nat \X Nat /\ cfg = cfgs[i] /\ i \in Nat
  BY Patching
<1>2. ~Before(p, p)
  <2>1. p[1] \in Nat /\ p[2] \in Nat
    BY <1>1
  <2> QED
    BY <2>1 DEF Before
<1>3. ~Reached(p)
  BY <1>2
<1> QED
  BY <1>1, <1>3 DEF DoneHere, Done

(* A block is begun, or is the one fixture that has no address.            *)
LEMMA PatchBlockHistory == HInv /\ PatchBlock => HInv'
<1> SUFFICES ASSUME HInv, PatchBlock PROVE HInv'
  OBVIOUS
<1>1. /\ pc = "block" /\ b <= Len(cfg.patches) /\ ~BlockRefused
      /\ cfgs' = cfgs /\ i' = i /\ new_patch' = new_patch
      /\ cfg' = cfg /\ width' = width
  BY DEF PatchBlock, cfg, width
<1>2. /\ Shape /\ SoFarWell /\ SoFarNamed /\ SoFarApart /\ SoFarBuilt /\ SoFarPlaced
      /\ i <= Len(cfgs) /\ b \in 1 .. Len(cfg.patches) + 1
  BY <1>1, Patching DEF Shape
<1>3. /\ cfgs \in ConfigLists /\ cfgs # NoRequest /\ i \in Nat /\ cfg = cfgs[i]
      /\ Len(cfg.patches) \in Nat /\ DOMAIN cfg.patches = 1 .. Len(cfg.patches)
      /\ \A c \in DOMAIN cfg.patches : cfg.patches[c].count \in Nat
      /\ \A p \in Nat \X Nat : p \in Places(cfg) <=>
            /\ p[1] \in DOMAIN cfg.patches
            /\ p[2] \in 1 .. start_count(cfg.patches[p[1]])
      /\ Places(cfg) \subseteq Nat \X Nat
  BY <1>1, <1>2, Patching
<1>4. b \in Nat /\ b \in DOMAIN cfg.patches /\ block = cfg.patches[b] /\ block.count \in Nat
  BY <1>1, <1>2, <1>3 DEF block
<1>5. \A p \in Places(cfg) : p[1] \in Nat /\ p[2] \in Nat /\ p[2] >= 1
                             /\ p = <<p[1], p[2]>>
  <2>1. \A p \in Places(cfg) : p \in Nat \X Nat
    BY <1>3
  <2>2. \A c \in DOMAIN cfg.patches : start_count(cfg.patches[c]) \in Nat
    BY <1>3 DEF start_count
  <2> QED
    BY <1>3, <2>1, <2>2
<1>6. SoFarNamed'
  BY <1>1, <1>2 DEF SoFarNamed, PatchBlock
<1>7. SoFarPlaced'
  BY <1>1, <1>2 DEF SoFarPlaced
<1>8. CASE block.addr = NoAddr
  <2>1. /\ b' = b + 1 /\ pc' = "block" /\ left' = left
        /\ group' = [group EXCEPT !.fixtures =
                Append(@, fixture_config(block.universe, NoIndex, width))]
    BY <1>1, <1>8 DEF PatchBlock
  <2>2. PICK p : p = <<b, 1>>
    OBVIOUS
  <2>3. p \in Places(cfg) /\ p[1] = b /\ p[2] = 1
    BY <1>3, <1>4, <1>8, <2>2 DEF start_count
  <2>4. \A q \in Places(cfg) : q[1] = b => q = p
    <3>1. start_count(cfg.patches[b]) = 1
      BY <1>4, <1>8 DEF start_count
    <3>2. \A q \in Places(cfg) : q[1] = b => q[2] \in 1 .. 1
      BY <1>3, <3>1
    <3> QED
      BY <1>5, <2>2, <3>2
  <2>5. \A q \in Places(cfg) : Reached(q)' <=> Reached(q) \/ q = p
    BY <1>1, <1>4, <1>5, <2>1, <2>3, <2>4 DEF Reached
  <2>6. \A q \in Places(cfg) : Reached(q) => Before(q, p)
    BY <1>1, <2>3 DEF Reached, Before
  <2>7. /\ DoneHere' = DoneHere \cup {p} /\ Done' = Done \cup {<<i, p>>}
        /\ \A q \in DoneHere : Before(q, p)
    BY <1>1, <1>2, <2>3, <2>5, <2>6, DoneMore, ReachedBefore
  <2>8. FixtureAt(cfg, p) = fixture_config(block.universe, NoIndex, width)
    BY <1>4, <1>8, <2>3 DEF FixtureAt, width
  <2>9. SoFarBuilt'
    <3>1. Built(group, DoneHere, cfg)
      BY <1>1, <1>2 DEF SoFarBuilt
    <3>2. PICK h : h = [group EXCEPT !.fixtures = Append(@, FixtureAt(cfg, p))]
      OBVIOUS
    <3>3. Built(h, DoneHere \cup {p}, cfg)
      BY <2>7, <3>1, <3>2, BuiltMore
    <3>4. group' = h
      BY <2>1, <2>8, <3>2
    <3> QED
      BY <1>1, <2>7, <3>3, <3>4 DEF SoFarBuilt
  <2>10. SoFarApart'
    <3>1. PICK x : x = <<i, p>>
      OBVIOUS
    <3>2. At(cfgs, x) = fixture_config(block.universe, NoIndex, width)
      BY <1>3, <2>8, <3>1 DEF At
    <3>3. addresses(At(cfgs, x)) = {}
      BY <3>2 DEF addresses, fixture_config
    <3>4. Used(Done \cup {x}, cfgs, new_patch.used_addrs)
      BY <1>2, <3>3, UsedSame DEF SoFarApart
    <3> QED
      BY <1>1, <2>7, <3>1, <3>4 DEF SoFarApart
  <2>11. Shape'
    BY <1>1, <1>2, <1>3, <2>1 DEF Shape
  <2>12. SoFarWell'
    <3>1. BlockWellFormed(block, width)
      BY <1>1, <1>8 DEF BlockRefused, BlockWellFormed
    <3>2. \A c \in 1 .. b : c \in 1 .. b - 1 \/ c = b
      BY <1>4
    <3>3. \A c \in 1 .. b : BlockWellFormed(cfg.patches[c], width)
      BY <1>1, <1>2, <1>4, <3>1, <3>2 DEF SoFarWell
    <3>4. b' - 1 = b
      BY <1>4, <2>1
    <3> QED
      BY <1>1, <1>2, <2>1, <3>3, <3>4 DEF SoFarWell
  <2> QED
    BY <1>1, <1>3, <1>6, <1>7, <2>1, <2>9, <2>10, <2>11, <2>12 DEF HInv
<1>9. CASE block.addr # NoAddr
  <2>1. /\ b' = b /\ pc' = "fixture" /\ left' = block.count
        /\ dmx_index' = block.addr - 1 /\ group' = group
    BY <1>1, <1>9 DEF PatchBlock
  <2>2. block' = block /\ BlockRefused' = BlockRefused
    BY <1>1, <2>1 DEF block, BlockRefused
  <2>3. block.count - block.count = 0
    BY <1>4
  <2>4. \A q \in Places(cfg) : Reached(q)' <=> Reached(q)
    BY <1>1, <1>5, <2>1, <2>2, <2>3 DEF Reached
  <2>5. DoneHere' = DoneHere /\ Done' = Done
    BY <1>1, <1>2, <2>4, DoneSame
  <2>6. Shape'
    <3>1. width \in Nat
      BY <1>1, <1>2, TypesAssumption DEF width, SoFarWell
    <3>2. block.addr \in Nat
      BY <1>1, <1>9, DmxSizeAssumption DEF BlockRefused
    <3>3. dmx_index' = block.addr - 1 + (block.count - left') * width
      BY <2>1, <2>3, <3>1, <3>2
    <3>4. left' \in 0 .. block.count
      BY <1>4, <2>1
    <3> QED
      BY <1>1, <1>2, <1>9, <2>1, <2>2, <3>3, <3>4 DEF Shape
  <2>7. SoFarWell'
    <3>1. \A k \in 1 .. block.count - left' : FALSE
      BY <2>1, <2>3
    <3> QED
      BY <1>1, <1>2, <2>1, <2>2, <3>1 DEF SoFarWell
  <2>8. SoFarApart' /\ SoFarBuilt'
    BY <1>1, <1>2, <2>1, <2>5 DEF SoFarApart, SoFarBuilt
  <2> QED
    BY <1>1, <1>3, <1>6, <1>7, <2>1, <2>6, <2>7, <2>8 DEF HInv
<1> QED
  BY <1>8, <1>9

(* A fixture is put where it was promised.                                 *)
LEMMA allocateHistory == IInv /\ HInv /\ allocate => HInv'
<1> SUFFICES ASSUME IInv, HInv, allocate PROVE HInv'
  OBVIOUS
<1>1. /\ pc = "fixture" /\ pc' = "fixture" /\ left > 0 /\ ~AddressRefused
      /\ cfgs' = cfgs /\ i' = i /\ b' = b /\ left' = left - 1
      /\ dmx_index' = dmx_index + width
      /\ cfg' = cfg /\ width' = width /\ block' = block
      /\ group' = [group EXCEPT !.fixtures =
            Append(@, fixture_config(block.universe, dmx_index, width))]
  BY DEF allocate, cfg, width, block
<1>2. /\ Shape /\ SoFarWell /\ SoFarNamed /\ SoFarApart /\ SoFarBuilt /\ SoFarPlaced
      /\ i <= Len(cfgs) /\ b \in 1 .. Len(cfg.patches) + 1 /\ b <= Len(cfg.patches)
      /\ ~BlockRefused /\ block.addr # NoAddr /\ left \in 0 .. block.count
      /\ dmx_index = block.addr - 1 + (block.count - left) * width
  BY <1>1, Patching DEF Shape
<1>3. /\ cfgs \in ConfigLists /\ cfgs # NoRequest /\ i \in Nat /\ cfg = cfgs[i]
      /\ Len(cfg.patches) \in Nat /\ DOMAIN cfg.patches = 1 .. Len(cfg.patches)
      /\ \A c \in DOMAIN cfg.patches : cfg.patches[c].count \in Nat
      /\ \A p \in Nat \X Nat : p \in Places(cfg) <=>
            /\ p[1] \in DOMAIN cfg.patches
            /\ p[2] \in 1 .. start_count(cfg.patches[p[1]])
      /\ Places(cfg) \subseteq Nat \X Nat
  BY <1>1, <1>2, Patching
<1>4. b \in Nat /\ b \in DOMAIN cfg.patches /\ block = cfg.patches[b] /\ block.count \in Nat
  BY <1>2, <1>3 DEF block
<1>5. width \in Nat /\ block.addr \in Nat
  <2>1. cfg.fixture \in FixtureTypes
    BY <1>1, <1>2 DEF SoFarWell
  <2> QED
    BY <1>2, <2>1, TypesAssumption, DmxSizeAssumption DEF width, BlockRefused
<1>6. PICK k \in Nat : k = block.count - left /\ k + 1 \in 1 .. block.count
                       /\ block.count - left' = k + 1
  BY <1>1, <1>2, <1>4
<1>7. dmx_index = block.addr - 1 + k * width /\ dmx_index \in Int
  BY <1>2, <1>5, <1>6
<1>8. dmx_index + width = block.addr - 1 + (k + 1) * width
  BY <1>5, <1>6, <1>7
<1>9. PICK p : p = <<b, k + 1>>
  OBVIOUS
<1>10. p \in Places(cfg) /\ p[1] = b /\ p[2] = k + 1
  <2>1. p \in Nat \X Nat /\ p[1] = b /\ p[2] = k + 1
    BY <1>4, <1>6, <1>9
  <2>2. start_count(cfg.patches[b]) = block.count
    BY <1>2, <1>4 DEF start_count
  <2> QED
    BY <1>3, <1>4, <1>6, <2>1, <2>2
<1>11. \A q \in Places(cfg) : q[1] \in Nat /\ q[2] \in Nat /\ q = <<q[1], q[2]>>
  BY <1>3
<1>12. \A q \in Places(cfg) : Reached(q)' <=> Reached(q) \/ q = p
  <2>1. \A q \in Places(cfg) : Reached(q) <=> q[1] < b \/ (q[1] = b /\ q[2] <= k)
    BY <1>1, <1>6 DEF Reached
  <2>2. \A q \in Places(cfg) : Reached(q)' <=> q[1] < b \/ (q[1] = b /\ q[2] <= k + 1)
    BY <1>1, <1>6 DEF Reached
  <2>3. \A q \in Places(cfg) : q[1] = b /\ q[2] = k + 1 <=> q = p
    BY <1>9, <1>10, <1>11
  <2>4. \A q \in Places(cfg) : q[2] <= k + 1 <=> q[2] <= k \/ q[2] = k + 1
    BY <1>11
  <2> QED
    BY <2>1, <2>2, <2>3, <2>4
<1>13. \A q \in Places(cfg) : Reached(q) => Before(q, p)
  BY <1>1, <1>6, <1>10, <1>11 DEF Reached, Before
<1>14. /\ DoneHere' = DoneHere \cup {p} /\ Done' = Done \cup {<<i, p>>}
       /\ \A q \in DoneHere : Before(q, p)
  BY <1>1, <1>2, <1>10, <1>12, <1>13, DoneMore, ReachedBefore
<1>15. FixtureAt(cfg, p) = fixture_config(block.universe, dmx_index, width)
  <2>1. (k + 1) - 1 = k
    BY <1>6
  <2> QED
    BY <1>2, <1>4, <1>7, <1>10, <2>1 DEF FixtureAt, width
<1>16. SoFarBuilt'
  <2>1. Built(group, DoneHere, cfg)
    BY <1>1, <1>2 DEF SoFarBuilt
  <2>2. PICK h : h = [group EXCEPT !.fixtures = Append(@, FixtureAt(cfg, p))]
    OBVIOUS
  <2>3. Built(h, DoneHere \cup {p}, cfg)
    BY <1>14, <2>1, <2>2, BuiltMore
  <2>4. group' = h
    BY <1>1, <1>15, <2>2
  <2> QED
    BY <1>1, <1>14, <2>3, <2>4 DEF SoFarBuilt
<1>17. PICK used, W :
         /\ used = new_patch.used_addrs /\ W = Wanted
         /\ new_patch' = [new_patch EXCEPT !.used_addrs =
                [a \in DOMAIN used \cup W |-> IF a \in W THEN cfg.fixture ELSE used[a]]]
  BY DEF allocate
<1>18. SoFarApart'
  <2>1. PICK x : x = <<i, p>>
    OBVIOUS
  <2>2. PICK t : t = cfg.fixture
    OBVIOUS
  <2>3. W = addresses(At(cfgs, x)) /\ t = TypeAt(cfgs, x)
    BY <1>3, <1>15, <1>17, <2>1, <2>2 DEF At, TypeAt, Wanted
  <2>4. \A a \in W \cap DOMAIN used : have_mutual_affinity(t, used[a])
    BY <1>1, <1>17, <2>2 DEF AddressRefused
  <2>5. PICK D : D = Done /\ Used(D, cfgs, used)
    BY <1>2, <1>17 DEF SoFarApart
  <2>6. PICK used2 : used2 = PutOver(used, W, t)
    OBVIOUS
  <2>7. Used(D \cup {x}, cfgs, used2)
    BY <2>3, <2>4, <2>5, <2>6, UsedMore, Zenon
  <2>8. new_patch'.used_addrs = used2
    <3>1. new_patch' = [new_patch EXCEPT !.used_addrs = used2]
      BY <1>17, <2>2, <2>6 DEF PutOver
    <3>2. new_patch = [channels |-> new_patch.channels,
            non_channel |-> new_patch.non_channel, by_id |-> new_patch.by_id,
            by_name |-> new_patch.by_name, used_addrs |-> new_patch.used_addrs,
            configs |-> new_patch.configs]
      BY DEF IInv, PatchOK, IsPatch
    <3> QED
      BY <3>1, <3>2
  <2> QED
    BY <1>1, <1>14, <2>1, <2>5, <2>7, <2>8 DEF SoFarApart
<1>19. /\ new_patch'.by_id = new_patch.by_id /\ new_patch'.by_name = new_patch.by_name
       /\ new_patch'.channels = new_patch.channels
       /\ new_patch'.non_channel = new_patch.non_channel
  BY <1>17
<1>20. SoFarNamed' /\ SoFarPlaced'
  BY <1>1, <1>2, <1>19 DEF SoFarNamed, SoFarPlaced
<1>21. Shape'
  <2>1. BlockRefused' = BlockRefused
    BY <1>1 DEF BlockRefused
  <2>2. left' \in 0 .. block.count
    BY <1>1, <1>2, <1>4
  <2>3. dmx_index' = block.addr - 1 + (block.count - left') * width
    BY <1>1, <1>6, <1>8
  <2> QED
    BY <1>1, <1>2, <2>1, <2>2, <2>3 DEF Shape
<1>22. SoFarWell'
  <2>1. block.addr - 1 + (k + 1) * width <= DmxSize
    BY <1>1, <1>5, <1>7, <1>8, DmxSizeAssumption DEF AddressRefused
  <2>2. \A l \in 1 .. k + 1 : l \in 1 .. k \/ l = k + 1
    BY <1>6
  <2>3. \A l \in 1 .. k + 1 : block.addr - 1 + l * width <= DmxSize
    BY <1>1, <1>2, <1>6, <2>1, <2>2 DEF SoFarWell
  <2> QED
    BY <1>1, <1>2, <1>6, <2>3 DEF SoFarWell
<1> QED
  BY <1>1, <1>3, <1>16, <1>18, <1>20, <1>21, <1>22 DEF HInv

(* A block is done when as many fixtures are as it has.                    *)
LEMMA EndBlockHistory == HInv /\ EndBlock => HInv'
<1> SUFFICES ASSUME HInv, EndBlock PROVE HInv'
  OBVIOUS
<1>1. /\ pc = "fixture" /\ pc' = "block" /\ left = 0
      /\ cfgs' = cfgs /\ i' = i /\ b' = b + 1 /\ new_patch' = new_patch
      /\ group' = group /\ cfg' = cfg /\ width' = width
  BY DEF EndBlock, cfg, width
<1>2. /\ Shape /\ SoFarWell /\ SoFarNamed /\ SoFarApart /\ SoFarBuilt /\ SoFarPlaced
      /\ i <= Len(cfgs) /\ b \in 1 .. Len(cfg.patches) + 1 /\ b <= Len(cfg.patches)
      /\ ~BlockRefused /\ block.addr # NoAddr
  BY <1>1, Patching DEF Shape
<1>3. /\ cfgs \in ConfigLists /\ cfgs # NoRequest
      /\ Len(cfg.patches) \in Nat /\ DOMAIN cfg.patches = 1 .. Len(cfg.patches)
      /\ \A c \in DOMAIN cfg.patches : cfg.patches[c].count \in Nat
      /\ \A p \in Nat \X Nat : p \in Places(cfg) <=>
            /\ p[1] \in DOMAIN cfg.patches
            /\ p[2] \in 1 .. start_count(cfg.patches[p[1]])
      /\ Places(cfg) \subseteq Nat \X Nat
  BY <1>1, <1>2, Patching
<1>4. /\ b \in Nat /\ b \in DOMAIN cfg.patches /\ block = cfg.patches[b]
      /\ block.count \in Nat /\ block.count - left = block.count
  BY <1>1, <1>2, <1>3 DEF block
<1>5. \A q \in Places(cfg) : q[1] \in Nat /\ (q[1] = b => q[2] <= block.count)
  BY <1>2, <1>3, <1>4 DEF start_count
<1>6. \A q \in Places(cfg) : Reached(q)' <=> Reached(q)
  BY <1>1, <1>4, <1>5 DEF Reached
<1>7. DoneHere' = DoneHere /\ Done' = Done
  BY <1>1, <1>2, <1>6, DoneSame
<1>8. BlockWellFormed(block, width)
  BY <1>1, <1>2, <1>4 DEF BlockWellFormed, BlockRefused, SoFarWell
<1>9. SoFarWell'
  <2>1. \A c \in 1 .. b : c \in 1 .. b - 1 \/ c = b
    BY <1>4
  <2>2. \A c \in 1 .. b : BlockWellFormed(cfg.patches[c], width)
    BY <1>1, <1>2, <1>4, <1>8, <2>1 DEF SoFarWell
  <2>3. b' - 1 = b
    BY <1>1, <1>4
  <2> QED
    BY <1>1, <1>2, <2>2, <2>3 DEF SoFarWell
<1>10. Shape'
  BY <1>1, <1>2, <1>3, <1>4 DEF Shape
<1>11. SoFarNamed' /\ SoFarApart' /\ SoFarBuilt' /\ SoFarPlaced'
  BY <1>1, <1>2, <1>7 DEF SoFarNamed, SoFarApart, SoFarBuilt, SoFarPlaced
<1> QED
  BY <1>1, <1>3, <1>9, <1>10, <1>11 DEF HInv

(* Of no configurations none is chosen.                                    *)
LEMMA ChosenNone == ASSUME NEW list, NEW channel PROVE Chosen(<<>>, 0, list, channel)
<1>1. PICK e : e = <<>>
  OBVIOUS
<1>2. \A j \in 1 .. 0 : FALSE
  OBVIOUS
<1>3. Lists(e, {j \in 1 .. 0 : list[j].channel = channel}) /\ DOMAIN e = {}
  BY <1>1, <1>2, Len0 DEF Lists
<1>4. <<>> = [m \in DOMAIN e |-> GroupOf(list[e[m]])]
  BY <1>3
<1>5. \A l, m \in DOMAIN e : l < m => e[l] < e[m]
  BY <1>3
<1> QED
  BY <1>3, <1>4, <1>5 DEF Chosen

(* One that is passed over.                                                *)
LEMMA ChosenSame ==
    ASSUME NEW s, NEW n \in Nat, NEW list, NEW channel, Chosen(s, n, list, channel),
           list[n + 1].channel # channel
    PROVE  Chosen(s, n + 1, list, channel)
<1>1. {j \in 1 .. n + 1 : list[j].channel = channel}
        = {j \in 1 .. n : list[j].channel = channel}
  <2>1. \A j \in 1 .. n + 1 : j \in 1 .. n \/ j = n + 1
    OBVIOUS
  <2>2. \A j \in 1 .. n : j \in 1 .. n + 1
    OBVIOUS
  <2> QED
    BY <2>1, <2>2
<1> QED
  BY <1>1 DEF Chosen

(* One that is chosen comes last.                                          *)
LEMMA ChosenMore ==
    ASSUME NEW s, NEW n \in Nat, NEW list, NEW channel, Chosen(s, n, list, channel),
           list[n + 1].channel = channel,
           NEW t, t = Append(s, GroupOf(list[n + 1]))
    PROVE  Chosen(t, n + 1, list, channel)
<1>1. PICK S, T : /\ S = {j \in 1 .. n : list[j].channel = channel}
                  /\ T = {j \in 1 .. n + 1 : list[j].channel = channel}
  OBVIOUS
<1>2. T = S \cup {n + 1} /\ \A j \in S : j \in Nat /\ j < n + 1
  <2>1. \A j : j \in 1 .. n + 1 <=> j \in 1 .. n \/ j = n + 1
    OBVIOUS
  <2>2. \A j \in 1 .. n : j \in Nat /\ j < n + 1
    OBVIOUS
  <2> QED
    BY <1>1, <2>1, <2>2
<1>3. PICK e : /\ Lists(e, S) /\ \A l, m \in DOMAIN e : l < m => e[l] < e[m]
               /\ s = [m \in DOMAIN e |-> GroupOf(list[e[m]])]
  BY <1>1 DEF Chosen
<1>4. PICK p, f : p = n + 1 /\ f = Append(e, p)
  OBVIOUS
<1>5. PICK y : y = GroupOf(list[p])
  OBVIOUS
<1>6. IsSeq(e)
  BY <1>3 DEF Lists
<1>7. DOMAIN s = DOMAIN e /\ IsSeq(s)
  <2>1. Len(e) \in Nat /\ DOMAIN e = 1 .. Len(e)
    BY <1>6, SeqFacts
  <2> QED
    BY <1>3, <2>1 DEF IsSeq
<1>8. PICK l \in Nat :
        /\ IsSeq(f) /\ DOMAIN f = DOMAIN e \cup {l} /\ DOMAIN e \subseteq Nat
        /\ l \notin DOMAIN e /\ \A m \in DOMAIN e : m < l
        /\ f[l] = p /\ t[l] = y
        /\ \A m \in DOMAIN e : f[m] = e[m] /\ t[m] = s[m]
        /\ IsSeq(t) /\ DOMAIN t = DOMAIN f
  <2>1. t = Append(s, y)
    BY <1>4, <1>5
  <2>2. BothLonger(e, s, p, y, f, t)
    BY <1>4, <1>6, <1>7, <2>1, BothAppend, Zenon
  <2> QED
    BY <2>2 DEF BothLonger
<1>9. Lists(f, T)
  BY <1>2, <1>3, <1>4, <1>8 DEF Lists
<1>10. \A k, m \in DOMAIN f : k < m => f[k] < f[m]
  <2>1. \A m \in DOMAIN e : e[m] < p
    BY <1>2, <1>3, <1>4 DEF Lists
  <2>2. \A m \in DOMAIN e : ~(l < m)
    BY <1>8
  <2>3. ~(l < l)
    BY <1>8
  <2> QED
    BY <1>3, <1>8, <2>1, <2>2, <2>3
<1>11. \A m \in DOMAIN f : t[m] = GroupOf(list[f[m]])
  BY <1>3, <1>5, <1>8
<1>12. t = [m \in DOMAIN f |-> GroupOf(list[f[m]])]
  <2>1. t = [m \in DOMAIN t |-> t[m]]
    BY <1>8 DEF IsSeq
  <2> QED
    BY <1>8, <1>11, <2>1
<1> QED
  BY <1>1, <1>9, <1>10, <1>12 DEF Chosen

(* When all configurations have been patched, so are the groups promised.  *)
LEMMA ChosenAll ==
    ASSUME NEW list, DOMAIN list = 1 .. Len(list), Len(list) \in Nat, NEW channel,
           NEW s, Chosen(s, Len(list), list, channel)
    PROVE  s = GroupsOf(list, channel)
<1>1. PICK S : S = {j \in DOMAIN list : list[j].channel = channel}
  OBVIOUS
<1>2. PICK e : /\ Lists(e, S) /\ \A l, m \in DOMAIN e : l < m => e[l] < e[m]
               /\ s = [m \in DOMAIN e |-> GroupOf(list[e[m]])]
  BY <1>1 DEF Chosen
<1>3. S \subseteq Nat
  BY <1>1
<1>4. InOrder(S, Lower) = e
  BY <1>2, <1>3, NumbersInOrder
<1> QED
  BY <1>1, <1>2, <1>4 DEF GroupsOf

(* A list that is asked for is one of which nothing has been patched.      *)
LEMMA repatchHistory == ASSUME NEW list \in ConfigLists, repatch(list) PROVE HInv'
<1>1. /\ cfgs' = list /\ i' = 1 /\ pc' = "group" /\ new_patch' = empty_patch
      /\ \A j \in 1 .. i' - 1 : FALSE
  BY DEF repatch
<1>2. list # NoRequest /\ Len(list) \in Nat /\ DOMAIN list = 1 .. Len(list)
  BY ListFacts
<1>3. Shape'
  BY <1>1, <1>2 DEF Shape
<1>4. SoFarWell' /\ SoFarBuilt'
  BY <1>1 DEF SoFarWell, SoFarBuilt
<1>5. /\ empty_patch.channels = <<>> /\ empty_patch.non_channel = <<>>
      /\ DOMAIN empty_patch.by_id = {} /\ DOMAIN empty_patch.by_name = {}
      /\ DOMAIN empty_patch.used_addrs = {}
  BY DEF empty_patch, EmptyMap
<1>6. SoFarNamed'
  BY <1>1, <1>5 DEF SoFarNamed
<1>7. SoFarApart'
  <2>1. \A x \in Nat \X (Nat \X Nat) :
          x[1] \in DOMAIN cfgs' => ~(x[1] < i' \/ (x[1] = i' /\ Reached(x[2])'))
    BY <1>1, <1>2 DEF Reached
  <2>2. Done' = {}
    BY <2>1 DEF Done
  <2> QED
    BY <1>1, <1>5, <2>2 DEF SoFarApart, Used
<1>8. SoFarPlaced'
  <2>1. i' - 1 = 0
    BY <1>1
  <2> QED
    BY <1>1, <1>5, <2>1, ChosenNone DEF SoFarPlaced
<1> QED
  BY <1>1, <1>2, <1>3, <1>4, <1>6, <1>7, <1>8 DEF HInv

(* A group whose blocks are all done is the next that was promised.        *)
LEMMA Finished ==
    ASSUME HInv, pc = "block", b > Len(cfg.patches)
    PROVE  /\ DoneHere = Places(cfg) /\ cfg.patches # <<>> /\ WellFormed(cfg)
           /\ \A p \in Places(cfg) : Reached(p)
           /\ init_positioner_if_supported(group) = GroupOf(cfg)
           /\ GroupOf(cfg).id = cfg.id /\ GroupOf(cfg).name = name(cfg)
<1>1. /\ Shape /\ SoFarWell /\ SoFarBuilt /\ i <= Len(cfgs)
      /\ b \in 1 .. Len(cfg.patches) + 1
  BY Patching DEF Shape
<1>2. /\ Len(cfg.patches) \in Nat /\ DOMAIN cfg.patches = 1 .. Len(cfg.patches)
      /\ \A p \in Nat \X Nat : p \in Places(cfg) => p[1] \in DOMAIN cfg.patches
      /\ Places(cfg) \subseteq Nat \X Nat
  BY <1>1, Patching
<1>3. \A p \in Places(cfg) : Reached(p)
  <2>1. \A p \in Places(cfg) : p[1] \in Nat /\ p[1] < b
    BY <1>1, <1>2
  <2> QED
    BY <2>1 DEF Reached
<1>4. DoneHere = Places(cfg)
  BY <1>3 DEF DoneHere
<1>5. Built(group, Places(cfg), cfg)
  BY <1>1, <1>4 DEF SoFarBuilt
<1>6. init_positioner_if_supported(group) = GroupOf(cfg)
  BY <1>2, <1>5, BuiltAll
<1>7. GroupOf(cfg).id = cfg.id /\ GroupOf(cfg).name = name(cfg)
  <2>1. PICK f : f = Fixtures(cfg)
    OBVIOUS
  <2> QED
    BY <2>1 DEF GroupOf, init_positioner_if_supported, empty_group
<1>8. WellFormed(cfg)
  <2>1. \A c \in DOMAIN cfg.patches : c \in 1 .. b - 1
    BY <1>1, <1>2
  <2> QED
    BY <1>1, <2>1 DEF SoFarWell, WellFormed, width
<1> QED
  BY <1>1, <1>3, <1>4, <1>6, <1>7, <1>8 DEF SoFarWell

(* It goes where it belongs, and under its id and its name.                *)
LEMMA EndGroupHistory == IInv /\ HInv /\ EndGroup => HInv'
<1> SUFFICES ASSUME IInv, HInv, EndGroup PROVE HInv'
  OBVIOUS
<1>1. /\ pc = "block" /\ pc' = "group" /\ b > Len(cfg.patches)
      /\ cfgs' = cfgs /\ i' = i + 1
  BY DEF EndGroup
<1>2. /\ Shape /\ SoFarWell /\ SoFarNamed /\ SoFarApart /\ SoFarBuilt /\ SoFarPlaced
      /\ i <= Len(cfgs)
  BY <1>1, Patching DEF Shape
<1>3. /\ cfgs \in ConfigLists /\ cfgs # NoRequest /\ i \in Nat /\ 1 <= i
      /\ i - 1 \in Nat /\ cfg = cfgs[i] /\ i \in DOMAIN cfgs
      /\ DOMAIN cfgs = 1 .. Len(cfgs) /\ Len(cfgs) \in Nat
      /\ \A j \in DOMAIN cfgs : cfgs[j].channel \in BOOLEAN
  BY <1>1, <1>2, Patching
<1>4. /\ i' - 1 = i /\ (i - 1) + 1 = i
      /\ \A j : j \in 1 .. i <=> j \in 1 .. i - 1 \/ j = i
  BY <1>1, <1>3
<1>5. PICK g : g = GroupOf(cfg)
  OBVIOUS
<1>6. /\ WellFormed(cfg) /\ \A p \in Places(cfg) : Reached(p)
      /\ init_positioner_if_supported(group) = g /\ g.id = cfg.id /\ g.name = name(cfg)
  BY <1>1, <1>5, Finished
<1>7. PICK p : p = new_patch /\ IsPatch(p)
  BY DEF IInv, PatchOK
<1>8. PICK q : q = new_patch'
  OBVIOUS
<1>9. \/ /\ cfg.channel = TRUE
         /\ q = Placed([p EXCEPT !.channels = Append(@, g)], g, Channel(Len(p.channels)))
      \/ /\ cfg.channel = FALSE
         /\ q = Placed([p EXCEPT !.non_channel = Append(@, g)], g,
                       NonChannel(Len(p.non_channel)))
  BY <1>3, <1>6, <1>7, <1>8 DEF EndGroup
<1>10. /\ DOMAIN q.by_id = DOMAIN p.by_id \cup {g.id}
       /\ DOMAIN q.by_name = DOMAIN p.by_name \cup {g.name}
       /\ q.used_addrs = p.used_addrs
       /\ \/ /\ cfg.channel = TRUE /\ q.channels = Append(p.channels, g)
             /\ q.non_channel = p.non_channel
          \/ /\ cfg.channel = FALSE /\ q.non_channel = Append(p.non_channel, g)
             /\ q.channels = p.channels
  <2>1. CASE /\ cfg.channel = TRUE
             /\ q = Placed([p EXCEPT !.channels = Append(@, g)], g, Channel(Len(p.channels)))
    <3>1. PICK s, z : s = Append(p.channels, g) /\ z = Channel(Len(p.channels))
      OBVIOUS
    <3>2. /\ q.channels = s /\ q.non_channel = p.non_channel
          /\ q.by_id = Put(p.by_id, g.id, z) /\ q.by_name = Put(p.by_name, g.name, z)
          /\ q.used_addrs = p.used_addrs
      BY <1>7, <2>1, <3>1 DEF IsPatch, Placed
    <3> QED
      BY <2>1, <3>1, <3>2 DEF Put
  <2>2. CASE /\ cfg.channel = FALSE
             /\ q = Placed([p EXCEPT !.non_channel = Append(@, g)], g,
                           NonChannel(Len(p.non_channel)))
    <3>1. PICK s, z : s = Append(p.non_channel, g) /\ z = NonChannel(Len(p.non_channel))
      OBVIOUS
    <3>2. /\ q.channels = p.channels /\ q.non_channel = s
          /\ q.by_id = Put(p.by_id, g.id, z) /\ q.by_name = Put(p.by_name, g.name, z)
          /\ q.used_addrs = p.used_addrs
      BY <1>7, <2>2, <3>1 DEF IsPatch, Placed
    <3> QED
      BY <2>2, <3>1, <3>2 DEF Put
  <2> QED
    BY <1>9, <2>1, <2>2
<1>11. Shape'
  BY <1>1, <1>2, <1>3 DEF Shape
<1>12. SoFarWell' /\ SoFarBuilt'
  BY <1>1, <1>2, <1>3, <1>4, <1>6 DEF SoFarWell, SoFarBuilt
<1>13. SoFarNamed'
  <2>1. DOMAIN q.by_id = {cfgs[j].id : j \in 1 .. i}
    BY <1>2, <1>3, <1>4, <1>6, <1>7, <1>10 DEF SoFarNamed
  <2>2. DOMAIN q.by_name = {name(cfgs[j]) : j \in 1 .. i}
    BY <1>2, <1>3, <1>4, <1>6, <1>7, <1>10 DEF SoFarNamed
  <2>3. \A j, k \in 1 .. i :
          j # k => cfgs[j].id # cfgs[k].id /\ name(cfgs[j]) # name(cfgs[k])
    BY <1>1, <1>2, <1>3, <1>4 DEF SoFarNamed
  <2> QED
    BY <1>1, <1>4, <1>8, <2>1, <2>2, <2>3 DEF SoFarNamed
<1>14. SoFarApart'
  <2>1. ASSUME NEW x \in Nat \X (Nat \X Nat) PROVE x \in Done' <=> x \in Done
    <3>1. x[1] \in Nat
      OBVIOUS
    <3>2. x[1] < i + 1 <=> x[1] < i \/ x[1] = i
      BY <1>3, <3>1
    <3>3. ~Reached(x[2])'
      BY <1>1 DEF Reached
    <3> QED
      BY <1>1, <1>3, <1>6, <3>2, <3>3 DEF Done
  <2>2. Done' = Done
    BY <2>1 DEF Done
  <2> QED
    BY <1>1, <1>2, <1>7, <1>8, <1>10, <2>2 DEF SoFarApart
<1>15. SoFarPlaced'
  <2>1. Chosen(p.channels, i - 1, cfgs, TRUE) /\ Chosen(p.non_channel, i - 1, cfgs, FALSE)
    BY <1>2, <1>7 DEF SoFarPlaced
  <2>2. CASE /\ cfg.channel = TRUE /\ q.channels = Append(p.channels, g)
             /\ q.non_channel = p.non_channel
    <3>1. Chosen(q.channels, i, cfgs, TRUE)
      <4>1. PICK t : t = Append(p.channels, GroupOf(cfgs[(i - 1) + 1]))
        OBVIOUS
      <4>2. Chosen(t, (i - 1) + 1, cfgs, TRUE)
        BY <1>3, <1>4, <2>1, <2>2, <4>1, ChosenMore
      <4> QED
        BY <1>3, <1>4, <1>5, <2>2, <4>1, <4>2
    <3>2. Chosen(q.non_channel, (i - 1) + 1, cfgs, FALSE)
      BY <1>3, <1>4, <2>1, <2>2, ChosenSame
    <3> QED
      BY <1>1, <1>4, <1>8, <3>1, <3>2 DEF SoFarPlaced
  <2>3. CASE /\ cfg.channel = FALSE /\ q.non_channel = Append(p.non_channel, g)
             /\ q.channels = p.channels
    <3>1. Chosen(q.non_channel, i, cfgs, FALSE)
      <4>1. PICK t : t = Append(p.non_channel, GroupOf(cfgs[(i - 1) + 1]))
        OBVIOUS
      <4>2. Chosen(t, (i - 1) + 1, cfgs, FALSE)
        BY <1>3, <1>4, <2>1, <2>3, <4>1, ChosenMore
      <4> QED
        BY <1>3, <1>4, <1>5, <2>3, <4>1, <4>2
    <3>2. Chosen(q.channels, (i - 1) + 1, cfgs, TRUE)
      BY <1>3, <1>4, <2>1, <2>3, ChosenSame
    <3> QED
      BY <1>1, <1>4, <1>8, <3>1, <3>2 DEF SoFarPlaced
  <2> QED
    BY <1>10, <2>2, <2>3
<1> QED
  BY <1>1, <1>3, <1>11, <1>12, <1>13, <1>14, <1>15 DEF HInv

(* Nothing is remembered of a list once it has been answered.              *)
LEMMA IdleHistory == Idle => HInv'
BY DEF Idle, HInv

(* No step can break the invariant of the refinement.                      *)
LEMMA StepHistory == IInv /\ HInv /\ [Next]_vars => HInv'
<1> SUFFICES ASSUME IInv, HInv, [Next]_vars PROVE HInv'
  OBVIOUS
<1>1. ASSUME NEW list \in ConfigLists, repatch(list) PROVE HInv'
  BY <1>1, repatchHistory
<1>2. CASE StartGroup
  BY <1>2, StartGroupHistory
<1>3. CASE PatchBlock
  BY <1>3, PatchBlockHistory
<1>4. CASE allocate
  BY <1>4, allocateHistory
<1>5. CASE EndBlock
  BY <1>5, EndBlockHistory
<1>6. CASE EndGroup
  BY <1>6, EndGroupHistory
<1>7. CASE Refuse \/ Replace
  BY <1>7, IdleHistory DEF Refuse, Replace
<1>8. ASSUME NEW id \in GroupIds, control(id) PROVE HInv'
  BY <1>8 DEF control, cursor, HInv
<1>9. CASE UNCHANGED vars
  <2>1. /\ cfgs' = cfgs /\ i' = i /\ b' = b /\ left' = left /\ dmx_index' = dmx_index
        /\ group' = group /\ pc' = pc /\ new_patch' = new_patch
    BY <1>9 DEF vars, cursor
  <2>2. Shape' = Shape /\ SoFarWell' = SoFarWell /\ SoFarNamed' = SoFarNamed
    BY <2>1 DEF Shape, SoFarWell, SoFarNamed, cfg, block, width, BlockRefused
  <2>3. SoFarApart' = SoFarApart
    BY <2>1 DEF SoFarApart, Done, Reached, block, cfg
  <2>4. SoFarBuilt' = SoFarBuilt /\ SoFarPlaced' = SoFarPlaced
    BY <2>1 DEF SoFarBuilt, SoFarPlaced, DoneHere, Reached, block, cfg
  <2> QED
    BY <2>1, <2>2, <2>3, <2>4 DEF HInv
<1> QED
  BY <1>1, <1>2, <1>3, <1>4, <1>5, <1>6, <1>7, <1>8, <1>9 DEF Next

(* It holds of every state of every behaviour.                             *)
LEMMA History == Spec => []HInv
<1>1. Init => HInv
  BY DEF Init, HInv
<1> QED
  BY <1>1, Invariance, StepHistory, PTL DEF Spec

(* What is refused is not patchable: what is wrong with it is wrong with   *)
(* the whole list.                                                         *)
LEMMA RefusedRightly == HInv /\ Refuse => ~Patchable(cfgs)
<1> SUFFICES ASSUME HInv, Refuse, Patchable(cfgs) PROVE FALSE
  OBVIOUS
<1>1. i <= Len(cfgs) /\ pc # "idle"
  BY Patching DEF Refuse, Shape
<1>2. /\ Shape /\ SoFarNamed /\ SoFarApart
      /\ i \in Nat /\ cfg = cfgs[i] /\ i \in DOMAIN cfgs
      /\ 1 .. i - 1 \subseteq DOMAIN cfgs
      /\ Len(cfg.patches) \in Nat /\ DOMAIN cfg.patches = 1 .. Len(cfg.patches)
      /\ \A c \in DOMAIN cfg.patches : cfg.patches[c].count \in Nat
      /\ \A p \in Nat \X Nat : p \in Places(cfg) <=>
            /\ p[1] \in DOMAIN cfg.patches
            /\ p[2] \in 1 .. start_count(cfg.patches[p[1]])
      /\ Places(cfg) \subseteq Nat \X Nat
  BY <1>1, Patching
<1>3. WellFormed(cfg)
  BY <1>2 DEF Patchable
<1>4. CASE pc = "group" /\ GroupRefused
  <2>1. /\ cfg.fixture \in FixtureTypes /\ cfg.group \notin FixtureTypes
        /\ cfg.options \notin BadOptions /\ cfg.patches # <<>>
    BY <1>3 DEF WellFormed
  <2>2. \A j \in 1 .. i - 1 : cfgs[j].id # cfg.id /\ name(cfgs[j]) # name(cfg)
    <3>1. \A j \in 1 .. i - 1 : j # i
      BY <1>2
    <3> QED
      BY <1>2, <3>1 DEF Patchable
  <2> QED
    BY <1>2, <1>4, <2>1, <2>2 DEF GroupRefused, SoFarNamed
<1>5. ASSUME b \in DOMAIN cfg.patches PROVE BlockWellFormed(block, width)
  BY <1>3, <1>5 DEF WellFormed, block, width
<1>6. CASE pc = "block" /\ b <= Len(cfg.patches) /\ BlockRefused
  <2>1. b \in DOMAIN cfg.patches
    BY <1>2, <1>6 DEF Shape
  <2>2. BlockWellFormed(block, width)
    BY <1>5, <2>1
  <2> QED
    BY <1>6, <2>2 DEF BlockRefused, BlockWellFormed
<1>7. CASE pc = "fixture" /\ left > 0 /\ AddressRefused
  <2>1. /\ b \in Nat /\ b \in DOMAIN cfg.patches /\ ~BlockRefused /\ block.addr # NoAddr
        /\ left \in 0 .. block.count
        /\ dmx_index = block.addr - 1 + (block.count - left) * width
        /\ block = cfg.patches[b] /\ block.count \in Nat
    BY <1>2, <1>7 DEF Shape, block
  <2>2. BlockWellFormed(block, width)
    BY <1>5, <2>1
  <2>3. width \in Nat /\ width # 0 /\ block.addr \in Nat
    <3>1. cfg.fixture \in FixtureTypes
      BY <1>3 DEF WellFormed
    <3> QED
      BY <2>1, <3>1, TypesAssumption, DmxSizeAssumption DEF width, BlockRefused
  <2>4. PICK k \in Nat : k = block.count - left /\ k + 1 \in 1 .. block.count
    BY <1>7, <2>1
  <2>5. dmx_index = block.addr - 1 + k * width /\ dmx_index \in Int
    BY <2>1, <2>3, <2>4
  <2>6. dmx_index + width = block.addr - 1 + (k + 1) * width
    BY <2>3, <2>4, <2>5
  <2>7. block.addr - 1 + (k + 1) * width <= DmxSize
    BY <2>1, <2>2, <2>4 DEF BlockWellFormed
  <2>8. dmx_index + width <= DmxSize
    BY <2>6, <2>7
  <2>9. ~(dmx_index >= DmxSize) /\ ~(dmx_index + width > DmxSize)
    BY <2>3, <2>5, <2>8, DmxSizeAssumption
  <2>10. PICK a \in Wanted \cap DOMAIN new_patch.used_addrs :
           ~have_mutual_affinity(cfg.fixture, new_patch.used_addrs[a])
    BY <1>7, <2>9 DEF AddressRefused
  <2>11. PICK x \in Done :
           a \in addresses(At(cfgs, x)) /\ new_patch.used_addrs[a] = TypeAt(cfgs, x)
    BY <1>2, <2>10 DEF SoFarApart, Used
  <2>12. PICK p : p = <<b, k + 1>>
    OBVIOUS
  <2>13. p \in Places(cfg) /\ p[1] = b /\ p[2] = k + 1
    <3>1. p \in Nat \X Nat /\ p[1] = b /\ p[2] = k + 1
      BY <2>1, <2>4, <2>12
    <3>2. start_count(cfg.patches[b]) = block.count
      BY <2>1 DEF start_count
    <3> QED
      BY <1>2, <2>1, <2>4, <3>1, <3>2
  <2>14. \A q \in Places(cfg) : Reached(q) => Before(q, p)
    <3>1. \A q \in Places(cfg) : q[2] \in Nat
      BY <1>2
    <3> QED
      BY <1>7, <2>4, <2>13, <3>1 DEF Reached, Before
  <2>15. <<i, p>> \notin Done
    BY <1>1, <2>13, <2>14, ReachedBefore
  <2>16. FixtureAt(cfg, p) = fixture_config(block.universe, dmx_index, width)
    <3>1. (k + 1) - 1 = k
      BY <2>4
    <3> QED
      BY <2>1, <2>5, <2>13, <3>1 DEF FixtureAt, width
  <2>17. a \in addresses(FixtureAt(cfgs[i], p))
    BY <1>2, <2>10, <2>16 DEF Wanted
  <2>18. PICK j, q : j \in DOMAIN cfgs /\ q \in Places(cfgs[j]) /\ x = <<j, q>>
    BY DEF Done
  <2>19. a \in addresses(FixtureAt(cfgs[j], q)) /\ new_patch.used_addrs[a] = cfgs[j].fixture
    BY <2>11, <2>18 DEF At, TypeAt
  <2>20. FixturesApart(cfgs)
    BY DEF Patchable
  <2>21. \/ <<i, p>> = <<j, q>>
         \/ addresses(FixtureAt(cfgs[i], p)) \cap addresses(FixtureAt(cfgs[j], q)) = {}
         \/ have_mutual_affinity(cfgs[i].fixture, cfgs[j].fixture)
    BY <1>2, <2>13, <2>18, <2>20 DEF FixturesApart
  <2>22. <<i, p>> # <<j, q>>
    BY <2>11, <2>15, <2>18
  <2> QED
    BY <1>2, <2>10, <2>17, <2>19, <2>21, <2>22
<1> QED
  BY <1>4, <1>6, <1>7 DEF Refuse

(* What gets through is patchable, and is what it is to be patched to.     *)
LEMMA PatchedRightly ==
    ASSUME HInv, pc = "group", i > Len(cfgs)
    PROVE  /\ Patchable(cfgs)
           /\ new_patch.channels = GroupsOf(cfgs, TRUE)
           /\ new_patch.non_channel = GroupsOf(cfgs, FALSE)
<1>1. /\ Shape /\ SoFarWell /\ SoFarNamed /\ SoFarApart /\ SoFarPlaced
      /\ DOMAIN cfgs = 1 .. Len(cfgs) /\ Len(cfgs) \in Nat
      /\ i \in Nat /\ i - 1 = Len(cfgs)
      /\ \A j \in DOMAIN cfgs : Places(cfgs[j]) \subseteq Nat \X Nat
  BY Patching DEF Shape
<1>2. /\ \A j \in DOMAIN cfgs : WellFormed(cfgs[j])
      /\ \A j, k \in DOMAIN cfgs :
            j # k => cfgs[j].id # cfgs[k].id /\ name(cfgs[j]) # name(cfgs[k])
  BY <1>1 DEF SoFarWell, SoFarNamed
<1>3. ASSUME NEW j \in DOMAIN cfgs, NEW p \in Places(cfgs[j])
      PROVE  <<j, p>> \in Done
  <2>1. j \in Nat /\ j < i /\ p \in Nat \X Nat
    BY <1>1
  <2> QED
    BY <2>1 DEF Done
<1>4. FixturesApart(cfgs)
  <2>1. ASSUME NEW j \in DOMAIN cfgs, NEW k \in DOMAIN cfgs,
               NEW p \in Places(cfgs[j]), NEW q \in Places(cfgs[k])
        PROVE  \/ <<j, p>> = <<k, q>>
               \/ addresses(FixtureAt(cfgs[j], p)) \cap addresses(FixtureAt(cfgs[k], q)) = {}
               \/ have_mutual_affinity(cfgs[j].fixture, cfgs[k].fixture)
    <3>1. PICK x, y : x = <<j, p>> /\ y = <<k, q>>
      OBVIOUS
    <3>2. Apart(cfgs, x, y)
      BY <1>1, <1>3, <3>1 DEF SoFarApart, Used
    <3>3. /\ At(cfgs, x) = FixtureAt(cfgs[j], p) /\ TypeAt(cfgs, x) = cfgs[j].fixture
          /\ At(cfgs, y) = FixtureAt(cfgs[k], q) /\ TypeAt(cfgs, y) = cfgs[k].fixture
      BY <3>1 DEF At, TypeAt
    <3> QED
      BY <3>1, <3>2, <3>3 DEF Apart
  <2> QED
    BY <2>1 DEF FixturesApart
<1>5. /\ Chosen(new_patch.channels, Len(cfgs), cfgs, TRUE)
      /\ Chosen(new_patch.non_channel, Len(cfgs), cfgs, FALSE)
  BY <1>1 DEF SoFarPlaced
<1> QED
  BY <1>1, <1>2, <1>4, <1>5, ChosenAll DEF Patchable

(***************************************************************************)
(* The refinement: PatchContract and PatchConfig, as Patch's instance of   *)
(* PatchSpec has them, are PatchContract and PatchConfig.                  *)
(***************************************************************************)
(* What is patchable.                                                      *)
LEMMA SamePatchable == ASSUME NEW list PROVE Abstract!Patchable(list) <=> Patchable(list)
BY Zenon DEF Abstract!Patchable, Patchable, Abstract!FixturesApart, FixturesApart,
    Abstract!WellFormed, WellFormed, Abstract!BlockWellFormed, BlockWellFormed,
    Abstract!Places, Places, Abstract!FixtureAt, FixtureAt,
    Abstract!start_count, start_count, Abstract!fixture_config, fixture_config,
    Abstract!addresses, addresses, Abstract!have_mutual_affinity, have_mutual_affinity,
    Abstract!name, name, Abstract!NoAddr, NoAddr, Abstract!NoIndex, NoIndex

(* What is counted.                                                        *)
LEMMA SameCardinality == ASSUME NEW S PROVE Abstract!Cardinality(S) = Cardinality(S)
BY Zenon DEF Abstract!Cardinality, Cardinality

(* A group's fixtures.                                                     *)
LEMMA SameFixtures == ASSUME NEW c PROVE Abstract!Fixtures(c) = Fixtures(c)
<1>1. Abstract!Places(c) = Places(c)
  BY Zenon DEF Abstract!Places, Places, Abstract!start_count, start_count,
               Abstract!NoAddr, NoAddr
<1>2. PICK S : S = Places(c)
  OBVIOUS
<1>3. PICK n : n = Cardinality(S)
  OBVIOUS
<1>4. PICK places :
        places = CHOOSE e \in [1 .. n -> S] :
                    \A l, m \in DOMAIN e : l < m => Before(e[l], e[m])
  OBVIOUS
<1>5. Fixtures(c) = [m \in DOMAIN places |-> FixtureAt(c, places[m])]
  BY <1>2, <1>3, <1>4 DEF Fixtures, InOrder
<1>6. Abstract!Cardinality(S) = n
  BY <1>3, SameCardinality
<1>7. Abstract!InOrder(S, Abstract!Before) = places
  BY <1>4, <1>6 DEF Abstract!InOrder, Abstract!Before, Before
<1>8. \A p : Abstract!FixtureAt(c, p) = FixtureAt(c, p)
  BY Zenon DEF Abstract!FixtureAt, FixtureAt, Abstract!fixture_config, fixture_config,
               Abstract!NoAddr, NoAddr, Abstract!NoIndex, NoIndex
<1>9. Abstract!Fixtures(c) = [m \in DOMAIN places |-> Abstract!FixtureAt(c, places[m])]
  BY <1>1, <1>2, <1>7 DEF Abstract!Fixtures
<1> QED
  BY <1>5, <1>8, <1>9

(* A group.                                                                *)
LEMMA SameGroup == ASSUME NEW c PROVE Abstract!GroupOf(c) = GroupOf(c)
<1>1. PICK f : f = Fixtures(c) /\ f = Abstract!Fixtures(c)
  BY SameFixtures
<1> QED
  BY <1>1, Zenon DEF Abstract!GroupOf, GroupOf, Abstract!empty_group, empty_group,
    Abstract!name, name,
    Abstract!init_positioner_if_supported, init_positioner_if_supported

(* The groups of a list.                                                   *)
LEMMA SameGroups ==
    ASSUME NEW list, NEW channel
    PROVE  Abstract!GroupsOf(list, channel) = GroupsOf(list, channel)
<1>1. PICK S : S = {j \in DOMAIN list : list[j].channel = channel}
  OBVIOUS
<1>2. PICK n : n = Cardinality(S)
  OBVIOUS
<1>3. PICK chosen :
        chosen = CHOOSE e \in [1 .. n -> S] : \A l, m \in DOMAIN e : l < m => e[l] < e[m]
  OBVIOUS
<1>4. GroupsOf(list, channel) = [m \in DOMAIN chosen |-> GroupOf(list[chosen[m]])]
  BY <1>1, <1>2, <1>3 DEF GroupsOf, InOrder, Lower
<1>5. Abstract!Cardinality(S) = n
  BY <1>2, SameCardinality
<1>6. Abstract!InOrder(S, Abstract!Lower) = chosen
  BY <1>3, <1>5 DEF Abstract!InOrder, Abstract!Lower
<1>7. Abstract!GroupsOf(list, channel)
        = [m \in DOMAIN chosen |-> Abstract!GroupOf(list[chosen[m]])]
  BY <1>1, <1>6 DEF Abstract!GroupsOf
<1> QED
  BY <1>4, <1>7, SameGroup

\* What the caller sees of a patch.
Seen(p) == [channels |-> p.channels, non_channel |-> p.non_channel, configs |-> p.configs]

(* What is carried over.                                                   *)
LEMMA SameCarryOver ==
    ASSUME NEW groups, NEW p
    PROVE  Abstract!carry_over(groups, Seen(p)) = carry_over(groups, p)
<1>1. Seen(p).channels = p.channels /\ Seen(p).non_channel = p.non_channel
  BY DEF Seen
<1>2. PICK old : old = Groups(p)
  OBVIOUS
<1>3. Abstract!Groups(Seen(p)) = old
  BY <1>1, <1>2, Zenon DEF Abstract!Groups, Groups, Abstract!ToSet, ToSet
<1>4. \A new, o : Abstract!reconfigure_from(new, o) = reconfigure_from(new, o)
  BY Zenon DEF Abstract!reconfigure_from, reconfigure_from,
    Abstract!Compatible, Compatible,
    Abstract!reconcile_to_fixture_count, reconcile_to_fixture_count
<1> QED
  BY <1>2, <1>3, <1>4, Zenon DEF Abstract!carry_over, carry_over

(* What a list is patched to.                                              *)
LEMMA SamePatched ==
    ASSUME NEW list, NEW p
    PROVE  Abstract!Patched(list, Seen(p))
             = [channels |-> carry_over(GroupsOf(list, TRUE), p),
                non_channel |-> carry_over(GroupsOf(list, FALSE), p),
                configs |-> list]
BY SameGroups, SameCarryOver, Zenon DEF Abstract!Patched

(* What is operated.                                                       *)
LEMMA SameOperated ==
    ASSUME NEW groups, NEW id
    PROVE  Abstract!operated(groups, id) = operated(groups, id)
BY Zenon DEF Abstract!operated, operated

(* Every step is a step of PatchSpec, or none of its caller's concern.     *)
LEMMA Simulation == IInv /\ HInv /\ [Next]_vars => [Abstract!Next]_(Abstract!vars)
<1> SUFFICES ASSUME IInv, HInv, [Next]_vars PROVE [Abstract!Next]_(Abstract!vars)
  OBVIOUS
<1>1. pc = "idle" <=> cfgs = NoRequest
  BY DEF HInv
<1>2. ASSUME NEW list \in ConfigLists, repatch(list) PROVE Abstract!Next
  <2>1. Abstract!Request(list)
    BY <1>1, <1>2 DEF repatch, Abstract!Request
  <2> QED
    BY <2>1 DEF Abstract!Next
<1>3. CASE StartGroup \/ PatchBlock \/ allocate \/ EndBlock \/ EndGroup \/ UNCHANGED vars
  <2>1. patch' = patch /\ cfgs' = cfgs /\ outcome' = outcome
    BY <1>3 DEF StartGroup, PatchBlock, allocate, EndBlock, EndGroup, vars, cursor
  <2> QED
    BY <2>1 DEF Abstract!vars
<1>4. CASE Refuse
  <2>1. /\ cfgs # NoRequest /\ cfgs' = NoRequest /\ outcome' = "error"
        /\ patch' = patch /\ ~Abstract!Patchable(cfgs)
    BY <1>1, <1>4, RefusedRightly, SamePatchable DEF Refuse, Idle
  <2>2. Abstract!Answer
    BY <2>1 DEF Abstract!Answer
  <2> QED
    BY <2>2 DEF Abstract!Next
<1>5. CASE Replace
  <2>1. /\ pc = "group" /\ i > Len(cfgs) /\ cfgs # NoRequest /\ cfgs' = NoRequest
        /\ outcome' = "ok"
        /\ patch' = [new_patch EXCEPT !.channels = carry_over(@, patch),
                                      !.non_channel = carry_over(@, patch),
                                      !.configs = cfgs]
    BY <1>1, <1>5 DEF Replace, Idle
  <2>2. /\ Abstract!Patchable(cfgs)
        /\ new_patch.channels = GroupsOf(cfgs, TRUE)
        /\ new_patch.non_channel = GroupsOf(cfgs, FALSE)
    BY <2>1, PatchedRightly, SamePatchable
  <2>3. PICK cs, ns : /\ cs = carry_over(GroupsOf(cfgs, TRUE), patch)
                      /\ ns = carry_over(GroupsOf(cfgs, FALSE), patch)
    OBVIOUS
  <2>4. Seen(patch') = [channels |-> cs, non_channel |-> ns, configs |-> cfgs]
    <3>1. IsPatch(new_patch)
      BY DEF IInv, PatchOK
    <3>2. patch' = [new_patch EXCEPT !.channels = cs, !.non_channel = ns, !.configs = cfgs]
      BY <2>1, <2>2, <2>3
    <3> QED
      BY <3>1, <3>2 DEF Seen, IsPatch
  <2>5. Seen(patch') = Abstract!Patched(cfgs, Seen(patch))
    BY <2>3, <2>4, SamePatched
  <2>6. Abstract!Answer
    BY <2>1, <2>2, <2>5 DEF Abstract!Answer, Seen
  <2> QED
    BY <2>6 DEF Abstract!Next
<1>6. ASSUME NEW id \in GroupIds, control(id) PROVE Abstract!Next
  <2>1. /\ cfgs = NoRequest /\ cfgs' = cfgs /\ outcome' = outcome
        /\ patch' = [patch EXCEPT !.channels = operated(@, id),
                                  !.non_channel = operated(@, id)]
    BY <1>1, <1>6 DEF control, cursor
  <2>2. PICK cs, ns : cs = operated(patch.channels, id) /\ ns = operated(patch.non_channel, id)
    OBVIOUS
  <2>3. /\ cs = Abstract!operated(patch.channels, id)
        /\ ns = Abstract!operated(patch.non_channel, id)
    BY <2>2, SameOperated
  <2>4. /\ patch'.channels = cs /\ patch'.non_channel = ns
        /\ patch'.configs = patch.configs
    <3>1. IsPatch(patch)
      BY DEF IInv, PatchOK
    <3>2. patch' = [patch EXCEPT !.channels = cs, !.non_channel = ns]
      BY <2>1, <2>2
    <3> QED
      BY <3>1, <3>2 DEF IsPatch
  <2>5. PICK p : p = Seen(patch)
    OBVIOUS
  <2>6. Seen(patch') = [p EXCEPT !.channels = cs, !.non_channel = ns]
    <3>1. /\ p = [channels |-> p.channels, non_channel |-> p.non_channel,
                   configs |-> p.configs]
          /\ p.configs = patch.configs
      BY <2>5 DEF Seen
    <3>2. PICK q : q = [p EXCEPT !.channels = cs, !.non_channel = ns]
      OBVIOUS
    <3>3. /\ q = [channels |-> q.channels, non_channel |-> q.non_channel,
                   configs |-> q.configs]
          /\ q.channels = cs /\ q.non_channel = ns /\ q.configs = p.configs
      BY <3>1, <3>2
    <3>4. Seen(patch') = q
      BY <2>4, <3>1, <3>3 DEF Seen
    <3> QED
      BY <3>2, <3>4
  <2>7. p.channels = patch.channels /\ p.non_channel = patch.non_channel
    BY <2>5 DEF Seen
  <2>8. Seen(patch') = [p EXCEPT !.channels = Abstract!operated(@, id),
                                 !.non_channel = Abstract!operated(@, id)]
    BY <2>3, <2>6, <2>7
  <2>9. Abstract!Operate(id)
    BY <2>1, <2>5, <2>8 DEF Abstract!Operate, Seen
  <2> QED
    BY <2>9 DEF Abstract!Next
<1> QED
  BY <1>2, <1>3, <1>4, <1>5, <1>6 DEF Next

(* Patch::repatch, which checks each group, block and fixture against what *)
(* it has patched so far, accepts exactly the lists that are patchable as  *)
(* a whole, and is one step to its caller: all of the new patch, with the  *)
(* state of the groups that survive, or nothing at all.                    *)
THEOREM Refinement == Spec => ImplementsPatchSpec
<1>1. Init => Abstract!Init
  BY DEF Init, Abstract!Init, empty_patch
<1> QED
  BY <1>1, Invariance, History, Simulation, PTL DEF Spec, ImplementsPatchSpec, Abstract!Spec
=============================================================================

--------------------------- MODULE WorkersProofs ---------------------------
(***************************************************************************)
(* Proofs about Workers and NetworkFixtures, for any number of fixtures,   *)
(* any show and any changes of controls, whatever fails and whenever the   *)
(* exit comes.                                                             *)
(*                                                                         *)
(* The two kinds of network fixture have an invariant each, over what one  *)
(* fixture keeps: where the latest value of each part of a Lumitone's state *)
(* is, and where the last message to a WLED node is.  That the thread of   *)
(* one kind never works on a fixture of the other, and that every thread   *)
(* but some is registered or awaited, is a matter of the threads.          *)
(***************************************************************************)
EXTENDS Workers, SequenceFacts

(* Nothing has no parts.                                                   *)
LEMMA NoneIsEmpty == DOMAIN None = {}
BY DEF None

(***************************************************************************)
(* A Lumitone: its controls, its channel, its pending state, the device    *)
(***************************************************************************)
InChannel(p, ch) == \E k \in 1 .. Len(ch) : p \in DOMAIN ch[k]

\* The latest value of a part is in the last message that carries it, or else
\* pending, or else what the device was told.
Reaches(p, v, ch, pe, de) ==
    \/ \E k \in 1 .. Len(ch) :
        /\ p \in DOMAIN ch[k] /\ ch[k][p] = v
        /\ \A l \in 1 .. Len(ch) : l > k => p \notin DOMAIN ch[l]
    \/ /\ ~InChannel(p, ch)
       /\ p \in DOMAIN pe \cup DOMAIN de /\ overlaid(pe, de)[p] = v

LumitoneOK(lat, ch, pe, de) ==
    LET parts == Parts("Lumitone") IN
    /\ lat = [p \in parts |-> lat[p]]
    /\ IsSeq(ch)
    /\ DOMAIN pe \subseteq parts /\ DOMAIN de \subseteq parts
    /\ \A k \in 1 .. Len(ch) : DOMAIN ch[k] \subseteq parts
    /\ \A p \in parts : lat[p] # 0 => Reaches(p, lat[p], ch, pe, de)

(* A control that moves posts its part.                                    *)
LEMMA LumitoneChanges ==
    ASSUME NEW lat, NEW ch, NEW pe, NEW de, LumitoneOK(lat, ch, pe, de),
           NEW c \in Parts("Lumitone"), NEW v,
           NEW lat2, lat2 = [lat EXCEPT ![c] = v],
           NEW m, m = Restrict(lat2, {c})
    PROVE  LumitoneOK(lat2, Append(ch, m), pe, de)
<1> DEFINE parts == Parts("Lumitone")
<1>1. /\ lat2 = [p \in parts |-> lat2[p]] /\ lat2[c] = v
      /\ \A p \in parts : p # c => lat2[p] = lat[p]
  BY DEF LumitoneOK
<1>2. DOMAIN m = {c} /\ m[c] = v
  BY <1>1 DEF Restrict
<1>3. PICK ch2 : ch2 = Append(ch, m)
  OBVIOUS
<1>4. /\ IsSeq(ch2) /\ Len(ch2) = Len(ch) + 1 /\ ch2[Len(ch) + 1] = m
      /\ \A k \in 1 .. Len(ch) : ch2[k] = ch[k]
      /\ Len(ch) \in Nat
  BY <1>3, AppendSeq, SeqFacts DEF LumitoneOK
<1>5. \A k \in 1 .. Len(ch2) : DOMAIN ch2[k] \subseteq parts
  BY <1>2, <1>4 DEF LumitoneOK
<1>6. ASSUME NEW p \in parts, lat2[p] # 0
      PROVE  Reaches(p, lat2[p], ch2, pe, de)
  <2>1. CASE p = c
    BY <1>1, <1>2, <1>4, <2>1 DEF Reaches
  <2>2. CASE p # c
    <3>1. Reaches(p, lat2[p], ch, pe, de)
      BY <1>1, <1>6, <2>2 DEF LumitoneOK
    <3>2. CASE InChannel(p, ch)
      BY <1>2, <1>4, <2>2, <3>1, <3>2 DEF Reaches
    <3>3. CASE ~InChannel(p, ch)
      BY <1>2, <1>4, <2>2, <3>1, <3>3 DEF Reaches, InChannel
    <3> QED
      BY <3>2, <3>3
  <2> QED
    BY <2>1, <2>2
<1> QED
  BY <1>1, <1>3, <1>4, <1>5, <1>6 DEF LumitoneOK

(* A message that is received is laid over what is pending.                *)
LEMMA LumitoneReceives ==
    ASSUME NEW lat, NEW ch, NEW pe, NEW de, LumitoneOK(lat, ch, pe, de), ch # <<>>
    PROVE  LumitoneOK(lat, Tail(ch), overlaid(Head(ch), pe), de)
<1> DEFINE parts == Parts("Lumitone")
<1>1. PICK ch2, pe2 : ch2 = Tail(ch) /\ pe2 = overlaid(ch[1], pe)
  OBVIOUS
<1>2. /\ IsSeq(ch2) /\ Len(ch2) = Len(ch) - 1 /\ Len(ch) > 0 /\ Len(ch) \in Nat
      /\ \A k \in 1 .. Len(ch2) : ch2[k] = ch[k + 1]
      /\ Head(ch) = ch[1]
  BY <1>1, TailSeq, SeqFacts DEF LumitoneOK
<1>3. /\ DOMAIN pe2 = DOMAIN ch[1] \cup DOMAIN pe
      /\ \A p \in DOMAIN pe2 : pe2[p] = IF p \in DOMAIN ch[1] THEN ch[1][p] ELSE pe[p]
  BY <1>1 DEF overlaid
<1>4. /\ DOMAIN pe2 \subseteq parts
      /\ \A k \in 1 .. Len(ch2) : DOMAIN ch2[k] \subseteq parts
  BY <1>2, <1>3 DEF LumitoneOK
<1>5. ASSUME NEW p \in parts, lat[p] # 0
      PROVE  Reaches(p, lat[p], ch2, pe2, de)
  <2>0. /\ p \in DOMAIN pe2 \cup DOMAIN de =>
              overlaid(pe2, de)[p] = IF p \in DOMAIN pe2 THEN pe2[p] ELSE de[p]
        /\ p \in DOMAIN pe \cup DOMAIN de =>
              overlaid(pe, de)[p] = IF p \in DOMAIN pe THEN pe[p] ELSE de[p]
    BY DEF overlaid
  <2>1. Reaches(p, lat[p], ch, pe, de)
    BY <1>5 DEF LumitoneOK
  <2>2. CASE ~InChannel(p, ch)
    <3>1. ~InChannel(p, ch2) /\ p \notin DOMAIN ch[1]
      BY <1>2, <2>2 DEF InChannel
    <3>2. p \in DOMAIN pe \cup DOMAIN de /\ overlaid(pe, de)[p] = lat[p]
      BY <2>1, <2>2 DEF Reaches, InChannel
    <3> QED
      BY <1>3, <2>0, <3>1, <3>2 DEF Reaches
  <2>3. CASE InChannel(p, ch)
    <3>1. PICK k \in 1 .. Len(ch) :
            /\ p \in DOMAIN ch[k] /\ ch[k][p] = lat[p]
            /\ \A l \in 1 .. Len(ch) : l > k => p \notin DOMAIN ch[l]
      BY <2>1, <2>3 DEF Reaches
    <3>2. CASE k = 1
      <4>1. ASSUME NEW l \in 1 .. Len(ch2) PROVE p \notin DOMAIN ch2[l]
        <5>1. l + 1 \in 1 .. Len(ch) /\ l + 1 > k /\ ch2[l] = ch[l + 1]
          BY <1>2, <3>2
        <5> QED
          BY <3>1, <5>1
      <4>2. ~InChannel(p, ch2)
        BY <4>1 DEF InChannel
      <4> QED
        BY <1>3, <2>0, <3>1, <3>2, <4>2 DEF Reaches
    <3>3. CASE k > 1
      <4>1. /\ k - 1 \in 1 .. Len(ch2) /\ ch2[k - 1] = ch[k]
            /\ \A l \in 1 .. Len(ch2) : l > k - 1 => p \notin DOMAIN ch2[l]
        BY <1>2, <3>1, <3>3
      <4> QED
        BY <3>1, <4>1 DEF Reaches
    <3> QED
      BY <3>2, <3>3
  <2> QED
    BY <2>2, <2>3
<1> QED
  BY <1>1, <1>2, <1>4, <1>5 DEF LumitoneOK

(* A send that fails keeps all that was pending, whatever has arrived; one *)
(* that succeeds has brought all of it.                                    *)
LEMMA LumitoneSends ==
    ASSUME NEW lat, NEW ch, NEW pe, NEW de, LumitoneOK(lat, ch, pe, de),
           NEW arrived \in SUBSET DOMAIN pe,
           NEW pe2, pe2 = pe \/ (pe2 = None /\ arrived = DOMAIN pe)
    PROVE  LumitoneOK(lat, ch, pe2, overlaid(Restrict(pe, arrived), de))
<1> DEFINE parts == Parts("Lumitone")
<1>1. PICK de2 : de2 = overlaid(Restrict(pe, arrived), de)
  OBVIOUS
<1>2. DOMAIN de \subseteq parts /\ DOMAIN pe \subseteq parts /\ DOMAIN pe2 \subseteq parts
  BY NoneIsEmpty DEF LumitoneOK
<1>3. /\ DOMAIN de2 = arrived \cup DOMAIN de
      /\ \A p \in DOMAIN de2 : de2[p] = IF p \in arrived THEN pe[p] ELSE de[p]
  BY <1>1 DEF overlaid, Restrict
<1>4. ASSUME NEW p \in DOMAIN pe \cup DOMAIN de
      PROVE  /\ p \in DOMAIN pe2 \cup DOMAIN de2
             /\ overlaid(pe2, de2)[p] = overlaid(pe, de)[p]
  BY <1>3, NoneIsEmpty DEF overlaid
<1> HIDE DEF parts
<1>5. ASSUME NEW p \in parts, lat[p] # 0
      PROVE  Reaches(p, lat[p], ch, pe2, de2)
  BY <1>4, <1>5 DEF LumitoneOK, Reaches, parts
<1>6. DOMAIN de2 \subseteq parts
  BY <1>2, <1>3
<1> QED
  BY <1>1, <1>2, <1>5, <1>6 DEF LumitoneOK, parts

(* With nothing under way the device was told the latest of what has       *)
(* changed.                                                                *)
LEMMA LumitoneQuiet ==
    ASSUME NEW lat, NEW de, LumitoneOK(lat, <<>>, None, de),
           NEW p \in Parts("Lumitone"), lat[p] # 0
    PROVE  p \in DOMAIN de /\ de[p] = lat[p]
<1>1. Reaches(p, lat[p], <<>>, None, de)
  BY DEF LumitoneOK
<1>2. p \in DOMAIN None \cup DOMAIN de /\ overlaid(None, de)[p] = lat[p]
  BY <1>1 DEF Reaches
<1> QED
  BY <1>2, NoneIsEmpty DEF overlaid

(***************************************************************************)
(* A WLED node                                                             *)
(***************************************************************************)
\* The message carries the parts ne, as they are.
Newest(m, ne, lat) == DOMAIN m = ne /\ \A p \in ne : m[p] = lat[p]

\* Where the last message is: in the channel, in the slot, in the hands of the
\* poll thread or on the device.
WledOK(lat, ch, pe, fl, de, ne, lo) ==
    /\ IsSeq(ch)
    /\ \A k \in 1 .. Len(ch) : ch[k] # None
    /\ ch # <<>> => Newest(ch[Len(ch)], ne, lat)
    /\ ch = <<>> /\ pe # None => Newest(pe, ne, lat)
    /\ ch = <<>> /\ pe = None /\ fl # None => Newest(fl, ne, lat)
    /\ ch = <<>> /\ pe = None /\ fl = None /\ ~lo =>
        \A p \in ne : p \in DOMAIN de /\ de[p] = lat[p]

(* A control that moves posts the last message.                            *)
LEMMA WledChanges ==
    ASSUME NEW lat, NEW ch, NEW pe, NEW fl, NEW de, NEW ne, NEW lo,
           WledOK(lat, ch, pe, fl, de, ne, lo), NEW lat2, NEW ne2, ne2 # {}
    PROVE  WledOK(lat2, Append(ch, Restrict(lat2, ne2)), pe, fl, de, ne2, lo)
<1>1. PICK m, ch2 : m = Restrict(lat2, ne2) /\ ch2 = Append(ch, m)
  OBVIOUS
<1>2. Newest(m, ne2, lat2) /\ m # None
  BY <1>1, NoneIsEmpty DEF Newest, Restrict
<1>3. /\ IsSeq(ch2) /\ Len(ch2) = Len(ch) + 1 /\ Len(ch) \in Nat /\ ch2 # <<>>
      /\ \A k \in 1 .. Len(ch) : ch2[k] = ch[k]
      /\ ch2[Len(ch) + 1] = m
  BY <1>1, AppendSeq, SeqFacts DEF WledOK
<1>4. \A k \in 1 .. Len(ch2) : ch2[k] # None
  BY <1>2, <1>3 DEF WledOK
<1> QED
  BY <1>1, <1>2, <1>3, <1>4 DEF WledOK

(* The last message of the channel takes the slot.                         *)
LEMMA WledDrains ==
    ASSUME NEW lat, NEW ch, NEW pe, NEW fl, NEW de, NEW ne, NEW lo,
           WledOK(lat, ch, pe, fl, de, ne, lo), ch # <<>>
    PROVE  WledOK(lat, Tail(ch), Head(ch), fl, de, ne, lo)
<1>1. PICK t, h : t = Tail(ch) /\ h = Head(ch)
  OBVIOUS
<1>2. /\ IsSeq(t) /\ Len(t) = Len(ch) - 1 /\ Len(ch) > 0 /\ Len(ch) \in Nat
      /\ \A k \in 1 .. Len(t) : t[k] = ch[k + 1]
      /\ h = ch[1] /\ (t = <<>> <=> Len(t) = 0) /\ Len(t) \in Nat
  BY <1>1, TailSeq, SeqFacts DEF WledOK
<1>3. Newest(ch[Len(ch)], ne, lat) /\ h # None
  BY <1>2 DEF WledOK
<1>4. ASSUME t # <<>> PROVE Newest(t[Len(t)], ne, lat)
  <2>1. Len(t) \in 1 .. Len(t) /\ Len(t) + 1 = Len(ch)
    BY <1>2, <1>4
  <2> QED
    BY <1>2, <1>3, <2>1
<1>5. ASSUME t = <<>> PROVE Newest(h, ne, lat)
  <2>1. Len(t) = 0
    BY <1>2, <1>5
  <2>2. Len(ch) = 1
    BY <1>2, <2>1
  <2> QED
    BY <1>2, <1>3, <2>2
<1>6. \A k \in 1 .. Len(t) : t[k] # None
  BY <1>2 DEF WledOK
<1> QED
  BY <1>1, <1>2, <1>3, <1>4, <1>5, <1>6 DEF WledOK

(* The poll thread takes it from the slot.                                 *)
LEMMA WledTakes ==
    ASSUME NEW lat, NEW ch, NEW pe, NEW de, NEW ne, NEW lo,
           WledOK(lat, ch, pe, None, de, ne, lo), pe # None
    PROVE  WledOK(lat, ch, None, pe, de, ne, lo)
BY DEF WledOK

(* The device has it, or it is lost.                                       *)
LEMMA WledFlushes ==
    ASSUME NEW lat, NEW ch, NEW pe, NEW fl, NEW de, NEW ne, NEW lo,
           WledOK(lat, ch, pe, fl, de, ne, lo), fl # None
    PROVE  /\ WledOK(lat, ch, pe, None, overlaid(fl, de), ne, FALSE)
           /\ WledOK(lat, ch, pe, None, de, ne, TRUE)
<1>1. ASSUME ch = <<>>, pe = None, NEW p \in ne
      PROVE  p \in DOMAIN overlaid(fl, de) /\ overlaid(fl, de)[p] = lat[p]
  BY <1>1 DEF WledOK, Newest, overlaid
<1> QED
  BY <1>1 DEF WledOK

(***************************************************************************)
(* The data of all fixtures                                                *)
(***************************************************************************)
ShapeInv ==
    /\ kinds \in Seq({"Lumitone", "Wled"})
    /\ \A f \in {latest, channel, pending, flushing, told, newest, lost} :
        IsSeq(f) /\ Len(f) = Len(kinds)

FixtureOK(i) ==
    /\ kinds[i] = "Lumitone" =>
        lost[i] \/ LumitoneOK(latest[i], channel[i], pending[i], told[i])
    /\ kinds[i] = "Wled" =>
        WledOK(latest[i], channel[i], pending[i], flushing[i], told[i],
               newest[i], lost[i])

DataInv == ShapeInv /\ \A i \in Fixtures : FixtureOK(i)

(* Fixtures whose data does not change.                                    *)
LEMMA DataKept ==
    ASSUME DataInv, UNCHANGED dataVars
    PROVE  DataInv'
BY DEF DataInv, ShapeInv, FixtureOK, dataVars, Fixtures

(* That a send is due, or a node connected, is no part of it.              *)
LEMMA OthersKept ==
    ASSUME DataInv,
           UNCHANGED <<kinds, latest, channel, pending, flushing, told, newest, lost>>
    PROVE  DataInv'
BY DEF DataInv, ShapeInv, FixtureOK, Fixtures

\* Only what is kept of fixture i changes.
OnlyOf(i) ==
    /\ kinds' = kinds
    /\ latest' = [latest EXCEPT ![i] = latest'[i]]
    /\ channel' = [channel EXCEPT ![i] = channel'[i]]
    /\ pending' = [pending EXCEPT ![i] = pending'[i]]
    /\ flushing' = [flushing EXCEPT ![i] = flushing'[i]]
    /\ told' = [told EXCEPT ![i] = told'[i]]
    /\ newest' = [newest EXCEPT ![i] = newest'[i]]
    /\ lost' = [lost EXCEPT ![i] = lost'[i]]

(* A step of one fixture leaves the others in order.                       *)
LEMMA OneFixture ==
    ASSUME DataInv, NEW i \in Fixtures, OnlyOf(i), FixtureOK(i)'
    PROVE  DataInv'
<1>2. kinds' = kinds
  BY DEF OnlyOf
<1>3. ShapeInv'
  <2>1. \A f \in {latest, channel, pending, flushing, told, newest, lost} :
            IsSeq(f) /\ Len(f) = Len(kinds)
    BY DEF DataInv, ShapeInv
  <2>2. IsSeq(latest') /\ Len(latest') = Len(kinds)
    <3>1. IsSeq(latest) /\ Len(latest) = Len(kinds)
      BY <2>1
    <3>2. latest' = [latest EXCEPT ![i] = latest'[i]]
      BY Zenon DEF OnlyOf
    <3> QED
      BY <3>1, <3>2, ExceptIsSeq
  <2>3. IsSeq(channel') /\ Len(channel') = Len(kinds)
    <3>1. IsSeq(channel) /\ Len(channel) = Len(kinds)
      BY <2>1
    <3>2. channel' = [channel EXCEPT ![i] = channel'[i]]
      BY Zenon DEF OnlyOf
    <3> QED
      BY <3>1, <3>2, ExceptIsSeq
  <2>4. IsSeq(pending') /\ Len(pending') = Len(kinds)
    <3>1. IsSeq(pending) /\ Len(pending) = Len(kinds)
      BY <2>1
    <3>2. pending' = [pending EXCEPT ![i] = pending'[i]]
      BY Zenon DEF OnlyOf
    <3> QED
      BY <3>1, <3>2, ExceptIsSeq
  <2>5. IsSeq(flushing') /\ Len(flushing') = Len(kinds)
    <3>1. IsSeq(flushing) /\ Len(flushing) = Len(kinds)
      BY <2>1
    <3>2. flushing' = [flushing EXCEPT ![i] = flushing'[i]]
      BY Zenon DEF OnlyOf
    <3> QED
      BY <3>1, <3>2, ExceptIsSeq
  <2>6. IsSeq(told') /\ Len(told') = Len(kinds)
    <3>1. IsSeq(told) /\ Len(told) = Len(kinds)
      BY <2>1
    <3>2. told' = [told EXCEPT ![i] = told'[i]]
      BY Zenon DEF OnlyOf
    <3> QED
      BY <3>1, <3>2, ExceptIsSeq
  <2>7. IsSeq(newest') /\ Len(newest') = Len(kinds)
    <3>1. IsSeq(newest) /\ Len(newest) = Len(kinds)
      BY <2>1
    <3>2. newest' = [newest EXCEPT ![i] = newest'[i]]
      BY Zenon DEF OnlyOf
    <3> QED
      BY <3>1, <3>2, ExceptIsSeq
  <2>8. IsSeq(lost') /\ Len(lost') = Len(kinds)
    <3>1. IsSeq(lost) /\ Len(lost) = Len(kinds)
      BY <2>1
    <3>2. lost' = [lost EXCEPT ![i] = lost'[i]]
      BY Zenon DEF OnlyOf
    <3> QED
      BY <3>1, <3>2, ExceptIsSeq
  <2>9. kinds' \in Seq({"Lumitone", "Wled"})
    BY <1>2 DEF DataInv, ShapeInv
  <2> QED
    BY <1>2, <2>2, <2>3, <2>4, <2>5, <2>6, <2>7, <2>8, <2>9 DEF ShapeInv
<1>4. ASSUME NEW j \in Fixtures, j # i PROVE FixtureOK(j)'
  <2>1. /\ latest'[j] = latest[j] /\ channel'[j] = channel[j]
        /\ pending'[j] = pending[j] /\ flushing'[j] = flushing[j]
        /\ told'[j] = told[j] /\ newest'[j] = newest[j] /\ lost'[j] = lost[j]
    <3>1. j \in 1 .. Len(kinds)
      BY DEF DataInv, ShapeInv, Fixtures
    <3>2. \A f \in {latest, channel, pending, flushing, told, newest, lost} :
            j \in DOMAIN f
      BY <3>1, SeqFacts DEF DataInv, ShapeInv
    <3> QED
      BY <1>4, <3>2 DEF OnlyOf
  <2> QED
    BY <1>2, <1>4, <2>1 DEF DataInv, FixtureOK
<1> QED
  BY <1>2, <1>3, <1>4 DEF DataInv, Fixtures

(* Its own entries are there to be changed.                                *)
LEMMA Entries ==
    ASSUME DataInv, NEW i \in Fixtures
    PROVE  /\ i \in DOMAIN latest /\ i \in DOMAIN channel /\ i \in DOMAIN pending
           /\ i \in DOMAIN flushing /\ i \in DOMAIN told /\ i \in DOMAIN newest
           /\ i \in DOMAIN lost
<1>1. i \in 1 .. Len(kinds)
  BY DEF DataInv, ShapeInv, Fixtures
<1> QED
  BY <1>1, SeqFacts DEF DataInv, ShapeInv

(* A fixture that is made has nothing under way.                           *)
LEMMA NewFixtureOK ==
    ASSUME NEW kind \in {"Lumitone", "Wled"},
           NEW lat, lat = [p \in Parts(kind) |-> 0]
    PROVE  /\ kind = "Lumitone" => LumitoneOK(lat, <<>>, None, None)
           /\ kind = "Wled" => WledOK(lat, <<>>, None, None, None, {}, FALSE)
<1>1. IsSeq(<<>>) /\ Len(<<>>) = 0
  <2>1. <<>> = [k \in 1 .. 0 |-> <<>>[k]]
    OBVIOUS
  <2> QED
    BY <2>1, EmptySeq DEF IsSeq
<1>2. kind = "Lumitone" => LumitoneOK(lat, <<>>, None, None)
  BY <1>1, NoneIsEmpty DEF LumitoneOK
<1>3. kind = "Wled" => WledOK(lat, <<>>, None, None, None, {}, FALSE)
  BY <1>1 DEF WledOK
<1> QED
  BY <1>2, <1>3

(* It joins the fixtures there are, whose data it leaves alone.            *)
LEMMA NewFixtureInv ==
    ASSUME DataInv, NEW kind \in {"Lumitone", "Wled"}, NewFixture(kind)
    PROVE  DataInv'
<1>0. PICK n : n = Len(kinds)
  OBVIOUS
<1>1. PICK lat : /\ lat = [p \in Parts(kind) |-> 0]
                 /\ latest' = Append(latest, lat)
  BY DEF NewFixture
<1>2. /\ kinds' = Append(kinds, kind) /\ channel' = Append(channel, <<>>)
      /\ pending' = Append(pending, None) /\ flushing' = Append(flushing, None)
      /\ told' = Append(told, None)
      /\ newest' = Append(newest, {}) /\ lost' = Append(lost, FALSE)
  BY DEF NewFixture
<1>3. /\ kinds' \in Seq({"Lumitone", "Wled"}) /\ Len(kinds') = n + 1 /\ n \in Nat
      /\ kinds'[n + 1] = kind /\ \A j \in 1 .. n : kinds'[j] = kinds[j]
  BY <1>0, <1>2, AppendProperties, LenProperties DEF DataInv, ShapeInv
<1>4. ASSUME NEW f \in {latest, channel, pending, flushing, told, newest, lost}, NEW e
      PROVE  /\ IsSeq(Append(f, e)) /\ Len(Append(f, e)) = n + 1
             /\ Append(f, e)[n + 1] = e
             /\ \A j \in 1 .. n : Append(f, e)[j] = f[j]
  <2>1. IsSeq(f) /\ Len(f) = n
    BY <1>0 DEF DataInv, ShapeInv
  <2> QED
    BY <2>1, AppendSeq
<1>5. ShapeInv'
  <2>1. IsSeq(latest') /\ Len(latest') = n + 1
    BY <1>1, <1>4
  <2>2. IsSeq(channel') /\ Len(channel') = n + 1
    BY <1>2, <1>4
  <2>3. IsSeq(pending') /\ Len(pending') = n + 1
    BY <1>2, <1>4
  <2>4. IsSeq(flushing') /\ Len(flushing') = n + 1
    BY <1>2, <1>4
  <2>5. IsSeq(told') /\ Len(told') = n + 1
    BY <1>2, <1>4
  <2>6. IsSeq(newest') /\ Len(newest') = n + 1
    BY <1>2, <1>4
  <2>7. IsSeq(lost') /\ Len(lost') = n + 1
    BY <1>2, <1>4
  <2> QED
    BY <1>3, <2>1, <2>2, <2>3, <2>4, <2>5, <2>6, <2>7 DEF ShapeInv
<1>6. Fixtures' = 1 .. n + 1 /\ Fixtures = 1 .. n
  BY <1>0, <1>3 DEF Fixtures, DataInv, ShapeInv
<1>7. ASSUME NEW j \in 1 .. n PROVE FixtureOK(j)'
  <2>0. \A f \in {latest, channel, pending, flushing, told, newest, lost} :
            IsSeq(f) /\ Len(f) = n
    BY <1>0 DEF DataInv, ShapeInv
  <2>1. latest'[j] = latest[j]
    BY <1>1, <2>0, AppendSeq
  <2>2. channel'[j] = channel[j]
    BY <1>2, <2>0, AppendSeq
  <2>3. pending'[j] = pending[j]
    BY <1>2, <2>0, AppendSeq
  <2>4. flushing'[j] = flushing[j]
    BY <1>2, <2>0, AppendSeq
  <2>5. told'[j] = told[j]
    BY <1>2, <2>0, AppendSeq
  <2>6. newest'[j] = newest[j]
    BY <1>2, <2>0, AppendSeq
  <2>7. lost'[j] = lost[j]
    <3>1. IsSeq(lost) /\ j \in 1 .. Len(lost)
      BY <2>0
    <3>2. Append(lost, FALSE)[j] = lost[j]
      BY <3>1, AppendSeq, Zenon
    <3> QED
      BY <1>2, <3>2, Zenon
  <2> QED
    BY <1>3, <1>6, <2>1, <2>2, <2>3, <2>4, <2>5, <2>6, <2>7 DEF DataInv, FixtureOK
<1>8. FixtureOK(n + 1)'
  <2>1. /\ latest'[n + 1] = lat /\ channel'[n + 1] = <<>>
        /\ pending'[n + 1] = None /\ flushing'[n + 1] = None
        /\ told'[n + 1] = None /\ newest'[n + 1] = {} /\ lost'[n + 1] = FALSE
    BY <1>1, <1>2, <1>4
  <2> QED
    BY <1>1, <1>3, <2>1, NewFixtureOK DEF FixtureOK
<1>9. \A j \in 1 .. n + 1 : j \in 1 .. n \/ j = n + 1
  BY <1>3
<1> QED
  BY <1>5, <1>6, <1>7, <1>8, <1>9 DEF DataInv

(***************************************************************************)
(* The steps of the data                                                   *)
(***************************************************************************)
(* The entry that is put in is the one that is found.                      *)
LEMMA Entry ==
    ASSUME NEW f, NEW i \in DOMAIN f, NEW e
    PROVE  [f EXCEPT ![i] = e][i] = e
OBVIOUS

(* A control moves, of either kind.                                        *)
LEMMA ChangeInv ==
    ASSUME DataInv, NEW i \in Fixtures, NEW control \in Parts(kinds[i]),
           Change(i, control)
    PROVE  DataInv'
<1>1. PICK lat, m :
        /\ lat = [latest[i] EXCEPT ![control] = @ + 1]
        /\ m = Restrict(lat, Carried(control))
  OBVIOUS
<1>2. latest' = [latest EXCEPT ![i] = lat] /\ latest'[i] = lat
  BY <1>1, Entries DEF Change
<1>3. /\ channel' = [channel EXCEPT ![i] = Append(channel[i], m)]
      /\ newest' = [newest EXCEPT ![i] = Carried(control)]
      /\ UNCHANGED <<kinds, pending, flushing, told, lost>>
  BY <1>1, <1>2 DEF Change
<1>4. channel'[i] = Append(channel[i], m) /\ newest'[i] = Carried(control)
  BY <1>3, Entries
<1>5. OnlyOf(i)
  <2>1. /\ pending' = [pending EXCEPT ![i] = pending[i]]
        /\ flushing' = [flushing EXCEPT ![i] = flushing[i]]
        /\ told' = [told EXCEPT ![i] = told[i]]
        /\ lost' = [lost EXCEPT ![i] = lost[i]]
    BY <1>3, SeqFacts DEF DataInv, ShapeInv, IsSeq
  <2> QED
    BY <1>2, <1>3, <2>1 DEF OnlyOf
<1>6. CASE kinds[i] = "Lumitone"
  <2>1. Carried(control) = {control} /\ control \in Parts("Lumitone")
    BY <1>6 DEF Carried, Parts
  <2>2. lost[i] \/ LumitoneOK(latest[i], channel[i], pending[i], told[i])
    BY <1>6 DEF DataInv, FixtureOK
  <2>3. lost[i] \/ LumitoneOK(lat, Append(channel[i], m), pending[i], told[i])
    BY <1>1, <2>1, <2>2, LumitoneChanges
  <2> QED
    BY <1>2, <1>3, <1>4, <1>5, <1>6, <2>3, OneFixture DEF FixtureOK
<1>7. CASE kinds[i] = "Wled"
  <2>1. Carried(control) # {}
    BY <1>7 DEF Carried, Parts
  <2>2. WledOK(latest[i], channel[i], pending[i], flushing[i], told[i],
               newest[i], lost[i])
    BY <1>7 DEF DataInv, FixtureOK
  <2>3. WledOK(lat, Append(channel[i], m), pending[i], flushing[i], told[i],
               Carried(control), lost[i])
    BY <1>1, <2>1, <2>2, WledChanges, Zenon
  <2> QED
    BY <1>2, <1>3, <1>4, <1>5, <1>7, <2>3, OneFixture DEF FixtureOK
<1> QED
  BY <1>6, <1>7, ElementOfSeq DEF DataInv, ShapeInv, Fixtures

(* A Lumitone's thread receives.                                           *)
LEMMA LumitoneReceiveInv ==
    ASSUME DataInv, NEW i \in Fixtures, kinds[i] = "Lumitone", LumitoneReceive(i)
    PROVE  DataInv'
<1>1. /\ channel[i] # <<>>
      /\ channel' = [channel EXCEPT ![i] = Tail(channel[i])]
      /\ pending' = [pending EXCEPT ![i] = overlaid(Head(channel[i]), pending[i])]
      /\ UNCHANGED <<kinds, latest, flushing, told, newest, lost>>
  BY Entries DEF LumitoneReceive
<1>2. /\ channel'[i] = Tail(channel[i])
      /\ pending'[i] = overlaid(Head(channel[i]), pending[i])
  BY <1>1, Entries
<1>3. OnlyOf(i)
  <2>1. /\ latest' = [latest EXCEPT ![i] = latest[i]]
        /\ flushing' = [flushing EXCEPT ![i] = flushing[i]]
        /\ told' = [told EXCEPT ![i] = told[i]]
        /\ newest' = [newest EXCEPT ![i] = newest[i]]
        /\ lost' = [lost EXCEPT ![i] = lost[i]]
    BY <1>1, SeqFacts DEF DataInv, ShapeInv, IsSeq
  <2> QED
    BY <1>1, <2>1 DEF OnlyOf
<1>4. lost[i] \/ LumitoneOK(latest[i], channel[i], pending[i], told[i])
  BY DEF DataInv, FixtureOK
<1>5. lost[i] \/ LumitoneOK(latest[i], Tail(channel[i]),
                           overlaid(Head(channel[i]), pending[i]), told[i])
  BY <1>1, <1>4, LumitoneReceives
<1> QED
  BY <1>1, <1>2, <1>3, <1>5, OneFixture DEF FixtureOK

(* A Lumitone's thread sends.                                              *)
LEMMA LumitoneSendInv ==
    ASSUME DataInv, NEW i \in Fixtures, kinds[i] = "Lumitone", LumitoneSend(i)
    PROVE  DataInv'
<1>1. PICK sent \in BOOLEAN, arrived \in SUBSET DOMAIN pending[i] :
        /\ sent => arrived = DOMAIN pending[i]
        /\ told' = [told EXCEPT ![i] = overlaid(Restrict(pending[i], arrived), told[i])]
        /\ pending' = [pending EXCEPT ![i] = wiped(i, sent)]
        /\ UNCHANGED <<kinds, latest, channel, flushing, newest, lost>>
  BY Entries DEF LumitoneSend
<1>2. /\ told'[i] = overlaid(Restrict(pending[i], arrived), told[i])
      /\ pending'[i] = wiped(i, sent)
  BY <1>1, Entries
<1>3. OnlyOf(i)
  <2>1. /\ latest' = [latest EXCEPT ![i] = latest[i]]
        /\ channel' = [channel EXCEPT ![i] = channel[i]]
        /\ flushing' = [flushing EXCEPT ![i] = flushing[i]]
        /\ newest' = [newest EXCEPT ![i] = newest[i]]
        /\ lost' = [lost EXCEPT ![i] = lost[i]]
    BY <1>1, SeqFacts DEF DataInv, ShapeInv, IsSeq
  <2> QED
    BY <1>1, <2>1 DEF OnlyOf
<1>4. lost[i] \/ LumitoneOK(latest[i], channel[i], pending[i], told[i])
  BY DEF DataInv, FixtureOK
<1>5. wiped(i, sent) = pending[i] \/ (wiped(i, sent) = None /\ arrived = DOMAIN pending[i])
  BY <1>1 DEF wiped
<1>6. lost[i] \/ LumitoneOK(latest[i], channel[i], wiped(i, sent),
                           overlaid(Restrict(pending[i], arrived), told[i]))
  BY <1>4, <1>5, LumitoneSends
<1> QED
  BY <1>1, <1>2, <1>3, <1>6, OneFixture DEF FixtureOK

(* A Lumitone's thread ends: it had nothing to send, or it is lost.        *)
LEMMA LumitoneHangUpInv ==
    ASSUME DataInv, NEW i \in Fixtures, kinds[i] = "Lumitone", LumitoneHangUp(i)
    PROVE  DataInv'
<1>1. PICK lo :
        /\ lo = IF dirty(i) THEN TRUE ELSE lost[i]
        /\ lost' = [lost EXCEPT ![i] = lo]
        /\ pending' = [pending EXCEPT ![i] = None]
        /\ UNCHANGED <<kinds, latest, channel, flushing, told, newest>>
  BY Entries DEF LumitoneHangUp
<1>2. pending'[i] = None /\ lost'[i] = lo
  BY <1>1, Entries, Zenon
<1>3. OnlyOf(i)
  <2>1. /\ latest' = [latest EXCEPT ![i] = latest[i]]
        /\ channel' = [channel EXCEPT ![i] = channel[i]]
        /\ flushing' = [flushing EXCEPT ![i] = flushing[i]]
        /\ told' = [told EXCEPT ![i] = told[i]]
        /\ newest' = [newest EXCEPT ![i] = newest[i]]
    BY <1>1, SeqFacts DEF DataInv, ShapeInv, IsSeq
  <2> QED
    BY <1>1, <1>2, <2>1 DEF OnlyOf
<1>4. CASE dirty(i)
  <2>1. lost'[i] = TRUE
    BY <1>1, <1>2, <1>4, Zenon
  <2> QED
    BY <1>1, <1>3, <2>1, OneFixture DEF FixtureOK
<1>5. CASE ~dirty(i)
  <2>1. pending'[i] = pending[i] /\ lost'[i] = lost[i]
    BY <1>1, <1>2, <1>5, Zenon DEF dirty
  <2>2. lost[i] \/ LumitoneOK(latest[i], channel[i], pending[i], told[i])
    BY DEF DataInv, FixtureOK
  <2> QED
    BY <1>1, <1>3, <2>1, <2>2, OneFixture DEF FixtureOK
<1> QED
  BY <1>4, <1>5

(* A WLED's threads pass the last message on.                              *)
LEMMA WledInv ==
    ASSUME DataInv, NEW i \in Fixtures, kinds[i] = "Wled",
           WledDrain(i) \/ WledTake(i) \/ WledFlush(i)
    PROVE  DataInv'
<1>0. WledOK(latest[i], channel[i], pending[i], flushing[i], told[i], newest[i], lost[i])
  BY DEF DataInv, FixtureOK
<1>1. \A f \in {latest, channel, pending, flushing, told, newest, lost} :
        f = [f EXCEPT ![i] = f[i]]
  BY SeqFacts DEF DataInv, ShapeInv, IsSeq
<1>2. CASE WledDrain(i)
  <2>1. /\ channel[i] # <<>>
        /\ channel' = [channel EXCEPT ![i] = Tail(channel[i])]
        /\ pending' = [pending EXCEPT ![i] = Head(channel[i])]
        /\ UNCHANGED <<kinds, latest, flushing, told, newest, lost>>
    BY <1>2, Entries DEF WledDrain, replaced
  <2>2. channel'[i] = Tail(channel[i]) /\ pending'[i] = Head(channel[i])
    BY <2>1, Entries
  <2>3. OnlyOf(i)
    BY <1>1, <2>1 DEF OnlyOf
  <2>4. WledOK(latest[i], Tail(channel[i]), Head(channel[i]), flushing[i], told[i],
               newest[i], lost[i])
    BY <1>0, <2>1, WledDrains, Zenon
  <2> QED
    BY <2>1, <2>2, <2>3, <2>4, OneFixture DEF FixtureOK
<1>3. CASE WledTake(i)
  <2>1. /\ flushing[i] = None /\ pending[i] # None
        /\ flushing' = [flushing EXCEPT ![i] = pending[i]]
        /\ pending' = [pending EXCEPT ![i] = None]
        /\ UNCHANGED <<kinds, latest, channel, told, newest, lost>>
    BY <1>3 DEF WledTake
  <2>2. flushing'[i] = pending[i] /\ pending'[i] = None
    BY <2>1, Entries
  <2>3. OnlyOf(i)
    BY <1>1, <2>1 DEF OnlyOf
  <2>4. WledOK(latest[i], channel[i], None, pending[i], told[i], newest[i], lost[i])
    BY <1>0, <2>1, WledTakes, Zenon
  <2> QED
    BY <2>1, <2>2, <2>3, <2>4, OneFixture DEF FixtureOK
<1>4. CASE WledFlush(i)
  <2>1. PICK de, lo :
          /\ flushing[i] # None
          /\ flushing' = [flushing EXCEPT ![i] = None]
          /\ told' = [told EXCEPT ![i] = de]
          /\ lost' = [lost EXCEPT ![i] = lo]
          /\ \/ de = overlaid(flushing[i], told[i]) /\ lo = FALSE
             \/ de = told[i] /\ lo = TRUE
          /\ UNCHANGED <<kinds, latest, channel, pending, newest>>
    BY <1>1, <1>4, Entries DEF WledFlush
  <2>2. flushing'[i] = None /\ told'[i] = de /\ lost'[i] = lo
    BY <2>1, Entries, Zenon
  <2>3. OnlyOf(i)
    BY <1>1, <2>1 DEF OnlyOf
  <2>4. WledOK(latest[i], channel[i], pending[i], None, de, newest[i], lo)
    BY <1>0, <2>1, WledFlushes, Zenon
  <2> QED
    BY <2>1, <2>2, <2>3, <2>4, OneFixture DEF FixtureOK
<1> QED
  BY <1>2, <1>3, <1>4

(***************************************************************************)
(* The threads                                                             *)
(***************************************************************************)
\* The workers of a fixture are those of its kind.
Owned(w) ==
    /\ w \in Workers
    /\ w.of > 0 => w.of \in Fixtures /\ w \in WorkersOf(kinds[w.of], w.of)
\* What on_exit may not find in the registry.
Latecomer(w) == w = Saver \/ w.of > 0

OwnInv ==
    /\ Len(kinds) <= MaxFixtures /\ held \subseteq Fixtures
    /\ DOMAIN thread = Workers
    /\ \A w \in Workers : thread[w] # "new" => Owned(w)
    /\ \A w \in spawning : Owned(w) /\ Latecomer(w) /\ thread[w] = "new"

RegisteredInv ==
    /\ gui \in {"running", "triggered", "joining", "joined", "late"}
    /\ gui \in {"running", "triggered"} => awaited = {}
    /\ unpushed = NoWorker \/ Latecomer(unpushed)
    /\ \A w \in Workers :
        thread[w] = "running" => w \in handles \cup awaited \/ Latecomer(w)
    /\ gui \in {"joining", "joined", "late"} => \A w \in handles : Latecomer(w)
    /\ gui \in {"joined", "late"} =>
        \A w \in awaited \cap Workers : thread[w] = "running" => w \in stragglers

\* Until the handles are taken every worker that runs is in the registry, but
\* for the one that is being spawned; from then on it is awaited or had not
\* been spawned by then.
SpawnedInv ==
    /\ gui \in {"running", "triggered"} =>
        \A w \in Workers : thread[w] = "running" => w \in handles \/ w = unpushed
    /\ gui \in {"joining", "joined", "late"} =>
        \A w \in Workers :
            /\ thread[w] = "new" => w \in unspawned
            /\ thread[w] = "running" => w \in awaited \cup unspawned

ThreadInv == OwnInv /\ RegisteredInv /\ SpawnedInv

(* Steps that start no thread and leave the registry alone.                *)
LEMMA FewerRun ==
    ASSUME ThreadInv, held' \subseteq held,
           UNCHANGED <<kinds, spawning, handles, unpushed, awaited, unspawned, gui,
                       stragglers>>,
           DOMAIN thread' = Workers,
           \A w \in Workers : /\ thread'[w] = "running" => thread[w] = "running"
                              /\ thread'[w] = "new" <=> thread[w] = "new"
    PROVE  ThreadInv'
<1>1. \A w : Owned(w)' <=> Owned(w)
  BY DEF Owned, Fixtures
<1>2. OwnInv'
  <2>1. \A w \in spawning : w \in Workers
    BY DEF ThreadInv, OwnInv, Owned
  <2> QED
    BY <1>1, <2>1 DEF ThreadInv, OwnInv, Fixtures, Latecomer
<1>3. RegisteredInv'
  BY DEF ThreadInv, RegisteredInv, Latecomer
<1>4. SpawnedInv'
  BY DEF ThreadInv, SpawnedInv
<1> QED
  BY <1>2, <1>3, <1>4 DEF ThreadInv

(* A thread that ends is such a step.                                      *)
LEMMA EndInv ==
    ASSUME ThreadInv, NEW v, running(v), End(v), held' = held,
           UNCHANGED <<kinds, spawning, handles, unpushed, awaited, unspawned, gui,
                       stragglers>>
    PROVE  ThreadInv'
<1>1. DOMAIN thread' = Workers
  BY DEF ThreadInv, OwnInv, End
<1>2. \A w \in Workers : /\ thread'[w] = "running" => thread[w] = "running"
                         /\ thread'[w] = "new" <=> thread[w] = "new"
  BY DEF ThreadInv, OwnInv, End, running
<1> QED
  BY <1>1, <1>2, FewerRun

(* So is one that changes no thread.                                       *)
LEMMA ThreadsKept ==
    ASSUME ThreadInv, UNCHANGED <<thread, held>>,
           UNCHANGED <<kinds, spawning, handles, unpushed, awaited, unspawned, gui,
                       stragglers>>
    PROVE  ThreadInv'
BY FewerRun DEF ThreadInv, OwnInv

(* The thread of one kind never works on a fixture of the other.           *)
LEMMA KindOf ==
    ASSUME DataInv, ThreadInv, NEW i \in Fixtures
    PROVE  /\ running(Worker("lumitone", i)) => kinds[i] = "Lumitone"
           /\ running(Worker("wled-drain", i)) => kinds[i] = "Wled"
           /\ running(Worker("wled-poll", i)) => kinds[i] = "Wled"
<1>1. i \in 1 .. MaxFixtures /\ i > 0
  BY ScenariosAssumption, LenProperties
     DEF ThreadInv, OwnInv, DataInv, ShapeInv, Fixtures
<1>2. kinds[i] \in {"Lumitone", "Wled"}
  BY ElementOfSeq DEF DataInv, ShapeInv, Fixtures
<1>3. ASSUME NEW n \in {"lumitone", "wled-drain", "wled-poll"}, running(Worker(n, i))
      PROVE  Worker(n, i) \in WorkersOf(kinds[i], i)
  <2>1. Worker(n, i) \in Workers /\ Worker(n, i).of = i
    BY <1>1 DEF Workers, Worker
  <2> QED
    BY <1>1, <1>3, <2>1 DEF ThreadInv, OwnInv, Owned, running
<1>4. ASSUME NEW n, Worker(n, i) \in WorkersOf(kinds[i], i)
      PROVE  IF kinds[i] = "Lumitone" THEN n = "lumitone"
             ELSE n = "wled-drain" \/ n = "wled-poll"
  BY <1>4 DEF WorkersOf, Worker
<1> QED
  BY <1>2, <1>3, <1>4

(* No worker is called so.                                                 *)
LEMMA NoWorkerIsNone == NoWorker \notin Workers
<1>1. NoWorker.name = "none"
  BY DEF NoWorker, Worker
<1>2. \A w \in Workers : w.name # "none"
  BY DEF Workers, Worker, Show, ClockService, Pollers, Sinks, Saver
<1> QED
  BY <1>1, <1>2

(* The spawning of a worker: it runs, and it is not yet in the registry.   *)
LEMMA StartWorkerInv ==
    ASSUME ThreadInv, StartWorker
    PROVE  ThreadInv'
<1>1. PICK v \in spawning :
        /\ thread' = [thread EXCEPT ![v] = "running"]
        /\ unpushed' = v /\ spawning' = spawning \ {v}
  BY DEF StartWorker
<1>2. /\ UNCHANGED <<kinds, held, handles, awaited, unspawned, gui, stragglers>>
      /\ gui \notin {"joined", "late"} /\ unpushed = NoWorker
  BY DEF StartWorker, dataVars, exitVars, running
<1>3. \A w : (Owned(w)' <=> Owned(w)) /\ (Latecomer(w)' <=> Latecomer(w))
  BY <1>2 DEF Owned, Fixtures, Latecomer
<1>4. /\ Owned(v) /\ Latecomer(v) /\ v \in Workers /\ thread[v] = "new"
      /\ DOMAIN thread' = Workers /\ thread'[v] = "running"
      /\ \A w \in Workers : w # v => thread'[w] = thread[w]
  BY <1>1 DEF ThreadInv, OwnInv, Owned
<1>5. OwnInv'
  <2>1. \A w \in spawning' :
            Owned(w)' /\ Latecomer(w)' /\ thread'[w] = "new"
    BY <1>1, <1>3, <1>4 DEF ThreadInv, OwnInv, Owned
  <2> QED
    BY <1>2, <1>3, <1>4, <2>1 DEF ThreadInv, OwnInv, Fixtures
<1>6. RegisteredInv'
  BY <1>1, <1>2, <1>3, <1>4 DEF ThreadInv, RegisteredInv
<1>7. SpawnedInv'
  BY <1>1, <1>2, <1>4, NoWorkerIsNone DEF ThreadInv, SpawnedInv
<1> QED
  BY <1>5, <1>6, <1>7 DEF ThreadInv

(* The handle of a worker that was started is one of a latecomer.          *)
LEMMA PushHandleInv ==
    ASSUME ThreadInv, PushHandle
    PROVE  ThreadInv'
<1>1. /\ UNCHANGED <<kinds, thread, held, spawning, awaited, unspawned, gui, stragglers>>
      /\ gui \notin {"joined", "late"}
      /\ unpushed # NoWorker /\ handles' = handles \cup {unpushed} /\ unpushed' = NoWorker
  BY DEF PushHandle, dataVars, exitVars, running, registered
<1>2. \A w : (Owned(w)' <=> Owned(w)) /\ (Latecomer(w)' <=> Latecomer(w))
  BY <1>1 DEF Owned, Fixtures, Latecomer
<1>3. OwnInv'
  BY <1>1, <1>2 DEF ThreadInv, OwnInv, Fixtures
<1>4. RegisteredInv'
  <2>1. Latecomer(unpushed)
    BY <1>1 DEF ThreadInv, RegisteredInv
  <2>2. \A w \in handles' : w \in handles \/ w = unpushed
    BY <1>1
  <2>3. \A w \in Workers :
            thread'[w] = "running" => w \in handles' \cup awaited' \/ Latecomer(w)'
    BY <1>1, <1>2 DEF ThreadInv, RegisteredInv
  <2>4. gui' = "joining" => \A w \in handles' : Latecomer(w)'
    BY <1>1, <1>2, <2>1, <2>2 DEF ThreadInv, RegisteredInv
  <2> QED
    BY <1>1, <2>3, <2>4 DEF ThreadInv, RegisteredInv
<1>5. SpawnedInv'
  BY <1>1 DEF ThreadInv, SpawnedInv
<1> QED
  BY <1>3, <1>4, <1>5 DEF ThreadInv

(* A fixture that is made brings workers of its own, none of them running. *)
LEMMA MakeFixtureInv ==
    ASSUME DataInv, ThreadInv, NEW kind \in {"Lumitone", "Wled"}, MakeFixture(kind)
    PROVE  DataInv' /\ ThreadInv'
<1> DEFINE n == Len(kinds)
<1>1. /\ NewFixture(kind) /\ n < MaxFixtures /\ kinds' = Append(kinds, kind)
      /\ held' = held \cup {n + 1} /\ spawning' = WorkersOf(kind, n + 1)
      /\ UNCHANGED <<thread, handles, unpushed, awaited, unspawned, gui, stragglers>>
  BY DEF MakeFixture, NewFixture, exitVars
<1>2. DataInv'
  BY <1>1, NewFixtureInv
<1>3. /\ n \in Nat /\ Len(kinds') = n + 1 /\ kinds'[n + 1] = kind
      /\ \A j \in 1 .. n : kinds'[j] = kinds[j]
      /\ Fixtures = 1 .. n /\ Fixtures' = 1 .. n + 1
  BY <1>1, <1>2, AppendProperties, LenProperties DEF DataInv, ShapeInv, Fixtures
<1> HIDE DEF n
<1>4. ASSUME NEW w, Owned(w) PROVE Owned(w)'
  BY <1>3, <1>4 DEF Owned
<1>5. ASSUME NEW w \in spawning'
      PROVE  Owned(w)' /\ Latecomer(w)' /\ thread'[w] = "new"
  <2>1. n + 1 \in 1 .. MaxFixtures /\ n + 1 > 0
    BY <1>1, <1>3, ScenariosAssumption
  <2>2. w.of = n + 1 /\ w \in Workers
    BY <1>1, <1>5, <2>1 DEF WorkersOf, Workers, Worker
  <2>3. w \in WorkersOf(kinds'[n + 1], n + 1)
    BY <1>1, <1>3, <1>5
  <2>4. thread[w] = "new"
    BY <1>3, <2>1, <2>2 DEF ThreadInv, OwnInv, Owned
  <2> QED
    BY <1>1, <1>3, <2>1, <2>2, <2>3, <2>4 DEF Owned, Latecomer, WorkersOf
<1>6. OwnInv'
  <2>1. Len(kinds') <= MaxFixtures /\ held' \subseteq Fixtures'
    BY <1>1, <1>3, ScenariosAssumption DEF ThreadInv, OwnInv
  <2> QED
    BY <1>1, <1>4, <1>5, <2>1 DEF ThreadInv, OwnInv
<1>7. RegisteredInv'
  BY <1>1 DEF ThreadInv, RegisteredInv, Latecomer
<1>8. SpawnedInv'
  BY <1>1 DEF ThreadInv, SpawnedInv
<1> QED
  BY <1>2, <1>6, <1>7, <1>8 DEF ThreadInv

(* The clock service is registered as it is started.                       *)
LEMMA ConnectInv ==
    ASSUME ThreadInv, ConnectToProvider
    PROVE  ThreadInv'
<1>1. /\ thread' = [thread EXCEPT ![ClockService] = "running"]
      /\ handles' = handles \cup {ClockService} /\ gui = "running"
      /\ spawning = {} /\ thread[ClockService] = "new"
      /\ UNCHANGED <<kinds, held, spawning, unpushed, awaited, unspawned, gui,
                     stragglers>>
  BY DEF ConnectToProvider, InLoop, registered, dataVars, exitVars
<1>2. \A w : (Owned(w)' <=> Owned(w)) /\ (Latecomer(w)' <=> Latecomer(w))
  BY <1>1 DEF Owned, Fixtures, Latecomer
<1>3. Owned(ClockService)
  BY DEF Owned, ClockService, Worker, Workers
<1>4. /\ DOMAIN thread' = Workers
      /\ \A w \in Workers : w # ClockService => thread'[w] = thread[w]
  BY <1>1 DEF ThreadInv, OwnInv
<1>5. OwnInv'
  BY <1>1, <1>2, <1>3, <1>4 DEF ThreadInv, OwnInv, Fixtures
<1>6. RegisteredInv'
  BY <1>1, <1>2, <1>4 DEF ThreadInv, RegisteredInv
<1>7. SpawnedInv'
  BY <1>1, <1>4 DEF ThreadInv, SpawnedInv
<1> QED
  BY <1>5, <1>6, <1>7 DEF ThreadInv

(* The steps of on_exit.                                                   *)
LEMMA ExitInv ==
    ASSUME ThreadInv, Trigger \/ TakeHandles \/ Exit(Joined) \/ Exit(Late)
    PROVE  ThreadInv'
<1>1. UNCHANGED <<kinds, held, thread, spawning, unpushed>>
  BY DEF Trigger, TakeHandles, Exit, dataVars, threadVars
<1>2. \A w : Owned(w)' <=> Owned(w)
  BY <1>1 DEF Owned, Fixtures
<1>3. OwnInv'
  BY <1>1, <1>2 DEF ThreadInv, OwnInv, Fixtures, Latecomer
<1>4. CASE Trigger
  <2>1. RegisteredInv'
    BY <1>1, <1>4 DEF Trigger, threadVars, ThreadInv, RegisteredInv, Latecomer
  <2>2. SpawnedInv'
    BY <1>1, <1>4 DEF Trigger, threadVars, ThreadInv, SpawnedInv
  <2> QED
    BY <1>3, <2>1, <2>2 DEF ThreadInv
<1>5. CASE TakeHandles
  <2>1. RegisteredInv'
    BY <1>1, <1>5 DEF TakeHandles, ThreadInv, RegisteredInv, Latecomer
  <2>2. SpawnedInv'
    BY <1>1, <1>5 DEF TakeHandles, ThreadInv, SpawnedInv
  <2> QED
    BY <1>3, <2>1, <2>2 DEF ThreadInv
<1>6. CASE Exit(Joined) \/ Exit(Late)
  <2>1. /\ gui = "joining" /\ gui' \in {"joined", "late"}
        /\ UNCHANGED <<handles, awaited, unspawned>>
        /\ stragglers' = {w \in awaited : running(w)}
    BY <1>6 DEF Exit, Joined, Late, threadVars
  <2>2. \A w \in awaited \cap Workers : thread[w] = "running" => w \in stragglers'
    BY <2>1 DEF running
  <2>3. RegisteredInv'
    BY <1>1, <2>1, <2>2 DEF ThreadInv, RegisteredInv, Latecomer
  <2>4. SpawnedInv'
    BY <1>1, <2>1 DEF ThreadInv, SpawnedInv
  <2> QED
    BY <1>3, <2>3, <2>4 DEF ThreadInv
<1> QED
  BY <1>4, <1>5, <1>6

(***************************************************************************)
(* All steps                                                               *)
(***************************************************************************)
Inv == DataInv /\ ThreadInv

(* A show begins with nothing under way, and with no thread of a fixture.  *)
LEMMA InitInv ==
    ASSUME Init
    PROVE  Inv
<1>1. /\ kinds = scenario.begin /\ scenario \in Scenarios
      /\ latest = [i \in Fixtures |-> [p \in Parts(kinds[i]) |-> 0]]
      /\ told = [i \in Fixtures |-> None]
      /\ channel = [i \in Fixtures |-> <<>>]
      /\ pending = [i \in Fixtures |-> None] /\ flushing = pending
      /\ newest = [i \in Fixtures |-> {}] /\ lost = [i \in Fixtures |-> FALSE]
  BY DEF Init
<1>2. /\ kinds \in Seq({"Lumitone", "Wled"}) /\ Len(kinds) <= MaxFixtures
      /\ Fixtures = 1 .. Len(kinds) /\ Len(kinds) \in Nat
  BY <1>1, ScenariosAssumption, LenProperties DEF Fixtures
<1>3. ShapeInv
  <2>1. ASSUME NEW f, f = [i \in 1 .. Len(kinds) |-> f[i]]
        PROVE  IsSeq(f) /\ Len(f) = Len(kinds)
    <3>1. IsSeq(f) /\ DOMAIN f = 1 .. Len(kinds)
      BY <1>2, <2>1 DEF IsSeq
    <3>2. Len(f) \in Nat /\ 1 .. Len(f) = 1 .. Len(kinds)
      BY <3>1, SeqFacts
    <3> QED
      BY <1>2, <3>1, <3>2
  <2>2. \A f \in {latest, channel, pending, flushing, told, newest, lost} :
            f = [i \in 1 .. Len(kinds) |-> f[i]]
    BY <1>1, <1>2
  <2> QED
    BY <1>2, <2>1, <2>2 DEF ShapeInv
<1>4. ASSUME NEW i \in Fixtures PROVE FixtureOK(i)
  <2>1. kinds[i] \in {"Lumitone", "Wled"}
    BY <1>2, ElementOfSeq
  <2>2. PICK lat : lat = [p \in Parts(kinds[i]) |-> 0]
    OBVIOUS
  <2>3. /\ latest[i] = lat /\ told[i] = None /\ channel[i] = <<>>
        /\ pending[i] = None /\ flushing[i] = None
        /\ newest[i] = {} /\ lost[i] = FALSE
    BY <1>1, <2>2
  <2> QED
    BY <2>1, <2>2, <2>3, NewFixtureOK DEF FixtureOK
<1>5. OwnInv
  <2>1. ASSUME NEW w \in Workers, thread[w] # "new" PROVE Owned(w)
    <3>1. w \in {Show, Worker("osc-sender", 0)} \cup Pollers
      BY <2>1 DEF Init
    <3>2. w.of = 0
      BY <3>1 DEF Show, Worker, Pollers
    <3> QED
      BY <3>2 DEF Owned
  <2>2. ASSUME NEW w \in spawning PROVE Owned(w) /\ Latecomer(w)
    <3>1. CASE w = Saver
      BY <3>1 DEF Saver, Sinks, Owned, Latecomer, Workers, Worker
    <3>2. CASE \E i \in Fixtures : w \in WorkersOf(kinds[i], i)
      <4>1. PICK i \in Fixtures : w \in WorkersOf(kinds[i], i)
        BY <3>2
      <4>2. i \in 1 .. MaxFixtures /\ i > 0
        BY <1>2, ScenariosAssumption
      <4>3. w.of = i /\ w \in Workers
        BY <4>1, <4>2 DEF WorkersOf, Workers, Worker
      <4> QED
        BY <4>1, <4>2, <4>3 DEF Owned, Latecomer
    <3> QED
      BY <3>1, <3>2 DEF Init
  <2>3. ASSUME NEW w \in spawning PROVE thread[w] = "new"
    <3>1. w \in Workers /\ Latecomer(w)
      BY <2>2 DEF Owned
    <3>2. w \notin {Show, Worker("osc-sender", 0)} \cup Pollers
      BY <3>1 DEF Latecomer, Saver, Show, Worker, Pollers
    <3> QED
      BY <3>1, <3>2 DEF Init
  <2> QED
    BY <1>2, <2>1, <2>2, <2>3 DEF Init, OwnInv
<1>6. RegisteredInv
  BY DEF Init, RegisteredInv
<1>7. SpawnedInv
  BY DEF Init, SpawnedInv
<1> QED
  BY <1>3, <1>4, <1>5, <1>6, <1>7 DEF Inv, DataInv, ThreadInv

(* The steps of the show thread.                                           *)
LEMMA ShowInv ==
    ASSUME Inv,
           \/ Spawning \/ ShowFails \/ ShowEnds \/ DropClock
           \/ \E kind \in {"Lumitone", "Wled"} : MakeFixture(kind)
           \/ \E i \in held : DropFixture(i)
           \/ \E i \in held : \E control \in Parts(kinds[i]) : ControlMoves(i, control)
    PROVE  Inv'
<1> USE DEF Inv
<1>1. CASE StartWorker
  BY <1>1, StartWorkerInv, DataKept DEF StartWorker
<1>2. CASE PushHandle
  BY <1>2, PushHandleInv, DataKept DEF PushHandle
<1>3. CASE ShowReady
  BY <1>3, ThreadsKept, DataKept DEF ShowReady, dataVars, exitVars
<1>4. CASE ShowFails \/ ShowEnds
  BY <1>4, EndInv, DataKept DEF ShowFails, ShowEnds, InLoop, dataVars, exitVars
<1>5. CASE DropClock
  BY <1>5, ThreadsKept, DataKept DEF DropClock, dataVars, threadVars, exitVars
<1>6. CASE \E kind \in {"Lumitone", "Wled"} : MakeFixture(kind)
  BY <1>6, MakeFixtureInv
<1>7. CASE \E i \in held : DropFixture(i)
  <2>1. /\ UNCHANGED <<dataVars, exitVars, thread, handles, spawning, unpushed>>
        /\ held' \subseteq held
    BY <1>7 DEF DropFixture
  <2>2. DataInv'
    BY <2>1, DataKept
  <2>3. ThreadInv'
    BY <2>1, FewerRun DEF dataVars, exitVars, ThreadInv, OwnInv
  <2> QED
    BY <2>2, <2>3
<1>8. CASE \E i \in held : \E control \in Parts(kinds[i]) : ControlMoves(i, control)
  <2>0. PICK i \in held : \E control \in Parts(kinds[i]) : ControlMoves(i, control)
    BY <1>8
  <2>1. PICK control \in Parts(kinds[i]) : ControlMoves(i, control)
    BY <2>0
  <2>2. i \in Fixtures /\ Change(i, control) /\ UNCHANGED <<threadVars, exitVars>>
    BY <2>1 DEF ControlMoves, ThreadInv, OwnInv
  <2>3. DataInv'
    BY <2>2, ChangeInv
  <2>4. ThreadInv'
    BY <2>2, ThreadsKept DEF Change, threadVars, exitVars
  <2> QED
    BY <2>3, <2>4
<1> QED
  BY <1>1, <1>2, <1>3, <1>4, <1>5, <1>6, <1>7, <1>8 DEF Spawning

(* The steps of the threads of a fixture.                                  *)
LEMMA FixtureInv ==
    ASSUME Inv, NEW i \in Fixtures, Lumitone(i) \/ Drain(i) \/ Poll(i) \/ Connect(i)
    PROVE  Inv'
<1> USE DEF Inv
<1>1. CASE DrainEnds(i) \/ PollEnds(i)
  BY <1>1, EndInv, DataKept DEF DrainEnds, PollEnds, dataVars, exitVars
<1>5. CASE LumitoneEnds(i)
  <2>1. /\ running(Worker("lumitone", i)) /\ End(Worker("lumitone", i))
        /\ LumitoneHangUp(i)
        /\ UNCHANGED <<exitVars, handles, spawning, unpushed, held>>
    BY <1>5 DEF LumitoneEnds
  <2>2. DataInv'
    BY <2>1, KindOf, LumitoneHangUpInv
  <2>3. ThreadInv'
    BY <2>1, EndInv DEF LumitoneHangUp, exitVars
  <2> QED
    BY <2>2, <2>3
<1>2. CASE Lumitone(i) /\ ~LumitoneEnds(i)
  <2>1. /\ running(Worker("lumitone", i)) /\ UNCHANGED <<threadVars, exitVars>>
        /\ LumitoneReceive(i) \/ LumitoneTimeout(i) \/ LumitoneSend(i)
    BY <1>2 DEF Lumitone
  <2>2. kinds[i] = "Lumitone"
    BY <2>1, KindOf
  <2>3. DataInv' /\ kinds' = kinds
    <3>1. CASE LumitoneReceive(i)
      BY <2>2, <3>1, LumitoneReceiveInv DEF LumitoneReceive
    <3>2. CASE LumitoneTimeout(i)
      BY <3>2, OthersKept DEF LumitoneTimeout
    <3>3. CASE LumitoneSend(i)
      BY <2>2, <3>3, LumitoneSendInv DEF LumitoneSend
    <3> QED
      BY <2>1, <3>1, <3>2, <3>3
  <2>4. ThreadInv'
    BY <2>1, <2>3, ThreadsKept DEF threadVars, exitVars
  <2> QED
    BY <2>3, <2>4
<1>3. CASE (Drain(i) /\ ~DrainEnds(i)) \/ (Poll(i) /\ ~PollEnds(i))
  <2>1. /\ running(Worker("wled-drain", i)) \/ running(Worker("wled-poll", i))
        /\ WledDrain(i) \/ WledTake(i) \/ WledFlush(i)
        /\ UNCHANGED <<threadVars, exitVars>>
    BY <1>3 DEF Drain, Poll
  <2>2. kinds[i] = "Wled"
    BY <2>1, KindOf
  <2>3. DataInv' /\ kinds' = kinds
    BY <2>1, <2>2, WledInv DEF WledDrain, WledTake, WledFlush
  <2>4. ThreadInv'
    BY <2>1, <2>3, ThreadsKept DEF threadVars, exitVars
  <2> QED
    BY <2>3, <2>4
<1>4. CASE Connect(i)
  <2>1. WledConnect(i) /\ UNCHANGED <<threadVars, exitVars>>
    BY <1>4 DEF Connect
  <2>2. DataInv' /\ kinds' = kinds
    BY <2>1, OthersKept DEF WledConnect
  <2>3. ThreadInv'
    BY <2>1, <2>2, ThreadsKept DEF threadVars, exitVars
  <2> QED
    BY <2>2, <2>3
<1> QED
  BY <1>1, <1>2, <1>3, <1>4, <1>5 DEF Lumitone, Drain, Poll

(* The invariant is inductive.                                             *)
LEMMA InvStep ==
    ASSUME Inv, [Next]_vars
    PROVE  Inv'
<1>1. CASE UNCHANGED vars
  BY <1>1, ThreadsKept, DataKept DEF Inv, vars, dataVars, threadVars, exitVars
<1>2. CASE \/ \E w \in Pollers : PollerEnds(w)
           \/ \E w \in Sinks : SinkEnds(w)
           \/ ClockServiceEnds
  BY <1>2, EndInv, DataKept
     DEF Inv, PollerEnds, SinkEnds, ClockServiceEnds, dataVars, exitVars
<1>3. CASE ProviderChanges
  BY <1>3, ThreadsKept, DataKept DEF Inv, ProviderChanges, dataVars, threadVars, exitVars
<1>4. CASE ConnectToProvider
  BY <1>4, ConnectInv, DataKept DEF Inv, ConnectToProvider
<1>5. CASE Trigger \/ TakeHandles \/ Exit(Joined) \/ Exit(Late)
  <2>1. UNCHANGED dataVars
    BY <1>5 DEF Trigger, TakeHandles, Exit
  <2> QED
    BY <1>5, <2>1, ExitInv, DataKept DEF Inv
<1> QED
  BY <1>1, <1>2, <1>3, <1>4, <1>5, ShowInv, FixtureInv DEF Next

(* Every reachable state satisfies it.                                     *)
THEOREM Invariance == Spec => []Inv
<1>1. Init => Inv
  BY InitInv
<1>2. Inv /\ [Next]_vars => Inv'
  BY InvStep
<1> QED
  BY <1>1, <1>2, PTL DEF Spec

(* Whatever fails and however messages are thinned out, a Lumitone with    *)
(* nothing under way has been told the latest of what has changed since    *)
(* its fixture was made, unless its thread ended before (LumitoneSender).  *)
THEOREM LumitonesAreCurrent == Spec => []LumitoneCurrent
<1>1. Inv => LumitoneCurrent
  <2>1. ASSUME Inv, NEW i \in Fixtures, kinds[i] = "Lumitone", Quiet(i), ~lost[i],
               NEW p \in DOMAIN latest[i], latest[i][p] # 0
        PROVE  Current(i, p)
    <3>1. LumitoneOK(latest[i], <<>>, None, told[i])
      BY <2>1 DEF Inv, DataInv, FixtureOK, Quiet
    <3>2. p \in Parts("Lumitone")
      BY <3>1 DEF LumitoneOK
    <3> QED
      BY <2>1, <3>1, <3>2, LumitoneQuiet DEF Current
  <2> QED
    BY <2>1 DEF LumitoneCurrent
<1> QED
  BY <1>1, Invariance, PTL

(* A WLED node with nothing under way has been told all that the last      *)
(* message carried, unless its flush failed (the wled-drain and wled-poll  *)
(* threads).                                                               *)
THEOREM WledsShowTheNewest == Spec => []WledNewest
<1>1. Inv => WledNewest
  <2>1. ASSUME Inv, NEW i \in Fixtures, kinds[i] = "Wled", Quiet(i), ~lost[i]
        PROVE  \A p \in newest[i] : Current(i, p)
    BY <2>1 DEF Inv, DataInv, FixtureOK, WledOK, Quiet, Current
  <2> QED
    BY <2>1 DEF WledNewest
<1> QED
  BY <1>1, Invariance, PTL

(* When the console has ended, a worker that still runs is named, unless it *)
(* had not been spawned when the handles were taken (Workers::spawn,       *)
(* shutdown_and_join); the show and the threads that hold a socket had.    *)
THEOREM NobodyIsForgotten == Spec => []LeftIsNamed
<1>1. Inv => LeftIsNamed
  BY DEF Inv, ThreadInv, RegisteredInv, SpawnedInv, LeftIsNamed, Latecomer
<1> QED
  BY <1>1, Invariance, PTL
=============================================================================

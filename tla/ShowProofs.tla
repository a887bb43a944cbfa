----------------------------- MODULE ShowProofs -----------------------------
(***************************************************************************)
(* Proofs of the safety properties of Show, for any set of patches, ports, *)
(* models and clients, and for wings of any number of faders.              *)
(***************************************************************************)
EXTENDS Show, TLAPS, FiniteSetTheorems, SequenceTheorems

(***************************************************************************)
(* The operators the show is built from                                    *)
(***************************************************************************)

(* A finite set of numbers has a greatest one (Patch::universe_count).     *)
LEMMA MaxExists ==
  ASSUME NEW S \in SUBSET Nat, IsFiniteSet(S), S # {}
  PROVE  \E x \in S : \A y \in S : x >= y
<1> DEFINE HasMax(A) == \E x \in A : \A y \in A : x >= y
           T == {A \in FiniteSubsetsOf(S) : A # {} /\ ~HasMax(A)}
<1> SUFFICES ASSUME ~HasMax(S) PROVE FALSE
  OBVIOUS
<1>1. S \in T
  BY DEF FiniteSubsetsOf
<1>2. PICK A \in T : \A B \in T : <<B, A>> \notin StrictSubsetOrdering(S)
  <2> HIDE DEF T
  <2>1. IsWellFoundedOn(StrictSubsetOrdering(S), FiniteSubsetsOf(S))
    BY FS_StrictSubsetOrderingWellFounded
  <2>2. T \subseteq FiniteSubsetsOf(S) /\ T # {}
    BY <1>1 DEF T
  <2> QED
    BY <2>1, <2>2, WFMin
<1>3. PICK a \in A : TRUE
  OBVIOUS
<1>4. /\ IsFiniteSet(A) /\ A \subseteq S /\ a \in Nat
      /\ IsFiniteSet(A \ {a})
  BY FS_RemoveElement DEF FiniteSubsetsOf
<1>5. A \ {a} # {}
  BY <1>4
<1>6. HasMax(A \ {a})
  <2> DEFINE B == A \ {a}
  <2>1. B \in SUBSET S /\ A \in SUBSET S /\ B \subseteq A /\ B # A
    BY <1>3, <1>4
  <2>2. <<B, A>> \in StrictSubsetOrdering(S)
    <3> HIDE DEF B
    <3> QED
      BY <2>1 DEF StrictSubsetOrdering
  <2>3. B \in FiniteSubsetsOf(S)
    BY <2>1, <1>4 DEF FiniteSubsetsOf
  <2>4. B \notin T
    BY <1>2, <2>2
  <2> QED
    BY <1>5, <2>3, <2>4
<1>7. PICK b \in A \ {a} : \A y \in A \ {a} : b >= y
  BY <1>6
<1>8. CASE a >= b
  <2>1. \A y \in A : a >= y
    BY <1>4, <1>7, <1>8
  <2> QED
    BY <2>1, <1>3
<1>9. CASE b >= a
  <2>1. \A y \in A : b >= y
    BY <1>7, <1>9
  <2> QED
    BY <2>1, <1>7
<1> QED
  BY <1>4, <1>7, <1>8, <1>9

(* There is a universe for every fixture of a patch.                       *)
LEMMA UniversesCount ==
  ASSUME NEW p \in Patches
  PROVE  /\ universe_count(p) \in Nat \ {0}
         /\ used_universes(p) \subseteq 0 .. universe_count(p) - 1
<1> DEFINE U == used_universes(p)
<1>1. U \in SUBSET Nat /\ IsFiniteSet(U)
  BY PatchesAssumption DEF used_universes
<1>2. CASE U = {}
  BY <1>2 DEF universe_count
<1>3. CASE U # {}
  <2> HIDE DEF U
  <2>1. Max(U) \in U /\ \A y \in U : Max(U) >= y
    BY <1>1, <1>3, MaxExists DEF Max
  <2>2. universe_count(p) = Max(U) + 1
    BY <1>3 DEF universe_count, U
  <2> QED
    BY <1>1, <2>1, <2>2 DEF U
<1> QED
  BY <1>2, <1>3

(* There is a wing, and a last fader, whatever the number of channels.     *)
LEMMA WingCount ==
  ASSUME NEW n \in Nat
  PROVE  /\ submaster_wing_count(n) \in Nat \ {0}
         /\ strobe_control_channel(n) \in Nat
<1> DEFINE w == (n + FadersPerWing - 1) \div FadersPerWing
<1>1. n # 0 => w \in Nat \ {0}
  BY FadersAssumption, SMTT(30)
<1>2. submaster_wing_count(n) \in Nat \ {0}
  BY <1>1 DEF submaster_wing_count
<1>3. \A k \in Nat \ {0} : k * FadersPerWing \in Nat \ {0}
  BY FadersAssumption, SMTT(30)
<1> QED
  BY <1>2, <1>3 DEF strobe_control_channel

(* A pair is made of its components.                                       *)
LEMMA Pair ==
  ASSUME NEW A, NEW B, NEW s \in A \X B
  PROVE  s[2] \in B /\ s = <<s[1], s[2]>>
OBVIOUS

(* Slots are told apart by their names.                                    *)
LEMMA SlotNames ==
  /\ \A k \in Nat : Wing(k) \in Slots /\ Wing(k)[1] = "Submaster Wing"
  /\ \A j, k : Wing(j) = Wing(k) => j = k
  /\ ClockWing \in Slots /\ ClockWing[1] # "Submaster Wing"
  /\ \A s \in Slots :
        s[1] = "Submaster Wing" => \E k \in Nat : s = Wing(k)
<1>1. \A k \in Nat : Wing(k) \in Slots /\ Wing(k)[1] = "Submaster Wing"
  BY DEF Wing, Slots
<1>2. \A j, k : Wing(j) = Wing(k) => j = k
  BY DEF Wing
<1>3. ClockWing \in Slots /\ ClockWing[1] # "Submaster Wing"
  BY DEF ClockWing, Slots
<1>4. ASSUME NEW s \in Slots, s[1] = "Submaster Wing"
      PROVE  \E k \in Nat : s = Wing(k)
  <2>1. s \in {"Submaster Wing"} \X Nat
    BY <1>3, <1>4 DEF Slots
  <2>2. s[2] \in Nat /\ s = <<s[1], s[2]>>
    BY <2>1, Pair
  <2> QED
    BY <1>4, <2>2 DEF Wing
<1> QED
  BY <1>1, <1>2, <1>3, <1>4

FirstWings(n) == {Wing(k) : k \in 1 .. n}

(* The first n wings are n slots: counting them counts the last.           *)
LEMMA WingsCardinality ==
  ASSUME NEW n \in Nat
  PROVE  Cardinality(FirstWings(n)) = n
<1> USE DEF FirstWings
<1> DEFINE W == {Wing(k) : k \in 1 .. n}
           f == [k \in 1 .. n |-> Wing(k)]
<1>1. f \in [1 .. n -> W]
  OBVIOUS
<1>2. \A j, k \in 1 .. n : f[j] = f[k] => j = k
  BY SlotNames
<1>3. \A w \in W : \E k \in 1 .. n : f[k] = w
  OBVIOUS
<1>4. ExistsBijection(1 .. n, W)
  <2> HIDE DEF f, W
  <2> QED
    BY <1>1, <1>2, <1>3
       DEF ExistsBijection, Bijection, Injection, Surjection, IsInjective
<1> QED
  BY <1>4, FS_CountingElements

(* reconcile_submaster_wings turns the first wings into as many first      *)
(* wings as the channels need, no slot is refused on the way, and the      *)
(* clock wing is left alone.                                               *)
LEMMA WingsReconciled ==
  ASSUME NEW slots, DOMAIN slots \subseteq Slots, NEW m \in Nat, NEW n \in Nat,
         submaster_wings(slots) = FirstWings(m),
         NEW r, r = reconcile_submaster_wings(slots, n),
         NEW new, new = r.slots
  PROVE  /\ r.refused = {}
         /\ DOMAIN new \subseteq Slots
         /\ \A s \in DOMAIN new :
                \/ new[s] = slot(WingModel)
                \/ s \in DOMAIN slots /\ new[s] = slots[s]
         /\ submaster_wings(new) = FirstWings(submaster_wing_count(n))
         /\ ClockWing \in DOMAIN new <=> ClockWing \in DOMAIN slots
<1> DEFINE d == submaster_wing_count(n)
           adds == m + 1 .. d
           removes == d + 1 .. m
           added == {Wing(k) : k \in adds}
           removed == {Wing(k) : k \in removes}
<1>1. d \in Nat
  BY WingCount
<1>2. Cardinality(submaster_wings(slots)) = m
  BY WingsCardinality
<1> USE DEF FirstWings
<1>2a. r = wings_changed(slots, adds, removes)
  BY <1>2 DEF reconcile_submaster_wings
<1> HIDE DEF d
<1>2b. /\ \A k \in adds : Wing(k) \notin DOMAIN slots
      /\ \A k \in removes : Wing(k) \in DOMAIN slots
  <2>1. \A k \in Nat : Wing(k) \in DOMAIN slots <=> Wing(k) \in submaster_wings(slots)
    BY SlotNames DEF submaster_wings
  <2>2. \A k \in Nat : Wing(k) \in submaster_wings(slots) <=> k \in 1 .. m
    BY SlotNames
  <2>3. \A k \in adds : k \in Nat /\ k \notin 1 .. m
    BY <1>1
  <2>4. \A k \in removes : k \in Nat /\ k \in 1 .. m
    BY <1>1
  <2> QED
    BY <2>1, <2>2, <2>3, <2>4
<1>3. /\ r.refused = {}
      /\ new = [s \in (DOMAIN slots \cup added) \ removed |->
                  IF s \in added THEN slot(WingModel) ELSE slots[s]]
  <2> HIDE DEF adds, removes
  <2>1. /\ {k \in adds : \A j \in adds :
                j <= k => Wing(j) \notin DOMAIN slots} = adds
        /\ {k \in removes : \A j \in removes :
                j >= k => Wing(j) \in DOMAIN slots} = removes
    BY <1>2b, Zenon
  <2>2. (added \cap DOMAIN slots) \cup (removed \ DOMAIN slots) = {}
    BY <1>2b
  <2>3. r.refused = (added \cap DOMAIN slots) \cup (removed \ DOMAIN slots)
    BY <1>2a DEF wings_changed
  <2>4. r.slots = [s \in (DOMAIN slots \cup added) \ removed |->
                     IF s \in added THEN slot(WingModel) ELSE slots[s]]
    BY <1>2a, <2>1 DEF wings_changed
  <2> QED
    BY <2>2, <2>3, <2>4
<1>4. DOMAIN new = (DOMAIN slots \cup added) \ removed
  BY <1>3
<1>5. \A s \in added \cup removed : s \in Slots /\ s[1] = "Submaster Wing"
  <2>1. \A k \in (m + 1 .. d) \cup (d + 1 .. m) : k \in Nat
    BY <1>1
  <2>2. \A s \in added \cup removed : \E k \in Nat : s = Wing(k)
    BY <2>1
  <2> QED
    BY <2>2, SlotNames
<1>6. submaster_wings(new) = {Wing(k) : k \in 1 .. d}
  <2>1. submaster_wings(new) = (submaster_wings(slots) \cup added) \ removed
    <3> HIDE DEF added, removed
    <3> QED
      BY <1>4, <1>5 DEF submaster_wings
  <2>2. (submaster_wings(slots) \cup added) \ removed
            = {Wing(k) : k \in 1 .. d}
    <3>1. \A k : /\ Wing(k) \in submaster_wings(slots) <=> k \in 1 .. m
                 /\ Wing(k) \in added <=> k \in m + 1 .. d
                 /\ Wing(k) \in removed <=> k \in d + 1 .. m
                 /\ Wing(k) \in {Wing(j) : j \in 1 .. d} <=> k \in 1 .. d
      BY SlotNames
    <3>2. \A k : (k \in 1 .. m \/ k \in m + 1 .. d) /\ k \notin d + 1 .. m
                    <=> k \in 1 .. d
      BY <1>1
    <3>3. \A s \in submaster_wings(slots) \cup added
                    \cup {Wing(j) : j \in 1 .. d} : \E k : s = Wing(k)
      OBVIOUS
    <3> HIDE DEF added, removed
    <3> QED
      BY <3>1, <3>2, <3>3
  <2> QED
    BY <2>1, <2>2
<1>7. \A s \in DOMAIN new :
        \/ new[s] = slot(WingModel)
        \/ s \in DOMAIN slots /\ new[s] = slots[s]
  BY <1>3, <1>4
<1>8. DOMAIN new \subseteq Slots
      /\ (ClockWing \in DOMAIN new <=> ClockWing \in DOMAIN slots)
  <2> HIDE DEF added, removed
  <2> QED
    BY <1>4, <1>5, SlotNames
<1> QED
  BY <1>3, <1>6, <1>7, <1>8 DEF d

(* The clock wing is there exactly when it is needed, the submaster wings  *)
(* are left alone, and as the slot is looked up before it is added or      *)
(* removed, nothing is refused.                                            *)
LEMMA ClockReconciled ==
  ASSUME NEW slots, DOMAIN slots \subseteq Slots, NEW needed \in BOOLEAN,
         NEW model,
         NEW r, r = reconcile_clock_wing(slots, needed, model),
         NEW new, new = r.slots
  PROVE  /\ r.refused = {}
         /\ DOMAIN new \subseteq Slots
         /\ \A s \in DOMAIN new :
                \/ new[s] = slot(model)
                \/ s \in DOMAIN slots /\ new[s] = slots[s]
         /\ submaster_wings(new) = submaster_wings(slots)
         /\ ClockWing \in DOMAIN new <=> needed
<1> DEFINE there == ClockWing \in DOMAIN slots
           removal == remove_slot(slots, ClockWing)
<1>0. /\ removal.refused = {} <=> there
      /\ removal.slots = [t \in DOMAIN slots \ {ClockWing} |-> slots[t]]
      /\ DOMAIN removal.slots = DOMAIN slots \ {ClockWing}
  BY DEF remove_slot
<1> HIDE DEF removal
<1>1. CASE ~needed /\ there
  <2>1. r = removal
    BY <1>1 DEF reconcile_clock_wing, removal
  <2> QED
    BY <1>0, <1>1, <2>1, SlotNames DEF submaster_wings
<1>2. CASE needed /\ there /\ slots[ClockWing].model # model
  <2>1. r = add_slot(removal.slots, ClockWing, model)
    BY <1>0, <1>2 DEF reconcile_clock_wing, removal
  <2>2. r.refused = {}
    BY <1>0, <2>1 DEF add_slot
  <2>3. /\ DOMAIN new = DOMAIN slots \cup {ClockWing}
        /\ \A t \in DOMAIN new :
              new[t] = IF t \in DOMAIN slots \ {ClockWing} THEN slots[t]
                       ELSE slot(model)
    BY <1>0, <2>1 DEF add_slot
  <2> QED
    BY <1>2, <2>2, <2>3, SlotNames DEF submaster_wings
<1>3. CASE needed /\ ~there
  <2>1. r = add_slot(slots, ClockWing, model)
    BY <1>3 DEF reconcile_clock_wing
  <2> DEFINE D == DOMAIN slots
             f == [t \in D \cup {ClockWing} |->
                     IF t \in D THEN slots[t] ELSE slot(model)]
  <2>2. add_slot(slots, ClockWing, model)
            = [refused |-> {ClockWing} \cap D, slots |-> f]
    BY DEF add_slot
  <2>3. ClockWing \notin D
    BY <1>3
  <2>4. r.refused = {} /\ new = f
    <3> HIDE DEF D, f
    <3> QED
      BY <2>1, <2>2, <2>3
  <2>5. /\ DOMAIN new = D \cup {ClockWing}
        /\ \A t \in DOMAIN new :
              new[t] = IF t \in D THEN slots[t] ELSE slot(model)
    BY <2>4
  <2> QED
    BY <1>3, <2>4, <2>5, SlotNames DEF submaster_wings
<1>4. CASE \/ needed /\ there /\ slots[ClockWing].model = model
           \/ ~needed /\ ~there
  <2>1. r = [refused |-> {}, slots |-> slots]
    BY <1>4 DEF reconcile_clock_wing
  <2> QED
    BY <1>4, <2>1
<1> QED
  BY <1>1, <1>2, <1>3, <1>4

(***************************************************************************)
(* What a step leaves alone                                                *)
(***************************************************************************)

(* The steps that change the patch, the selection, the mapping of the      *)
(* master strobe or a group.                                               *)
LEMMA ShowFrame ==
  [Next]_vars =>
    \/ Repatch \/ SetMasterStrobeChannel \/ PositionerEdit \/ SelectChannel
    \/ ControlGroup \/ UNCHANGED show
BY DEF Next, ShowThread, Handle, vars, send_command, send_command_fails,
       Input, trigger, Stopped, ControlNext, Exit, RecvTimeout, Refuse, Fail,
       RepatchRefused, RefreshUI, AssignDmxPort, AssignDmxPortRefused,
       SetMidiPort, SetMidiPortRefused, MidiDeviceChange, MidiDeviceIgnored,
       UseClocks, UseClockService, UseInternalClocks,
       UseInternalClocksRefused, SetClockWingModel,
       SetMasterStrobeChannelRefused, PositionerEditIgnored, SelectIgnored,
       ControlElsewhere, ControlRefused, snapshot_state, NoUpdateDue, render

(* The steps that change the clocks or a MIDI slot.                        *)
LEMMA MidiFrame ==
  [Next]_vars =>
    \/ Repatch \/ SetMidiPort \/ MidiDeviceChange \/ UseClockService
    \/ UseInternalClocks \/ SetClockWingModel \/ UNCHANGED <<internal, midi>>
BY DEF Next, ShowThread, Handle, vars, send_command, send_command_fails,
       Input, trigger, Stopped, ControlNext, Exit, RecvTimeout, Refuse, Fail,
       devices, RepatchRefused, RefreshUI, AssignDmxPort,
       AssignDmxPortRefused, SetMidiPortRefused, MidiDeviceIgnored,
       UseInternalClocksRefused, SetMasterStrobeChannel,
       SetMasterStrobeChannelRefused, PositionerEdit, PositionerEditIgnored,
       SelectChannel, SelectIgnored, ControlGroup, ControlElsewhere,
       ControlRefused, snapshot_state, NoUpdateDue, render

(* The steps that change a universe.                                       *)
LEMMA DmxFrame ==
  [Next]_vars => Repatch \/ AssignDmxPort \/ render \/ UNCHANGED dmx
BY DEF Next, ShowThread, Handle, vars, send_command, send_command_fails,
       Input, trigger, Stopped, ControlNext, Exit, RecvTimeout, Refuse, Fail,
       devices, RepatchRefused, RefreshUI, AssignDmxPortRefused, SetMidiPort,
       SetMidiPortRefused, MidiDeviceChange, MidiDeviceIgnored, UseClocks,
       UseClockService, UseInternalClocks, UseInternalClocksRefused,
       SetClockWingModel, SetMasterStrobeChannel,
       SetMasterStrobeChannelRefused, PositionerEdit, PositionerEditIgnored,
       SelectChannel, SelectIgnored, ControlGroup, ControlElsewhere,
       ControlRefused, snapshot_state, NoUpdateDue

(* The steps that publish something.                                       *)
LEMMA ViewsFrame ==
  [Next]_vars =>
    \/ Repatch \/ SetMasterStrobeChannel \/ snapshot_state
    \/ UNCHANGED <<gui, saved>>
BY DEF Next, ShowThread, Handle, vars, send_command, send_command_fails,
       Input, trigger, Stopped, ControlNext, Exit, RecvTimeout, Refuse, Fail, views,
       RepatchRefused, RefreshUI, AssignDmxPort, AssignDmxPortRefused,
       SetMidiPort, SetMidiPortRefused, MidiDeviceChange, MidiDeviceIgnored,
       UseClocks, UseClockService, UseInternalClocks,
       UseInternalClocksRefused, SetClockWingModel,
       SetMasterStrobeChannelRefused, PositionerEdit, PositionerEditIgnored,
       SelectChannel, SelectIgnored, ControlGroup, ControlElsewhere,
       ControlRefused, NoUpdateDue, render

(* The steps that send something to the surfaces.                          *)
LEMMA SurfaceFrame ==
  [Next]_vars =>
    \/ Repatch \/ SelectChannel \/ ControlGroup
    \/ surface' = refresh_ui(surface, patch, current, groups)
    \/ UNCHANGED surface
BY DEF Next, ShowThread, Handle, vars, send_command, send_command_fails,
       Input, trigger, Stopped, ControlNext, Exit, RecvTimeout, Refuse, Fail, views,
       RepatchRefused, RefreshUI, AssignDmxPort,
       AssignDmxPortRefused, SetMidiPort, SetMidiPortRefused,
       MidiDeviceChange, MidiDeviceIgnored, UseClocks, UseClockService,
       UseInternalClocks, UseInternalClocksRefused, SetClockWingModel,
       SetMasterStrobeChannel, SetMasterStrobeChannelRefused, PositionerEdit,
       PositionerEditIgnored, SelectIgnored,
       ControlElsewhere, ControlRefused, snapshot_state, NoUpdateDue, render

(* What is sent to a surface never changes the kind of thing it shows.     *)
LEMMA SurfaceDomain ==
  ASSUME DOMAIN surface = {"selected", "shows"}, [Next]_vars
  PROVE  DOMAIN surface' = DOMAIN surface
<1>1. \A p, ch, state : DOMAIN refresh_ui(surface, p, ch, state) = DOMAIN surface
  BY DEF refresh_ui, emitted
<1>2. CASE Repatch
  BY <1>1, <1>2 DEF Repatch, cleared
<1>3. CASE SelectChannel
  BY <1>3 DEF SelectChannel, emitted
<1>4. CASE ControlGroup
  BY <1>4 DEF ControlGroup, emitted
<1> QED
  BY <1>1, <1>2, <1>3, <1>4, SurfaceFrame

(***************************************************************************)
(* Types                                                                   *)
(***************************************************************************)

(* The message that is handled is one that was sent, and a command that    *)
(* names a patch, a port, a model or a fader names one there is.           *)
LEMMA CommandTyped ==
  ASSUME NEW m \in Commands \cup Inputs
  PROVE  /\ m.kind = "Repatch" => m.patch \in Patches \cup {BadPatch}
         /\ m.kind = "AssignDmxPort" => m.port \in PortNames \cup {Offline}
         /\ m.kind \in {"SetMidiPort", "MidiDeviceChange"} =>
                m.connected \in BOOLEAN
         /\ m.kind = "SetClockWingModel" => m.model \in Models
         /\ m.kind = "PositionerEdit" => m.presets \in Presets
         /\ m.kind = "Control" => m.level \in Levels
BY MessagesAssumption

(* A message in the control channel is one that was sent.                  *)
LEMMA HeadTyped ==
  ASSUME LoopOK, mailbox # <<>>
  PROVE  /\ cmd \in Commands \cup Inputs
         /\ Head(mailbox).from \in Clients \cup {Nobody}
         /\ Tail(mailbox) \in Seq(Message)
<1>1. Head(mailbox) \in Message
  BY DEF LoopOK
<1> QED
  BY <1>1 DEF LoopOK, Message, cmd

(* A handled message leaves the loop and the mailbox well typed.           *)
LEMMA AcceptLoop ==
  ASSUME LoopOK, mailbox # <<>>, NEW flags \in SUBSET (GUI_ALL \cup {"SHOW_FILE"}),
         Accept(flags)
  PROVE  LoopOK'
BY HeadTyped DEF LoopOK, Accept, answered

(* One that fails does, too.                                               *)
LEMMA FailLoop ==
  ASSUME LoopOK, mailbox # <<>>, Fail
  PROVE  LoopOK'
BY HeadTyped DEF LoopOK, Fail, answered

(* Every step keeps the loop, the mailbox and the clients well typed.      *)
LEMMA LoopStep == LoopOK /\ [Next]_vars => LoopOK'
<1> SUFFICES ASSUME LoopOK, [Next]_vars PROVE LoopOK'
  OBVIOUS
<1> USE DEF loop, mail
<1>1. ASSUME NEW c \in Clients, NEW m \in Commands, send_command(c, m)
      PROVE  LoopOK'
  <2>1. [cmd |-> m, from |-> c] \in Message
    BY DEF Message
  <2> QED
    BY <1>1, <2>1 DEF LoopOK, send_command
<1>2. ASSUME NEW c \in Clients, send_command_fails(c) PROVE LoopOK'
  BY <1>2 DEF LoopOK, send_command_fails
<1>3. ASSUME NEW m \in Inputs, Input(m) PROVE LoopOK'
  <2>1. [cmd |-> m, from |-> Nobody] \in Message
    BY DEF Message
  <2> QED
    BY <1>3, <2>1 DEF LoopOK, Input
<1>4. CASE trigger
  BY <1>4 DEF LoopOK, trigger
<1>5. CASE ControlNext \/ RecvTimeout
  BY <1>5 DEF LoopOK, ControlNext, RecvTimeout
<1>6. CASE Exit
  BY <1>6 DEF LoopOK, Exit
<1>7. ASSUME mailbox # <<>>,
             \E flags \in SUBSET (GUI_ALL \cup {"SHOW_FILE"}) : Accept(flags)
      PROVE  LoopOK'
  BY <1>7, AcceptLoop
<1>8. CASE \/ Repatch \/ RefreshUI \/ AssignDmxPort \/ SetMidiPort
           \/ MidiDeviceChange \/ MidiDeviceIgnored \/ UseClockService
           \/ UseInternalClocks \/ SetClockWingModel
           \/ SetMasterStrobeChannel \/ PositionerEdit
           \/ PositionerEditIgnored \/ SelectChannel \/ SelectIgnored
           \/ ControlGroup \/ ControlElsewhere
  <2>1. mailbox # <<>>
    BY <1>8 DEF Takes, Repatch, RefreshUI, AssignDmxPort, SetMidiPort,
       MidiDeviceChange, MidiDeviceIgnored, UseClockService,
       UseInternalClocks, SetClockWingModel, SetMasterStrobeChannel,
       PositionerEdit, PositionerEditIgnored, SelectChannel, SelectIgnored,
       ControlGroup, ControlElsewhere
  <2>2. \/ Accept({"MIDI_SLOTS", "DMX_PORTS", "SHOW_FILE"})
        \/ Accept(GUI_ALL) \/ Accept({"DMX_PORTS"}) \/ Accept({"MIDI_SLOTS"})
        \/ Accept({"MIDI_SLOTS", "CLOCK_STATE"}) \/ Accept({"SHOW_FILE"})
        \/ Accept({}) \/ Fail
    BY <1>8 DEF Repatch, RefreshUI, AssignDmxPort, SetMidiPort,
       MidiDeviceChange, MidiDeviceIgnored, UseClocks, UseClockService,
       UseInternalClocks, SetClockWingModel, SetMasterStrobeChannel,
       PositionerEdit, PositionerEditIgnored, SelectChannel, SelectIgnored,
       ControlGroup, ControlElsewhere
  <2>3. /\ {"MIDI_SLOTS", "DMX_PORTS", "SHOW_FILE"}
                \in SUBSET (GUI_ALL \cup {"SHOW_FILE"})
        /\ GUI_ALL \in SUBSET (GUI_ALL \cup {"SHOW_FILE"})
        /\ {"DMX_PORTS"} \in SUBSET (GUI_ALL \cup {"SHOW_FILE"})
        /\ {"MIDI_SLOTS"} \in SUBSET (GUI_ALL \cup {"SHOW_FILE"})
        /\ {"MIDI_SLOTS", "CLOCK_STATE"} \in SUBSET (GUI_ALL \cup {"SHOW_FILE"})
        /\ {"SHOW_FILE"} \in SUBSET (GUI_ALL \cup {"SHOW_FILE"})
        /\ {} \in SUBSET (GUI_ALL \cup {"SHOW_FILE"})
    BY DEF GUI_ALL
  <2> QED
    BY <1>7, <2>1, <2>2, <2>3, FailLoop
<1>9. CASE \/ RepatchRefused \/ AssignDmxPortRefused \/ SetMidiPortRefused
           \/ UseInternalClocksRefused \/ SetMasterStrobeChannelRefused
           \/ ControlRefused
  <2>1. mailbox # <<>> /\ Fail
    BY <1>9 DEF Takes, Refuse, RepatchRefused, AssignDmxPortRefused,
       SetMidiPortRefused, UseInternalClocksRefused,
       SetMasterStrobeChannelRefused, ControlRefused
  <2> QED
    BY <2>1, FailLoop
<1>10. CASE snapshot_state \/ NoUpdateDue \/ render
  BY <1>10 DEF LoopOK, snapshot_state, NoUpdateDue, render
<1>11. CASE UNCHANGED vars
  BY <1>11 DEF LoopOK, vars
<1> QED
  BY <1>1, <1>2, <1>3, <1>4, <1>5, <1>6, <1>8, <1>9, <1>10, <1>11
     DEF Next, ShowThread, Handle, Stopped

(***************************************************************************)
(* The selection and the master strobe                                     *)
(***************************************************************************)

(* The number of channels of a patch, and the group on one.                *)
LEMMA ChannelsTyped ==
  ASSUME NEW p \in Patches
  PROVE  /\ channel_count(p) \in Nat
         /\ \A ch \in channel_ids(p) : ch \in Nat /\ group_at(p, ch) \in DOMAIN p.uses
         /\ NoChannel \notin channel_ids(p)
<1>1. p.channels \in Seq(DOMAIN p.uses)
  BY PatchesAssumption
<1>2. channel_count(p) \in Nat
  BY <1>1 DEF channel_count
<1>3. ASSUME NEW ch \in channel_ids(p)
      PROVE  ch \in Nat /\ group_at(p, ch) \in DOMAIN p.uses
  <2>1. ch \in Nat /\ ch + 1 \in 1 .. Len(p.channels)
    BY <1>2, <1>3 DEF channel_ids, channel_count
  <2> QED
    BY <1>1, <2>1, ElementOfSeq DEF group_at
<1> QED
  BY <1>2, <1>3, DefaultsAssumption

(* The first channel, and the fader of the master strobe, of a patch.      *)
LEMMA Resolved ==
  ASSUME NEW p \in Patches
  PROVE  /\ IF channel_count(p) = 0 THEN first_channel(p) = NoChannel
            ELSE first_channel(p) \in channel_ids(p)
         /\ resolve_strobe_channel(p) # NoChannel =>
                /\ resolve_strobe_channel(p)
                        = strobe_control_channel(channel_count(p))
                /\ resolve_strobe_channel(p) \in Nat \ channel_ids(p)
<1>1. channel_count(p) \in Nat
  BY ChannelsTyped
<1>2. strobe_control_channel(channel_count(p)) \in Nat
  BY <1>1, WingCount
<1>3. IF channel_count(p) = 0 THEN first_channel(p) = NoChannel
      ELSE first_channel(p) \in channel_ids(p)
  BY <1>1 DEF first_channel, channel_ids
<1> HIDE DEF strobe_control_channel
<1> QED
  BY <1>1, <1>2, <1>3 DEF resolve_strobe_channel, channel_ids

(* A repatch is to a patch there is.                                       *)
LEMMA RepatchTyped ==
  ASSUME LoopOK, Repatch
  PROVE  cmd.patch \in Patches /\ patch' = cmd.patch
<1>1. mailbox # <<>> /\ cmd.kind = "Repatch" /\ cmd.patch # BadPatch
  BY DEF Repatch, Takes, cmd
<1>2. patch' = cmd.patch
  BY DEF Repatch
<1> QED
  BY <1>1, <1>2, HeadTyped, CommandTyped

SelectionInv == ShowOK /\ CurrentInPatch /\ StrobeFaderFree /\ ViewsOK

(* Every step keeps the selection and the master strobe right: a repatch   *)
(* reconciles both, and nothing else moves the channels.                   *)
LEMMA SelectionStep == LoopOK /\ SelectionInv /\ [Next]_vars => SelectionInv'
<1> SUFFICES ASSUME LoopOK, SelectionInv, [Next]_vars PROVE SelectionInv'
  OBVIOUS
<1>0. patch \in Patches
  BY DEF SelectionInv, ShowOK
<1>1. CASE Repatch
  <2>1. patch' \in Patches
    BY <1>1, RepatchTyped
  <2>2. groups' \in [DOMAIN patch'.uses -> GroupState]
    <3>1. FreshGroup \in GroupState
      BY DefaultsAssumption DEF FreshGroup, GroupState
    <3>2. groups' = [g \in DOMAIN patch'.uses |->
                        IF g \in DOMAIN groups THEN groups[g] ELSE FreshGroup]
      BY <1>1 DEF Repatch, carried_over
    <3> QED
      BY <3>1, <3>2 DEF SelectionInv, ShowOK
  <2>3. CurrentInPatch' /\ current' \in Nat \cup {NoChannel}
    <3>1. current' = IF current \in channel_ids(patch') THEN current
                     ELSE first_channel(patch')
      BY <1>1 DEF Repatch, reconcile_to_patch
    <3>2. channel_count(patch') = 0 => channel_ids(patch') = {}
      BY DEF channel_ids
    <3> QED
      BY <2>1, <3>1, <3>2, Resolved, ChannelsTyped DEF CurrentInPatch
  <2>4. StrobeFaderFree' /\ strobe' \in Nat \cup {NoChannel}
    <3>1. strobe' = NoChannel \/ strobe' = resolve_strobe_channel(patch')
      BY <1>1 DEF Repatch
    <3>2. gui'.strobe = (strobe' # NoChannel)
      BY <1>1 DEF Repatch, SelectionInv, ViewsOK
    <3> QED
      BY <2>1, <3>1, <3>2, Resolved DEF StrobeFaderFree
  <2>5. ViewsOK'
    BY <1>1, <2>1 DEF Repatch, SelectionInv, ViewsOK, refresh_ui, emitted,
       cleared
  <2> QED
    BY <2>1, <2>2, <2>3, <2>4, <2>5 DEF SelectionInv, ShowOK
<1>2. CASE SetMasterStrobeChannel
  <2>1. strobe' = NoChannel \/ strobe' = resolve_strobe_channel(patch)
    BY <1>2 DEF SetMasterStrobeChannel
  <2>2. /\ UNCHANGED <<patch, current, groups, surface>>
        /\ DOMAIN gui' = DOMAIN gui /\ gui'.patch = gui.patch
        /\ gui'.strobe = (strobe' # NoChannel)
    BY <1>2 DEF SetMasterStrobeChannel, SelectionInv, ViewsOK
  <2> QED
    BY <1>0, <2>1, <2>2, Resolved
       DEF SelectionInv, ShowOK, CurrentInPatch, StrobeFaderFree, ViewsOK
<1>3. CASE PositionerEdit
  <2>1. UNCHANGED <<patch, current, strobe, gui, surface>>
    BY <1>3 DEF PositionerEdit, views
  <2>2. groups' \in [DOMAIN patch.uses -> GroupState]
    <3>1. cmd.presets \in Presets
      BY <1>3, HeadTyped, CommandTyped DEF PositionerEdit, Takes, cmd
    <3>2. groups' = [groups EXCEPT ![group_at(patch, current)] =
                        [@ EXCEPT !.presets = cmd.presets]]
      BY <1>3 DEF PositionerEdit
    <3> HIDE DEF cmd
    <3> QED
      BY <3>1, <3>2 DEF SelectionInv, ShowOK, GroupState
  <2> QED
    BY <2>1, <2>2
       DEF SelectionInv, ShowOK, CurrentInPatch, StrobeFaderFree, ViewsOK
<1>4. CASE SelectChannel
  <2>1. UNCHANGED <<patch, strobe, groups, gui>>
        /\ current' \in channel_ids(patch)
    BY <1>4 DEF SelectChannel
  <2>2. DOMAIN surface' = DOMAIN surface
    BY <1>4 DEF SelectChannel, emitted, SelectionInv, ViewsOK
  <2>3. channel_count(patch) # 0
    BY <2>1 DEF channel_ids
  <2> QED
    BY <1>0, <2>1, <2>2, <2>3, ChannelsTyped
       DEF SelectionInv, ShowOK, CurrentInPatch, StrobeFaderFree, ViewsOK
<1>5. CASE ControlGroup
  <2>1. UNCHANGED <<patch, current, strobe, gui>>
    BY <1>5 DEF ControlGroup
  <2>2. groups' \in [DOMAIN patch.uses -> GroupState]
    <3>1. cmd.level \in Levels
      BY <1>5, HeadTyped, CommandTyped DEF ControlGroup, Takes, cmd
    <3>2. groups' = [groups EXCEPT ![group_at(patch, Target)] =
                        [@ EXCEPT !.level = cmd.level]]
      BY <1>5 DEF ControlGroup
    <3> QED
      BY <3>1, <3>2 DEF SelectionInv, ShowOK, GroupState
  <2>3. DOMAIN surface' = DOMAIN surface
    BY <1>5 DEF ControlGroup, emitted, SelectionInv, ViewsOK
  <2> QED
    BY <2>1, <2>2, <2>3
       DEF SelectionInv, ShowOK, CurrentInPatch, StrobeFaderFree, ViewsOK
<1>6. CASE UNCHANGED show /\ ~Repatch /\ ~SetMasterStrobeChannel
  <2>1. /\ DOMAIN gui' = DOMAIN gui
        /\ gui'.patch = gui.patch /\ gui'.strobe = gui.strobe
    BY <1>6, ViewsFrame DEF snapshot_state, SelectionInv, ViewsOK
  <2>2. DOMAIN surface' = DOMAIN surface
    BY SurfaceDomain DEF SelectionInv, ViewsOK
  <2> QED
    BY <1>6, <2>1, <2>2
       DEF show, SelectionInv, ShowOK, CurrentInPatch, StrobeFaderFree, ViewsOK
<1> QED
  BY <1>1, <1>2, <1>3, <1>4, <1>5, <1>6, ShowFrame

(***************************************************************************)
(* MIDI slots                                                              *)
(***************************************************************************)
SlotTyped(s) == s \in [model : Models \cup {WingModel}, connected : BOOLEAN]

MidiInv ==
    /\ internal \in BOOLEAN
    /\ DOMAIN midi \subseteq Slots
    /\ \A s \in DOMAIN midi : SlotTyped(midi[s])
    /\ WingsMatchPatch

(* A new slot is well typed (MidiSlot's fields before a device is set).    *)
LEMMA NewSlotTyped ==
  ASSUME NEW m \in Models \cup {WingModel}
  PROVE  SlotTyped(slot(m))
BY DEF SlotTyped, slot

(* Every step keeps the wings the show needs: a repatch and a change of    *)
(* clocks reconcile them, a device only fills a slot.                      *)
LEMMA MidiStep ==
  LoopOK /\ ShowOK /\ MidiInv /\ [Next]_vars => MidiInv'
<1> SUFFICES ASSUME LoopOK, ShowOK, MidiInv, [Next]_vars PROVE MidiInv'
  OBVIOUS
<1> DEFINE n == channel_count(patch)
<1>0. /\ n \in Nat /\ submaster_wing_count(n) \in Nat
      /\ submaster_wings(midi) = FirstWings(submaster_wing_count(n))
  BY ChannelsTyped, WingCount DEF ShowOK, MidiInv, WingsMatchPatch, FirstWings
<1> HIDE DEF n
<1>1. CASE Repatch
  <2>1. patch' \in Patches /\ channel_count(patch') \in Nat
    BY <1>1, RepatchTyped, ChannelsTyped
  <2>2. midi' = reconcile_submaster_wings(midi, channel_count(patch')).slots
        /\ internal' = internal
    BY <1>1 DEF Repatch
  <2>3. /\ DOMAIN midi' \subseteq Slots
        /\ \A s \in DOMAIN midi' :
                \/ midi'[s] = slot(WingModel)
                \/ s \in DOMAIN midi /\ midi'[s] = midi[s]
        /\ submaster_wings(midi')
                = FirstWings(submaster_wing_count(channel_count(patch')))
        /\ ClockWing \in DOMAIN midi' <=> ClockWing \in DOMAIN midi
    BY <1>0, <2>1, <2>2, WingsReconciled DEF MidiInv
  <2> QED
    BY <2>2, <2>3, NewSlotTyped DEF MidiInv, WingsMatchPatch, FirstWings
<1>2. CASE SetMidiPort \/ MidiDeviceChange
  <2>1. UNCHANGED <<patch, internal>>
        /\ cmd.slot \in DOMAIN midi
        /\ midi' = [midi EXCEPT ![cmd.slot] = [@ EXCEPT !.connected = cmd.connected]]
    BY <1>2 DEF SetMidiPort, MidiDeviceChange, show
  <2>2. cmd.connected \in BOOLEAN
    BY <1>2, HeadTyped, CommandTyped DEF SetMidiPort, MidiDeviceChange, Takes,
       cmd
  <2>3. DOMAIN midi' = DOMAIN midi
    BY <2>1
  <2>4. \A s \in DOMAIN midi : SlotTyped(midi'[s])
    BY <2>1, <2>2 DEF MidiInv, SlotTyped
  <2> QED
    BY <2>1, <2>3, <2>4 DEF MidiInv, WingsMatchPatch, submaster_wings
<1>3. CASE UseClockService \/ UseInternalClocks \/ SetClockWingModel
  <2>1. PICK model \in Models \cup {WingModel} :
            /\ patch' = patch /\ internal' \in BOOLEAN
            /\ midi' = reconcile_clock_wing(midi, internal', model).slots
    <3>1. clock_wing_model(midi) \in Models \cup {WingModel}
      BY DefaultsAssumption DEF clock_wing_model, MidiInv, SlotTyped
    <3>2. CASE UseClockService
      BY <3>1, <3>2 DEF UseClockService, UseClocks, show
    <3>3. CASE UseInternalClocks
      BY <3>1, <3>3 DEF UseInternalClocks, UseClocks, show
    <3>4. CASE SetClockWingModel
      <4>1. cmd.model \in Models
        BY <3>4, HeadTyped, CommandTyped DEF SetClockWingModel, Takes, cmd
      <4> QED
        BY <3>4, <4>1 DEF SetClockWingModel, show, MidiInv
    <3> QED
      BY <1>3, <3>2, <3>3, <3>4
  <2>2. /\ DOMAIN midi' \subseteq Slots
        /\ \A s \in DOMAIN midi' :
                \/ midi'[s] = slot(model)
                \/ s \in DOMAIN midi /\ midi'[s] = midi[s]
        /\ submaster_wings(midi') = submaster_wings(midi)
        /\ ClockWing \in DOMAIN midi' <=> internal'
    <3>1. DOMAIN midi \subseteq Slots
      BY DEF MidiInv
    <3> QED
      BY <2>1, <3>1, ClockReconciled
  <2> QED
    BY <2>1, <2>2, NewSlotTyped DEF MidiInv, WingsMatchPatch
<1>4. CASE UNCHANGED <<internal, midi>> /\ ~Repatch
  <2>1. patch' = patch
    BY <1>4, ShowFrame DEF show, SetMasterStrobeChannel, PositionerEdit,
       SelectChannel, ControlGroup
  <2> QED
    BY <1>4, <2>1 DEF MidiInv, WingsMatchPatch
<1> QED
  BY <1>1, <1>2, <1>3, <1>4, MidiFrame

\* What the handlers do that reconcile slots when none is refused.
Completed ==
    /\ Repatch =>
        /\ surface' = refresh_ui(cleared(surface), patch', current', groups')
        /\ dmx' = resized(dmx, universe_count(patch'))
        /\ Accept({"MIDI_SLOTS", "DMX_PORTS", "SHOW_FILE"})
    /\ UseClockService \/ UseInternalClocks =>
        /\ surface' = refresh_ui(surface, patch, current, groups)
        /\ Accept({"MIDI_SLOTS", "CLOCK_STATE"})
    /\ SetClockWingModel => Accept({"MIDI_SLOTS"})

(* As the wings are always the first ones the channels need, no handler    *)
(* ever stops half-way because a slot is refused: counting the wings is as *)
(* good as looking them up (reconcile_submaster_wings, show.rs:354).       *)
LEMMA SlotsNeverRefused ==
  LoopOK /\ ShowOK /\ MidiInv => Completed
<1> SUFFICES ASSUME LoopOK, ShowOK, MidiInv PROVE Completed
  OBVIOUS
<1> DEFINE n == channel_count(patch)
<1>0. /\ n \in Nat /\ submaster_wing_count(n) \in Nat
      /\ submaster_wings(midi) = FirstWings(submaster_wing_count(n))
      /\ DOMAIN midi \subseteq Slots
  BY ChannelsTyped, WingCount DEF ShowOK, MidiInv, WingsMatchPatch, FirstWings
<1> HIDE DEF n
<1>1. ASSUME Repatch
      PROVE  reconcile_submaster_wings(midi, channel_count(cmd.patch)).refused = {}
  <2>1. channel_count(cmd.patch) \in Nat
    BY <1>1, RepatchTyped, ChannelsTyped
  <2> QED
    BY <1>0, <2>1, WingsReconciled
<1>2. \A needed \in BOOLEAN : \A model :
        reconcile_clock_wing(midi, needed, model).refused = {}
  BY <1>0, ClockReconciled
<1>3. internal \in BOOLEAN
  BY DEF MidiInv
<1>4. ASSUME Repatch
      PROVE  /\ surface' = refresh_ui(cleared(surface), patch', current', groups')
             /\ dmx' = resized(dmx, universe_count(patch'))
             /\ Accept({"MIDI_SLOTS", "DMX_PORTS", "SHOW_FILE"})
  BY <1>1, <1>4 DEF Repatch
<1>5. ASSUME NEW inside \in BOOLEAN, UseClocks(inside)
      PROVE  /\ surface' = refresh_ui(surface, patch, current, groups)
             /\ Accept({"MIDI_SLOTS", "CLOCK_STATE"})
  BY <1>2, <1>5 DEF UseClocks
<1>6. ASSUME SetClockWingModel PROVE Accept({"MIDI_SLOTS"})
  BY <1>2, <1>3, <1>6 DEF SetClockWingModel
<1> QED
  BY <1>4, <1>5, <1>6 DEF Completed, UseClockService, UseInternalClocks

(***************************************************************************)
(* DMX universes                                                           *)
(***************************************************************************)
DmxInv ==
    /\ DOMAIN dmx = 0 .. universe_count(patch) - 1
    /\ \A u \in DOMAIN dmx :
        dmx[u] \in [port : PortNames \cup {Offline}, drawn : SUBSET GroupIds]
    /\ UniversesServePatch /\ NoGhostOutput

(* Every step keeps the universes: a repatch resizes and blackens them, a  *)
(* port is given to one universe, a frame draws what is patched.           *)
LEMMA DmxStep ==
  LoopOK /\ ShowOK /\ MidiInv /\ DmxInv /\ [Next]_vars => DmxInv'
<1> SUFFICES ASSUME LoopOK, ShowOK, MidiInv, DmxInv, [Next]_vars PROVE DmxInv'
  OBVIOUS
<1>0. patch \in Patches /\ DOMAIN patch.uses \subseteq GroupIds
  BY DEF ShowOK, GroupIds
<1>1. CASE Repatch
  <2>1. patch' \in Patches
    BY <1>1, RepatchTyped
  <2>2. dmx' = [u \in 0 .. universe_count(patch') - 1 |->
                    IF u \in DOMAIN dmx
                    THEN [dmx[u] EXCEPT !.drawn = {}] ELSE offline]
    BY <1>1, SlotsNeverRefused DEF Completed, resized
  <2>3. DOMAIN dmx' = 0 .. universe_count(patch') - 1
    BY <2>2
  <2>4. \A u \in DOMAIN dmx' :
            /\ dmx'[u].drawn = {}
            /\ dmx'[u] \in [port : PortNames \cup {Offline},
                             drawn : SUBSET GroupIds]
            /\ dmx'[u].port = IF u \in DOMAIN dmx THEN dmx[u].port ELSE Offline
    BY <2>2, <2>3 DEF offline, DmxInv
  <2>5. UniversesServePatch'
    BY <2>1, <2>3, <2>4, UniversesCount DEF DmxInv, UniversesServePatch
  <2> QED
    BY <2>3, <2>4, <2>5 DEF DmxInv, NoGhostOutput
<1>2. CASE AssignDmxPort
  <2>1. patch' = patch /\ cmd.universe \in DOMAIN dmx
        /\ dmx' = [dmx EXCEPT ![cmd.universe] =
                        [port |-> cmd.port, drawn |-> {}]]
    BY <1>2 DEF AssignDmxPort, PortRefused, show
  <2>2. cmd.port \in PortNames \cup {Offline}
    BY <1>2, HeadTyped, CommandTyped DEF AssignDmxPort, Takes, cmd
  <2>3. cmd.port # Offline =>
            \A u \in DOMAIN dmx : u # cmd.universe => dmx[u].port # cmd.port
    BY <1>2 DEF AssignDmxPort, PortRefused
  <2>4. DOMAIN dmx' = DOMAIN dmx
        /\ \A u \in DOMAIN dmx : dmx'[u] =
                IF u = cmd.universe THEN [port |-> cmd.port, drawn |-> {}]
                ELSE dmx[u]
    BY <2>1
  <2> HIDE DEF cmd
  <2>5. UniversesServePatch'
    BY <2>1, <2>3, <2>4 DEF DmxInv, UniversesServePatch
  <2>6. NoGhostOutput'
    BY <2>1, <2>4 DEF DmxInv, NoGhostOutput
  <2> QED
    BY <2>1, <2>2, <2>4, <2>5, <2>6 DEF DmxInv
<1>3. CASE render
  <2>1. patch' = patch
        /\ dmx' = [u \in DOMAIN dmx |-> [dmx[u] EXCEPT !.drawn =
                @ \cup {g \in DOMAIN patch.uses : u \in patch.uses[g]}]]
    BY <1>3 DEF render, show
  <2>2. DOMAIN dmx' = DOMAIN dmx
    BY <2>1
  <2>3. \A u \in DOMAIN dmx :
            /\ dmx'[u].port = dmx[u].port
            /\ dmx'[u].drawn = dmx[u].drawn
                    \cup {g \in DOMAIN patch.uses : u \in patch.uses[g]}
            /\ dmx'[u] \in [port : PortNames \cup {Offline},
                             drawn : SUBSET GroupIds]
    BY <1>0, <2>1 DEF DmxInv
  <2>4. UniversesServePatch'
    BY <2>1, <2>2, <2>3 DEF DmxInv, UniversesServePatch
  <2>5. NoGhostOutput'
    BY <2>1, <2>2, <2>3 DEF DmxInv, NoGhostOutput
  <2> QED
    BY <2>1, <2>2, <2>3, <2>4, <2>5 DEF DmxInv
<1>4. CASE UNCHANGED dmx /\ ~Repatch
  <2>1. patch' = patch
    BY <1>4, ShowFrame DEF show, SetMasterStrobeChannel, PositionerEdit,
       SelectChannel, ControlGroup
  <2> QED
    BY <1>4, <2>1 DEF DmxInv, UniversesServePatch, NoGhostOutput
<1> QED
  BY <1>1, <1>2, <1>3, <1>4, DmxFrame

(***************************************************************************)
(* Snapshots                                                               *)
(***************************************************************************)

\* Whatever is not published yet has its flag set, and flags are set only
\* between the handler and snapshot_state.
SnapInv ==
    /\ gui.patch = patch
    /\ "MIDI_SLOTS" \in dirty \/ gui.midi = midi
    /\ "CLOCK_STATE" \in dirty \/ gui.internal = internal
    /\ "DMX_PORTS" \in dirty \/ gui.ports = port_status(dmx)
    /\ "SHOW_FILE" \in dirty \/ saved = show_file(patch, groups)
    /\ pc # "snapshot" => dirty = {}

(* What a show file holds depends on the presets of the groups only.       *)
LEMMA ShowFileOf ==
  ASSUME NEW p, NEW old, NEW new,
         \A g \in DOMAIN p.uses : new[g].presets = old[g].presets
  PROVE  show_file(p, new) = show_file(p, old)
BY DEF show_file

(* Every step that changes what is published sets its flag, and the flags  *)
(* are cleared by publishing.                                              *)
LEMMA SnapStep ==
  LoopOK /\ SelectionInv /\ MidiInv /\ DmxInv /\ SnapInv /\ [Next]_vars => SnapInv'
<1> SUFFICES ASSUME LoopOK, SelectionInv, MidiInv, DmxInv, SnapInv, [Next]_vars
             PROVE  SnapInv'
  OBVIOUS
<1>0c. Completed
  BY SlotsNeverRefused DEF SelectionInv
<1>0. DOMAIN gui = {"patch", "midi", "internal", "ports", "strobe"}
  BY DEF SelectionInv, ViewsOK
<1>1. CASE \/ \E c \in Clients : \E m \in Commands : send_command(c, m)
           \/ \E c \in Clients : send_command_fails(c)
           \/ \E m \in Inputs : Input(m)
           \/ trigger \/ Stopped \/ UNCHANGED vars
  BY <1>1 DEF SnapInv, send_command, send_command_fails, Input, trigger,
     Stopped, vars, loop, show, devices, views
<1>2. CASE ControlNext \/ Exit \/ RecvTimeout \/ NoUpdateDue
  BY <1>2 DEF SnapInv, ControlNext, Exit, RecvTimeout, NoUpdateDue, show,
     devices, views
<1>3. CASE render
  <2>1. /\ UNCHANGED <<dirty, show, internal, midi, views>>
        /\ pc # "snapshot" /\ pc' # "snapshot"
        /\ dmx' = [u \in DOMAIN dmx |-> [dmx[u] EXCEPT !.drawn =
                @ \cup {g \in DOMAIN patch.uses : u \in patch.uses[g]}]]
    BY <1>3 DEF render
  <2>2. DOMAIN dmx' = DOMAIN dmx
        /\ \A u \in DOMAIN dmx : dmx'[u].port = dmx[u].port
    BY <2>1 DEF DmxInv
  <2>3. port_status(dmx)' = port_status(dmx)
    BY <2>2 DEF port_status
  <2> QED
    BY <2>1, <2>3 DEF SnapInv, show, views
<1>4. CASE snapshot_state
  BY <1>0, <1>4 DEF SnapInv, snapshot_state, show, devices
<1>5. CASE \/ RepatchRefused \/ AssignDmxPortRefused \/ SetMidiPortRefused
           \/ UseInternalClocksRefused \/ SetMasterStrobeChannelRefused
           \/ ControlRefused
  <2>1. pc = "control" /\ Refuse
    BY <1>5 DEF Takes, RepatchRefused, AssignDmxPortRefused,
       SetMidiPortRefused, UseInternalClocksRefused,
       SetMasterStrobeChannelRefused, ControlRefused
  <2> QED
    BY <2>1 DEF Refuse, Fail, SnapInv, show, devices, views
<1>6. ASSUME NEW flags, Accept(flags)
      PROVE  dirty' = flags /\ (pc' # "snapshot" => dirty' = {})
  BY <1>6 DEF Accept
<1>7. CASE Repatch
  <2>1. /\ pc = "control" /\ Accept({"MIDI_SLOTS", "DMX_PORTS", "SHOW_FILE"})
        /\ internal' = internal
        /\ gui' = [gui EXCEPT !.patch = patch', !.strobe = strobe' # NoChannel]
    BY <1>0c, <1>7 DEF Completed, Repatch, Takes
  <2> QED
    BY <1>0, <1>6, <2>1 DEF SnapInv
<1>8. CASE RefreshUI
  BY <1>6, <1>8 DEF RefreshUI, Takes, SnapInv, show, devices
<1>9. CASE AssignDmxPort
  BY <1>6, <1>9 DEF AssignDmxPort, Takes, SnapInv, show, views
<1>10. CASE SetMidiPort \/ MidiDeviceChange
  BY <1>6, <1>10 DEF SetMidiPort, MidiDeviceChange, Takes, SnapInv, show
<1>11. CASE MidiDeviceIgnored \/ SetClockWingModel
  BY <1>0c, <1>6, <1>11 DEF Completed, MidiDeviceIgnored, SetClockWingModel,
     Takes, SnapInv, show, devices, views
<1>12. CASE UseClockService \/ UseInternalClocks
  <2>1. /\ Accept({"MIDI_SLOTS", "CLOCK_STATE"})
        /\ pc = "control" /\ UNCHANGED <<show, dmx, saved, gui>>
    BY <1>0c, <1>12 DEF Completed, UseClockService, UseInternalClocks, UseClocks,
       Takes
  <2> QED
    BY <1>6, <2>1 DEF SnapInv, show
<1>13. CASE SetMasterStrobeChannel
  <2>1. /\ pc = "control" /\ Accept({})
        /\ UNCHANGED <<patch, groups, devices, saved>>
        /\ gui' = [gui EXCEPT !.strobe = strobe' # NoChannel]
    BY <1>13 DEF SetMasterStrobeChannel, Takes
  <2> QED
    BY <1>0, <1>6, <2>1 DEF SnapInv, devices
<1>14. CASE PositionerEdit
  BY <1>6, <1>14 DEF PositionerEdit, Takes, SnapInv, devices, views
<1>15. CASE PositionerEditIgnored \/ SelectIgnored \/ ControlElsewhere
  BY <1>6, <1>15 DEF PositionerEditIgnored, SelectIgnored, ControlElsewhere,
     Takes, SnapInv, show, devices, views
<1>16. CASE SelectChannel
  BY <1>6, <1>16 DEF SelectChannel, Takes, SnapInv, devices
<1>17. CASE ControlGroup
  <2>1. /\ pc = "control" /\ Accept({})
        /\ UNCHANGED <<patch, devices, saved, gui>>
        /\ groups' = [groups EXCEPT ![group_at(patch, Target)] =
                          [@ EXCEPT !.level = cmd.level]]
    BY <1>17 DEF ControlGroup, Takes
  <2>2. \A g \in DOMAIN patch.uses : groups'[g].presets = groups[g].presets
    BY <2>1 DEF SelectionInv, ShowOK, GroupState
  <2>3. show_file(patch, groups') = show_file(patch, groups)
    BY <2>2, ShowFileOf
  <2> QED
    BY <1>6, <2>1, <2>3 DEF SnapInv, devices
<1> QED
  BY <1>1, <1>2, <1>3, <1>4, <1>5, <1>7, <1>8, <1>9, <1>10, <1>11, <1>12,
     <1>13, <1>14, <1>15, <1>16, <1>17 DEF Next, ShowThread, Handle

(***************************************************************************)
(* Surfaces                                                                *)
(***************************************************************************)
Shown(p, state, ch) ==
    [group |-> group_at(p, ch), level |-> state[group_at(p, ch)].level]

(* What a surface shows after it was told of some channels.                *)
LEMMA Emitted ==
  ASSUME NEW s, DOMAIN s = {"selected", "shows"}, NEW chs, NEW p, NEW state
  PROVE  /\ DOMAIN emitted(s, chs, p, state) = DOMAIN s
         /\ emitted(s, chs, p, state).selected = s.selected
         /\ DOMAIN emitted(s, chs, p, state).shows = DOMAIN s.shows \cup chs
         /\ \A c \in chs :
                emitted(s, chs, p, state).shows[c] = Shown(p, state, c)
         /\ \A c \in DOMAIN s.shows \ chs :
                emitted(s, chs, p, state).shows[c] = s.shows[c]
<1> DEFINE told == [c \in DOMAIN s.shows \cup chs |->
                       IF c \in chs THEN Shown(p, state, c) ELSE s.shows[c]]
<1>1. emitted(s, chs, p, state) = [s EXCEPT !.shows = told]
  BY DEF emitted, Shown
<1>2. /\ DOMAIN told = DOMAIN s.shows \cup chs
      /\ \A c \in chs : told[c] = Shown(p, state, c)
      /\ \A c \in DOMAIN s.shows \ chs : told[c] = s.shows[c]
  OBVIOUS
<1> HIDE DEF told
<1> QED
  BY <1>1, <1>2

(* What a surface shows after a refresh.                                   *)
LEMMA Refreshed ==
  ASSUME NEW s, DOMAIN s = {"selected", "shows"}, NEW p, NEW ch, NEW state
  PROVE  /\ ch # NoChannel => refresh_ui(s, p, ch, state).selected = ch
         /\ channel_ids(p) \subseteq DOMAIN refresh_ui(s, p, ch, state).shows
         /\ \A c \in channel_ids(p) :
                refresh_ui(s, p, ch, state).shows[c] = Shown(p, state, c)
<1> DEFINE e == emitted(s, channel_ids(p), p, state)
<1>1. refresh_ui(s, p, ch, state) =
        [e EXCEPT !.selected = IF ch = NoChannel THEN @ ELSE ch]
  BY DEF refresh_ui
<1>2. /\ DOMAIN e = {"selected", "shows"}
      /\ channel_ids(p) \subseteq DOMAIN e.shows
      /\ \A c \in channel_ids(p) : e.shows[c] = Shown(p, state, c)
  BY Emitted
<1> HIDE DEF e
<1> QED
  BY <1>1, <1>2

(* A refresh, a selection or a fader leaves the surfaces showing the       *)
(* channels there are; no group is on two channels.                        *)
LEMMA SurfaceStep ==
  LoopOK /\ SelectionInv /\ MidiInv /\ SurfaceCurrent /\ [Next]_vars
    => SurfaceCurrent'
<1> SUFFICES ASSUME LoopOK, SelectionInv, MidiInv, SurfaceCurrent, [Next]_vars
             PROVE  SurfaceCurrent'
  OBVIOUS
<1>0. DOMAIN surface = {"selected", "shows"} /\ patch \in Patches
  BY DEF SelectionInv, ViewsOK, ShowOK
<1>1. ASSUME surface' = refresh_ui(surface, patch', current', groups')
      PROVE  SurfaceCurrent'
  BY <1>0, <1>1, Refreshed DEF SurfaceCurrent, Shown
<1>2. CASE Repatch
  BY <1>1, <1>2, SlotsNeverRefused DEF SelectionInv, Completed, cleared
<1>3. CASE SelectChannel
  <2>1. /\ UNCHANGED <<patch, groups>> /\ current' \in channel_ids(patch)
        /\ surface' = [emitted(surface, {current'}, patch, groups) EXCEPT
                          !.selected = current']
    BY <1>3 DEF SelectChannel
  <2> DEFINE e == emitted(surface, {current'}, patch, groups)
  <2>2. /\ DOMAIN e = {"selected", "shows"}
        /\ DOMAIN e.shows = DOMAIN surface.shows \cup {current'}
        /\ e.shows[current'] = Shown(patch, groups, current')
        /\ \A c \in DOMAIN surface.shows :
              c # current' => e.shows[c] = surface.shows[c]
    BY <1>0, Emitted
  <2> HIDE DEF e
  <2>3. surface'.selected = current' /\ surface'.shows = e.shows
    BY <2>1, <2>2 DEF e
  <2> QED
    BY <2>1, <2>2, <2>3 DEF SurfaceCurrent, Shown
<1>4. CASE ControlGroup
  <2> DEFINE g == group_at(patch, Target)
  <2>1. /\ UNCHANGED <<patch, current>> /\ Target \in channel_ids(patch)
        /\ groups' = [groups EXCEPT ![g] = [@ EXCEPT !.level = cmd.level]]
        /\ surface' = emitted(surface, {Target}, patch, groups')
    BY <1>4 DEF ControlGroup
  <2>2. \A c \in channel_ids(patch) : c # Target => group_at(patch, c) # g
    <3>1. /\ patch.channels \in Seq(DOMAIN patch.uses)
          /\ \A i, j \in DOMAIN patch.channels :
                patch.channels[i] = patch.channels[j] => i = j
      BY <1>0, PatchesAssumption
    <3>2. \A c \in channel_ids(patch) :
            c \in Int /\ c + 1 \in DOMAIN patch.channels
      BY <3>1 DEF channel_ids, channel_count
    <3> HIDE DEF Target
    <3> QED
      BY <2>1, <3>1, <3>2 DEF group_at
  <2>3. \A h \in DOMAIN groups : h # g => groups'[h] = groups[h]
    BY <2>1
  <2>4. \A c \in channel_ids(patch) : group_at(patch, c) \in DOMAIN groups
    BY <1>0, ChannelsTyped DEF SelectionInv, ShowOK
  <2>5. \A c \in channel_ids(patch) :
          c # Target => Shown(patch, groups', c) = Shown(patch, groups, c)
    BY <2>2, <2>3, <2>4 DEF Shown
  <2>6. /\ surface'.selected = surface.selected
        /\ DOMAIN surface'.shows = DOMAIN surface.shows \cup {Target}
        /\ surface'.shows[Target] = Shown(patch, groups', Target)
        /\ \A c \in DOMAIN surface.shows :
              c # Target => surface'.shows[c] = surface.shows[c]
    BY <1>0, <2>1, Emitted
  <2>7. \A c \in channel_ids(patch) :
          c \in DOMAIN surface.shows
            /\ surface.shows[c] = Shown(patch, groups, c)
    BY DEF SurfaceCurrent, Shown
  <2>8. \A c \in channel_ids(patch) :
          c \in DOMAIN surface'.shows
            /\ surface'.shows[c] = Shown(patch, groups', c)
    BY <2>5, <2>6, <2>7
  <2> QED
    BY <2>1, <2>6, <2>8 DEF SurfaceCurrent, Shown
<1>5. CASE PositionerEdit
  <2>1. UNCHANGED <<patch, current, surface>>
        /\ groups' = [groups EXCEPT ![group_at(patch, current)] =
                          [@ EXCEPT !.presets = cmd.presets]]
    BY <1>5 DEF PositionerEdit, views
  <2>2. \A h \in DOMAIN groups : groups'[h].level = groups[h].level
    BY <2>1 DEF SelectionInv, ShowOK, GroupState
  <2>3. \A c \in channel_ids(patch) : group_at(patch, c) \in DOMAIN groups
    BY <1>0, ChannelsTyped DEF SelectionInv, ShowOK
  <2> QED
    BY <2>1, <2>2, <2>3 DEF SurfaceCurrent
<1>6. CASE SetMasterStrobeChannel
  BY <1>6 DEF SetMasterStrobeChannel, SurfaceCurrent
<1>7. CASE UNCHANGED show
  BY <1>1, <1>2, <1>3, <1>4, <1>7, SurfaceFrame DEF show, SurfaceCurrent
<1> QED
  BY <1>2, <1>3, <1>4, <1>5, <1>6, <1>7, ShowFrame

(***************************************************************************)
(* Answers                                                                 *)
(***************************************************************************)

(* Only a handler that changes nothing answers with an error: those that   *)
(* could fail half-way do not.                                             *)
LEMMA RefusedStep ==
  ASSUME LoopOK, ShowOK, MidiInv, [Next]_vars, NEW c \in Clients,
         client[c] = "waiting", client'[c] = "error"
  PROVE  UNCHANGED <<show, devices, views>>
<1>0. Completed
  BY SlotsNeverRefused
<1>1. Refuse => UNCHANGED <<show, devices, views>>
  BY DEF Refuse
<1>2. ASSUME NEW d \in Clients, NEW m \in Commands, send_command(d, m)
      PROVE  FALSE
  BY <1>2 DEF send_command, LoopOK
<1>3. ASSUME NEW d \in Clients, send_command_fails(d) PROVE FALSE
  BY <1>3 DEF send_command_fails, LoopOK
<1>4. Exit => FALSE
  BY DEF Exit
<1>5. ASSUME NEW flags, Accept(flags) PROVE FALSE
  BY <1>5 DEF Accept, answered, LoopOK
<1>6. UNCHANGED client => FALSE
  OBVIOUS
<1>7. Handle =>
        \/ Refuse
        \/ Accept({"MIDI_SLOTS", "DMX_PORTS", "SHOW_FILE"})
        \/ Accept(GUI_ALL) \/ Accept({"DMX_PORTS"}) \/ Accept({"MIDI_SLOTS"})
        \/ Accept({"MIDI_SLOTS", "CLOCK_STATE"}) \/ Accept({"SHOW_FILE"})
        \/ Accept({})
  BY <1>0 DEF Completed, Handle, RefreshUI, AssignDmxPort, SetMidiPort,
     MidiDeviceChange, MidiDeviceIgnored, SetMasterStrobeChannel,
     PositionerEdit, PositionerEditIgnored, SelectChannel, SelectIgnored,
     ControlGroup, ControlElsewhere, RepatchRefused, AssignDmxPortRefused,
     SetMidiPortRefused, UseInternalClocksRefused,
     SetMasterStrobeChannelRefused, ControlRefused
<1>8. Handle => UNCHANGED <<show, devices, views>>
  BY <1>1, <1>5, <1>7
<1>9. CASE \/ \E m \in Inputs : Input(m)
           \/ trigger \/ ControlNext \/ RecvTimeout \/ snapshot_state
           \/ NoUpdateDue \/ render \/ Stopped \/ UNCHANGED vars
  BY <1>6, <1>9 DEF Input, trigger, ControlNext, RecvTimeout, snapshot_state,
     NoUpdateDue, render, Stopped, vars, mail
<1> QED
  BY <1>2, <1>3, <1>4, <1>8, <1>9 DEF Next, ShowThread

(***************************************************************************)
(* The inductive invariant                                                 *)
(***************************************************************************)
IInv ==
    /\ LoopOK /\ SelectionInv /\ MidiInv /\ DmxInv
    /\ SnapInv /\ SurfaceCurrent

(* What Show::new leaves: the slots for the patch, and every universe.     *)
LEMMA InitDevices == Init => MidiInv /\ DmxInv
<1> SUFFICES ASSUME Init PROVE MidiInv /\ DmxInv
  OBVIOUS
<1>0. patch \in Patches /\ channel_count(patch) \in Nat
  BY ChannelsTyped DEF Init
<1>1. MidiInv
  <2> DEFINE none == [s \in {} |-> s]
             wings == reconcile_submaster_wings(none, channel_count(patch)).slots
  <2>1. DOMAIN none \subseteq Slots
    OBVIOUS
  <2>2. submaster_wings(none) = FirstWings(0)
    BY DEF submaster_wings, FirstWings
  <2>3. /\ DOMAIN wings \subseteq Slots
        /\ \A s \in DOMAIN wings : wings[s] = slot(WingModel)
        /\ submaster_wings(wings)
                = FirstWings(submaster_wing_count(channel_count(patch)))
    <3>1. DOMAIN none = {}
      OBVIOUS
    <3> HIDE DEF none
    <3> QED
      BY <1>0, <2>1, <2>2, <3>1, WingsReconciled
  <2>4. midi = reconcile_clock_wing(wings, TRUE, DefaultModel).slots
        /\ internal = TRUE
    BY DEF Init
  <2> HIDE DEF wings
  <2>5. /\ DOMAIN midi \subseteq Slots
        /\ \A s \in DOMAIN midi :
                \/ midi[s] = slot(DefaultModel)
                \/ s \in DOMAIN wings /\ midi[s] = wings[s]
        /\ submaster_wings(midi) = submaster_wings(wings)
        /\ ClockWing \in DOMAIN midi
    <3>1. \A b \in BOOLEAN : \A new :
          new = reconcile_clock_wing(wings, b, DefaultModel).slots =>
            /\ DOMAIN new \subseteq Slots
            /\ \A s \in DOMAIN new :
                    \/ new[s] = slot(DefaultModel)
                    \/ s \in DOMAIN wings /\ new[s] = wings[s]
            /\ submaster_wings(new) = submaster_wings(wings)
            /\ ClockWing \in DOMAIN new <=> b
      BY <2>3, ClockReconciled
    <3> QED
      BY <2>4, <3>1, Zenon
  <2>6. \A s \in DOMAIN midi : SlotTyped(midi[s])
    BY <2>3, <2>5, NewSlotTyped, DefaultsAssumption
  <2> QED
    BY <2>3, <2>4, <2>5, <2>6 DEF MidiInv, WingsMatchPatch, FirstWings
<1>2. DmxInv
  <2>1. dmx = [u \in 0 .. universe_count(patch) - 1 |-> offline]
    BY DEF Init
  <2>2. DOMAIN dmx = 0 .. universe_count(patch) - 1
        /\ \A u \in DOMAIN dmx : dmx[u] = [port |-> Offline, drawn |-> {}]
    BY <2>1 DEF offline
  <2> QED
    BY <1>0, <2>2, UniversesCount
       DEF DmxInv, UniversesServePatch, NoGhostOutput
<1> QED
  BY <1>1, <1>2

(* Show::new establishes the invariant.                                    *)
LEMMA InitInv == Init => IInv
<1> SUFFICES ASSUME Init PROVE IInv
  OBVIOUS
<1>0. patch \in Patches
  BY DEF Init
<1>1. LoopOK
  <2>1. /\ pc = "top" /\ dirty = {} /\ shutdown = FALSE
        /\ mailbox = <<>> /\ client = [c \in Clients |-> "idle"]
    BY DEF Init
  <2>2. <<>> \in Seq(Message)
    OBVIOUS
  <2> QED
    BY <2>1, <2>2 DEF LoopOK
<1>2. SelectionInv
  <2>1. groups \in [DOMAIN patch.uses -> GroupState]
    BY DefaultsAssumption DEF Init, FreshGroup, GroupState
  <2>2. CurrentInPatch /\ current \in Nat \cup {NoChannel}
    BY <1>0, Resolved, ChannelsTyped DEF Init, CurrentInPatch
  <2>3. DOMAIN surface = {"selected", "shows"}
    BY DEF Init, refresh_ui, emitted, DarkSurface
  <2>4. strobe = NoChannel /\ gui.patch = patch /\ gui.strobe = FALSE
        /\ DOMAIN gui = {"patch", "midi", "internal", "ports", "strobe"}
    BY DEF Init
  <2> QED
    BY <1>0, <2>1, <2>2, <2>3, <2>4
       DEF SelectionInv, ShowOK, StrobeFaderFree, ViewsOK
<1>3. SnapInv
  BY DEF Init, SnapInv
<1>4. SurfaceCurrent
  <2>1. surface = refresh_ui(DarkSurface, patch, current, groups)
    BY DEF Init
  <2>2. DOMAIN DarkSurface = {"selected", "shows"}
    BY DEF DarkSurface
  <2> QED
    BY <2>1, <2>2, Refreshed DEF SurfaceCurrent, Shown
<1> QED
  BY <1>1, <1>2, <1>3, <1>4, InitDevices DEF IInv

(* Every step preserves the invariant.                                     *)
LEMMA NextInv == IInv /\ [Next]_vars => IInv'
<1> SUFFICES ASSUME IInv, [Next]_vars PROVE IInv'
  OBVIOUS
<1>1. ShowOK
  BY DEF IInv, SelectionInv
<1> QED
  BY <1>1, LoopStep, SelectionStep, MidiStep, DmxStep, SnapStep, SurfaceStep
     DEF IInv

(* The invariant holds throughout.                                         *)
LEMMA Invariance == Spec => []IInv
BY InitInv, NextInv, PTL DEF Spec

(* What the invariant is for.                                              *)
LEMMA Consequences ==
  IInv => /\ TypeOK /\ CurrentInPatch /\ StrobeFaderFree /\ WingsMatchPatch
          /\ UniversesServePatch /\ NoGhostOutput /\ SnapshotsCurrent
          /\ SurfaceCurrent
<1> SUFFICES ASSUME IInv
             PROVE  /\ TypeOK /\ CurrentInPatch /\ StrobeFaderFree
                    /\ WingsMatchPatch /\ UniversesServePatch
                    /\ NoGhostOutput /\ SnapshotsCurrent /\ SurfaceCurrent
  OBVIOUS
<1>1. LoopOK /\ SelectionInv /\ MidiInv /\ DmxInv /\ SnapInv /\ SurfaceCurrent
  BY DEF IInv
<1>2. TypeOK
  BY <1>1 DEF TypeOK, SelectionInv, DevicesOK, MidiInv, SlotTyped, DmxInv
<1>3. SnapshotsCurrent
  BY <1>1 DEF SnapInv, SnapshotsCurrent
<1> QED
  BY <1>1, <1>2, <1>3 DEF SelectionInv, MidiInv, DmxInv

(***************************************************************************)
(* The theorems                                                            *)
(***************************************************************************)

(* The state has its type, and there are as many universes as the patch    *)
(* needs (Patch::universe_count, post_repatch).                            *)
THEOREM TypeCorrect == Spec => []TypeOK
BY Invariance, Consequences, PTL

(* Repatches and selections never leave the show on a channel that does    *)
(* not exist (Channels::reconcile_to_patch).                               *)
THEOREM SelectionValid == Spec => []CurrentInPatch
BY Invariance, Consequences, PTL

(* The master strobe never takes a fader that a group has                  *)
(* (resolve_strobe_channel, post_repatch).                                 *)
THEOREM StrobeNeverIntercepts == Spec => []StrobeFaderFree
BY Invariance, Consequences, PTL

(* There are always exactly the wings the show needs                       *)
(* (reconcile_submaster_wings, reconcile_clock_wing).                      *)
THEOREM WingsServeChannels == Spec => []WingsMatchPatch
BY Invariance, Consequences, PTL

(* No fixture renders out of bounds and no port serves two universes       *)
(* (universe_count, assign_dmx_port).                                      *)
THEOREM UniversesSuffice == Spec => []UniversesServePatch
BY Invariance, Consequences, PTL

(* What a group drew is gone from the universes it has left                *)
(* (post_repatch, render).                                                 *)
THEOREM NoGhosts == Spec => []NoGhostOutput
BY Invariance, Consequences, PTL

(* No handler forgets to mark what it has changed (StateDirty,             *)
(* snapshot_state).                                                        *)
THEOREM SnapshotsAgree == Spec => []SnapshotsCurrent
BY Invariance, Consequences, PTL

(* The surfaces follow the groups from channel to channel (refresh_ui).    *)
THEOREM SurfacesAgree == Spec => []SurfaceCurrent
BY Invariance, Consequences, PTL

(* A command that is answered with an error leaves no trace, because the   *)
(* slots of the wings are never refused (WingsServeChannels) once the      *)
(* patch or the clocks have been replaced (handle_meta_command,            *)
(* post_repatch).                                                          *)
THEOREM RefusalIsClean == Spec => RefusedChangesNothing
<1>1. IInv /\ [Next]_vars =>
        ((\E c \in Clients : client[c] = "waiting" /\ client'[c] = "error")
            => UNCHANGED <<show, devices, views>>)
  BY RefusedStep DEF IInv, SelectionInv
<1>2. IInv /\ [Next]_vars =>
        [(\E c \in Clients : client[c] = "waiting" /\ client'[c] = "error")
            => UNCHANGED <<show, devices, views>>]_vars
  BY <1>1
<1> QED
  BY <1>2, Invariance, PTL DEF Spec, RefusedChangesNothing
=============================================================================

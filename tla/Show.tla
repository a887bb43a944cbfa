-------------------------------- MODULE Show --------------------------------
(***************************************************************************)
(* The show thread (show.rs) with the parts it owns: the patch, the        *)
(* channel selection (channel.rs), the MIDI slots (control.rs,             *)
(* midi/slots.rs) and the DMX universes (dmx.rs); and around it the GUI    *)
(* and the other threads that command it through one mpsc channel and read *)
(* the snapshots it publishes (control.rs, gui_state.rs, ui_util.rs).      *)
(*                                                                         *)
(* Show::run is a loop of four steps: the shutdown check, the handling of  *)
(* at most one message, the publication of what that message made dirty,   *)
(* and the updates and the frame that time has made due.  The reply to a   *)
(* command leaves in the second step, before the snapshots are published.  *)
(*                                                                         *)
(* How a list of configurations becomes a patch is the subject of Patch;   *)
(* here a patch is a record [channels, uses]: the groups on channels, in   *)
(* order, and for every group the universes its fixtures are in.           *)
(***************************************************************************)
EXTENDS Integers, Sequences, FiniteSets, FiniteSetsExt

CONSTANTS
    Patches,        \* the patches the operator may ask for
    BadPatch,       \* a list of configurations that cannot be patched
    Positionable,   \* groups that have a positioner
    Presets,        \* contents of a group's positioner presets
    FreshPresets,   \* the contents nobody has edited
    Levels,         \* positions of a fader
    FadersPerWing,  \* faders on a submaster wing (8)
    PortNames,      \* DMX ports that can be assigned to a universe
    Offline,        \* the name of the offline port
    Models,         \* clock wing models
    DefaultModel,   \* DEFAULT_CLOCK_WING
    WingModel,      \* the model of a submaster wing
    Clients,        \* threads that send commands and wait for the reply
    Nobody,         \* a message without a reply channel
    NoChannel,      \* None, for a channel
    Commands,       \* the commands clients send
    Inputs,         \* the messages of OSC clients, MIDI devices, MIDI system
    MaxMailbox      \* bound: messages waiting in the control channel

ASSUME PatchesAssumption ==
    \A p \in Patches :
        /\ p.channels \in Seq(DOMAIN p.uses)
        /\ \A i, j \in DOMAIN p.channels :
            p.channels[i] = p.channels[j] => i = j
        /\ p.uses \in [DOMAIN p.uses -> SUBSET Nat]
        /\ IsFiniteSet(UNION {p.uses[g] : g \in DOMAIN p.uses})
ASSUME FadersAssumption == FadersPerWing \in Nat \ {0}
ASSUME DefaultsAssumption ==
    /\ Patches # {} /\ BadPatch \notin Patches
    /\ FreshPresets \in Presets /\ 0 \in Levels
    /\ DefaultModel \in Models
    /\ NoChannel \notin Nat /\ Nobody \notin Clients
ASSUME BoundAssumption == MaxMailbox \in Nat \ {0}

Wing(k) == <<"Submaster Wing", k>>
ClockWing == <<"Clock Wing", 0>>
Slots == ({"Submaster Wing"} \X Nat) \cup {ClockWing}

(***************************************************************************)
(* Messages.  The commands that only emit state to the surfaces are one    *)
(* kind, RefreshUI, and the edits of a positioner another.                 *)
(***************************************************************************)
ASSUME MessagesAssumption ==
    Commands \cup Inputs \subseteq
        [kind : {"Repatch"}, patch : Patches \cup {BadPatch}]
            \cup [kind : {"AssignDmxPort"}, universe : Nat,
                  port : PortNames \cup {Offline}]
            \cup [kind : {"SetMidiPort", "MidiDeviceChange"}, slot : Slots,
                  connected : BOOLEAN]
            \cup [kind : {"SetClockWingModel"}, model : Models]
            \cup [kind : {"SetMasterStrobeChannel"}, enable : BOOLEAN]
            \cup [kind : {"PositionerEdit"}, presets : Presets]
            \cup [kind : {"SelectChannel"}, channel : Nat]
            \cup [kind : {"Control"}, midi : BOOLEAN, level : Levels,
                  channel : Nat \cup {NoChannel}]
            \cup [kind : {"UseClockService", "UseInternalClocks",
                          "RefreshUI"}]

VARIABLES
    pc,        \* "top", "control", "snapshot", "update" or "gone"
    dirty,     \* the StateDirty flags that control returned
    shutdown,  \* Shutdown::triggered
    mailbox,   \* messages in the control channel
    client,    \* "waiting" in send_command, or how the last one ended
    patch, current, strobe,  \* patch, current_channel, master_strobe_channel
    groups,    \* group |-> [level, presets]
    internal,  \* the clocks are internal
    midi,      \* slot |-> [model, connected]
    dmx,       \* universe |-> [port, drawn]: the groups rendered into it
    saved,     \* the last show file submitted to the saver
    gui,       \* the snapshots published to the GUI
    surface    \* what the OSC surfaces show of the channels

loop == <<pc, dirty>>
mail == <<mailbox, client>>
show == <<patch, current, strobe, groups>>
devices == <<internal, midi, dmx>>
views == <<saved, gui, surface>>
vars == <<loop, shutdown, mail, show, devices, views>>

(***************************************************************************)
(* The patch, and what is derived from it                                  *)
(***************************************************************************)
channel_count(p) == Len(p.channels)
channel_ids(p) == 0 .. channel_count(p) - 1
group_at(p, ch) == p.channels[ch + 1]
first_channel(p) == IF channel_count(p) > 0 THEN 0 ELSE NoChannel

used_universes(p) == UNION {p.uses[g] : g \in DOMAIN p.uses}

universe_count(p) ==
    IF used_universes(p) = {} THEN 1 ELSE Max(used_universes(p)) + 1

submaster_wing_count(n) ==
    IF n = 0 THEN 1 ELSE (n + FadersPerWing - 1) \div FadersPerWing

strobe_control_channel(n) == submaster_wing_count(n) * FadersPerWing - 1

\* Mutant: a fader that a group has is not refused.
resolve_strobe_channel_Occupied(p) ==
    strobe_control_channel(channel_count(p))

resolve_strobe_channel(p) ==
    LET ch == strobe_control_channel(channel_count(p))
    IN  IF ch < channel_count(p) THEN NoChannel ELSE ch

\* Mutant: `<=` for `<`.
reconcile_to_patch_OffByOne(ch, p) ==
    IF ch \in 0 .. channel_count(p) THEN ch ELSE first_channel(p)

\* Channels::reconcile_to_patch
reconcile_to_patch(ch, p) ==
    IF ch \in channel_ids(p) THEN ch ELSE first_channel(p)

FreshGroup == [level |-> 0, presets |-> FreshPresets]

\* The groups of p, each with the state of the group of the same id, if any.
\* (A group that changes its type or options starts afresh, so it counts as
\* another group here; Patch tells the two apart.)
carried_over(p, old) ==
    [g \in DOMAIN p.uses |->
        IF g \in DOMAIN old THEN old[g] ELSE FreshGroup]

(***************************************************************************)
(* MIDI slots                                                              *)
(***************************************************************************)
slot(model) == [model |-> model, connected |-> FALSE]

submaster_wings(slots) == {s \in DOMAIN slots : s[1] = "Submaster Wing"}

\* midi_harness, which is external, knows the slots by their names: it refuses
\* to add one that is there and to remove one that is not, and nothing else
\* ("Add a slot without connecting hardware", midi/mod.rs:157).
add_slot(slots, s, model) ==
    [refused |-> {s} \cap DOMAIN slots,
     slots |-> [t \in DOMAIN slots \cup {s} |->
                  IF t \in DOMAIN slots THEN slots[t] ELSE slot(model)]]
remove_slot(slots, s) ==
    [refused |-> {s} \ DOMAIN slots,
     slots |-> [t \in DOMAIN slots \ {s} |-> slots[t]]]

\* Wings are added in ascending and removed in descending order, until one is
\* refused: what has been done by then stays done.
wings_changed(slots, adds, removes) ==
    LET wings(numbers) == {Wing(k) : k \in numbers}
        added   == wings({k \in adds :
                    \A j \in adds : j <= k => Wing(j) \notin DOMAIN slots})
        removed == wings({k \in removes :
                    \A j \in removes : j >= k => Wing(j) \in DOMAIN slots})
    IN  [refused |-> (wings(adds) \cap DOMAIN slots)
                        \cup (wings(removes) \ DOMAIN slots),
         slots |-> [s \in (DOMAIN slots \cup added) \ removed |->
                      IF s \in added THEN slot(WingModel) ELSE slots[s]]]

\* Mutant: the removal starts one slot late.
reconcile_submaster_wings_OffByOne(slots, n) ==
    LET desired == submaster_wing_count(n)
        have    == Cardinality(submaster_wings(slots))
    IN  wings_changed(slots, have + 1 .. desired, desired + 2 .. have)

\* Mutant: the wings that are too many are removed from the front.
reconcile_submaster_wings_FromFront(slots, n) ==
    LET desired == submaster_wing_count(n)
        have    == Cardinality(submaster_wings(slots))
    IN  wings_changed(slots, have + 1 .. desired, 1 .. have - desired)

\* The slots are counted, not looked up, and wings are added or removed at
\* the end.
reconcile_submaster_wings(slots, n) ==
    LET desired == submaster_wing_count(n)
        have    == Cardinality(submaster_wings(slots))
    IN  wings_changed(slots, have + 1 .. desired, desired + 1 .. have)

\* A wing of another model is removed and then added.
reconcile_clock_wing(slots, needed, model) ==
    LET there   == ClockWing \in DOMAIN slots
        removal == remove_slot(slots, ClockWing)
    IN  CASE needed /\ ~there -> add_slot(slots, ClockWing, model)
          [] needed /\ there /\ slots[ClockWing].model # model ->
                IF removal.refused = {}
                THEN add_slot(removal.slots, ClockWing, model) ELSE removal
          [] ~needed /\ there -> removal
          [] OTHER -> [refused |-> {}, slots |-> slots]

\* Show::reconcile_clock_wing keeps the model of the wing there is.
clock_wing_model(slots) ==
    IF ClockWing \in DOMAIN slots THEN slots[ClockWing].model
    ELSE DefaultModel

(***************************************************************************)
(* DMX universes, and what leaves the show thread                          *)
(***************************************************************************)
offline == [port |-> Offline, drawn |-> {}]

\* Mutant: the frames keep what was drawn.
resized_NotCleared(universes, n) ==
    [u \in 0 .. n - 1 |->
        IF u \in DOMAIN universes THEN universes[u] ELSE offline]

\* The universes post_repatch leaves: as many as the patch needs, all dark.
resized(universes, n) ==
    [u \in 0 .. n - 1 |->
        IF u \in DOMAIN universes
        THEN [universes[u] EXCEPT !.drawn = {}]
        ELSE offline]

port_status(universes) == [u \in DOMAIN universes |-> universes[u].port]

show_file(p, state) ==
    [patch |-> p,
     positioners |-> [g \in DOMAIN p.uses \cap Positionable |->
                        state[g].presets]]

(***************************************************************************)
(* A surface shows a selected channel and, per channel, a level and whose  *)
(* it is.  It is told of channels one by one: what it is not told of       *)
(* stays.  (The labels are always sent together, blanks included.)         *)
(***************************************************************************)
DarkSurface == [selected |-> NoChannel, shows |-> [c \in {} |-> c]]

emitted(s, chs, p, state) ==
    [s EXCEPT !.shows = [c \in DOMAIN @ \cup chs |->
        IF c \in chs
        THEN [group |-> group_at(p, c), level |-> state[group_at(p, c)].level]
        ELSE @[c]]]

\* StateChange::Clear: nothing is sent to OSC.
cleared(s) == s

\* Mutant: only the selected channel is refreshed.
refresh_ui_SelectedOnly(s, p, ch, state) ==
    IF ch = NoChannel THEN s
    ELSE [emitted(s, {ch}, p, state) EXCEPT !.selected = ch]

refresh_ui(s, p, ch, state) ==
    [emitted(s, channel_ids(p), p, state) EXCEPT
        !.selected = IF ch = NoChannel THEN @ ELSE ch]

(***************************************************************************)
(* Show::new                                                               *)
(***************************************************************************)
Init ==
    /\ patch \in Patches
    /\ current = first_channel(patch) /\ strobe = NoChannel
    /\ groups = [g \in DOMAIN patch.uses |-> FreshGroup]
    /\ internal = TRUE
    /\ midi = reconcile_clock_wing(
                reconcile_submaster_wings([s \in {} |-> s],
                                          channel_count(patch)).slots,
                TRUE, DefaultModel).slots
    /\ dmx = [u \in 0 .. universe_count(patch) - 1 |-> offline]
    /\ saved = show_file(patch, groups)
    /\ gui = [patch |-> patch, midi |-> midi, internal |-> internal,
              ports |-> port_status(dmx), strobe |-> FALSE]
    /\ surface = refresh_ui(DarkSurface, patch, current, groups)
    /\ pc = "top" /\ dirty = {} /\ shutdown = FALSE
    /\ mailbox = <<>> /\ client = [c \in Clients |-> "idle"]

(***************************************************************************)
(* The other threads                                                       *)
(***************************************************************************)
send_command(c, cmd) ==
    /\ client[c] # "waiting" /\ pc # "gone" /\ Len(mailbox) < MaxMailbox
    /\ mailbox' = Append(mailbox, [cmd |-> cmd, from |-> c])
    /\ client' = [client EXCEPT ![c] = "waiting"]
    /\ UNCHANGED <<loop, shutdown, show, devices, views>>

\* The receiver is gone: the send itself fails.
send_command_fails(c) ==
    /\ client[c] # "waiting" /\ pc = "gone"
    /\ client' = [client EXCEPT ![c] = "disconnected"]
    /\ UNCHANGED <<loop, shutdown, mailbox, show, devices, views>>

Input(msg) ==
    /\ pc # "gone" /\ Len(mailbox) < MaxMailbox
    /\ mailbox' = Append(mailbox, [cmd |-> msg, from |-> Nobody])
    /\ UNCHANGED <<loop, shutdown, client, show, devices, views>>

trigger ==
    /\ shutdown' = TRUE
    /\ UNCHANGED <<loop, mail, show, devices, views>>

(***************************************************************************)
(* Show::run: the check that opens the loop, and an empty mailbox          *)
(***************************************************************************)
\* Mutant: the messages that are waiting are handled first.
triggered_Drained == shutdown /\ mailbox = <<>>

triggered == shutdown

ControlNext ==
    /\ pc = "top" /\ ~triggered /\ pc' = "control"
    /\ UNCHANGED <<dirty, shutdown, mail, show, devices, views>>

\* The Show is dropped: with it go the receiver, the messages in it and the
\* reply channels in them.
Exit ==
    /\ pc = "top" /\ triggered
    /\ pc' = "gone" /\ mailbox' = <<>>
    /\ client' = [c \in Clients |->
            IF client[c] = "waiting" THEN "disconnected" ELSE client[c]]
    /\ UNCHANGED <<dirty, shutdown, show, devices, views>>

RecvTimeout ==
    /\ pc = "control" /\ mailbox = <<>>
    /\ pc' = "update" /\ dirty' = {}
    /\ UNCHANGED <<shutdown, mail, show, devices, views>>

(***************************************************************************)
(* Show::control: take a message, act on it, answer whoever waits for it   *)
(***************************************************************************)
Takes(kind) ==
    pc = "control" /\ mailbox # <<>> /\ Head(mailbox).cmd.kind = kind

cmd == Head(mailbox).cmd

\* Mutant: an error is logged, as it is without a reply channel.
answered_OkOnly(result) ==
    LET from == Head(mailbox).from
    IN  IF from = Nobody \/ result = "error" THEN client
        ELSE [client EXCEPT ![from] = result]

answered(result) ==
    LET from == Head(mailbox).from
    IN  IF from = Nobody THEN client ELSE [client EXCEPT ![from] = result]

Accept(flags) ==
    /\ mailbox' = Tail(mailbox) /\ client' = answered("ok")
    /\ dirty' = flags
    /\ pc' = IF flags = {} THEN "update" ELSE "snapshot"
    /\ UNCHANGED shutdown

\* An error is answered, and nothing is published.
Fail ==
    /\ mailbox' = Tail(mailbox) /\ client' = answered("error")
    /\ dirty' = {} /\ pc' = "update"
    /\ UNCHANGED shutdown

Refuse == Fail /\ UNCHANGED <<show, devices, views>>

\* Patch::repatch, the patch snapshot, and post_repatch.  If a wing is refused,
\* the patch is live and the surfaces and universes are those of the old one.
Repatch ==
  LET wings == reconcile_submaster_wings(midi, channel_count(cmd.patch)) IN
    /\ Takes("Repatch") /\ cmd.patch # BadPatch
    /\ patch' = cmd.patch
    /\ groups' = carried_over(patch', groups)
    /\ current' = reconcile_to_patch(current, patch')
    /\ strobe' = IF strobe = NoChannel THEN NoChannel
                 ELSE resolve_strobe_channel(patch')
    /\ gui' = [gui EXCEPT !.patch = patch',
                          !.strobe = strobe' # NoChannel]
    /\ midi' = wings.slots
    /\ IF wings.refused = {}
       THEN /\ surface' = refresh_ui(cleared(surface), patch', current', groups')
            /\ dmx' = resized(dmx, universe_count(patch'))
            /\ Accept({"MIDI_SLOTS", "DMX_PORTS", "SHOW_FILE"})
       ELSE surface' = cleared(surface) /\ UNCHANGED dmx /\ Fail
    /\ UNCHANGED <<internal, saved>>

RepatchRefused == Takes("Repatch") /\ cmd.patch = BadPatch /\ Refuse

GUI_ALL == {"MIDI_SLOTS", "CLOCK_STATE", "DMX_PORTS"}

RefreshUI ==
    /\ Takes("RefreshUI")
    /\ surface' = refresh_ui(surface, patch, current, groups)
    /\ Accept(GUI_ALL)
    /\ UNCHANGED <<show, devices, saved, gui>>

\* Mutant: a port may serve two universes.
PortRefused_Shared == cmd.universe \notin DOMAIN dmx

\* assign_dmx_port
PortRefused ==
    \/ cmd.universe \notin DOMAIN dmx
    \/ cmd.port # Offline
        /\ \E u \in DOMAIN dmx : u # cmd.universe /\ dmx[u].port = cmd.port

AssignDmxPort ==
    /\ Takes("AssignDmxPort") /\ ~PortRefused
    /\ dmx' = [dmx EXCEPT ![cmd.universe] =
                    [port |-> cmd.port, drawn |-> {}]]
    /\ Accept({"DMX_PORTS"})
    /\ UNCHANGED <<show, internal, midi, views>>

\* A port other than the offline one may also fail to open.
AssignDmxPortRefused ==
    Takes("AssignDmxPort") /\ (PortRefused \/ cmd.port # Offline) /\ Refuse

\* ClearMidiDevice and ConnectMidiPort.
SetMidiPort ==
    /\ Takes("SetMidiPort") /\ cmd.slot \in DOMAIN midi
    /\ midi' = [midi EXCEPT ![cmd.slot].connected = cmd.connected]
    /\ surface' = refresh_ui(surface, patch, current, groups)
    /\ Accept({"MIDI_SLOTS"})
    /\ UNCHANGED <<show, internal, dmx, saved, gui>>

\* The slot may be gone; a port to connect may be, too.
SetMidiPortRefused ==
    /\ Takes("SetMidiPort") /\ (cmd.slot \notin DOMAIN midi \/ cmd.connected)
    /\ Refuse

\* A device of a slot comes or goes.  The surfaces are refreshed only when it
\* is an output that came back.
MidiDeviceChange ==
    /\ Takes("MidiDeviceChange") /\ cmd.slot \in DOMAIN midi
    /\ midi' = [midi EXCEPT ![cmd.slot].connected = cmd.connected]
    /\ surface' \in {surface, refresh_ui(surface, patch, current, groups)}
    /\ Accept({"MIDI_SLOTS"})
    /\ UNCHANGED <<show, internal, dmx, saved, gui>>

\* A device of no slot, or of one that was removed.
MidiDeviceIgnored ==
    /\ Takes("MidiDeviceChange") /\ cmd.slot \notin DOMAIN midi
    /\ Accept({"MIDI_SLOTS"})
    /\ UNCHANGED <<show, devices, views>>

\* Mutant: the flag of the MIDI slots is forgotten.
UseClocks_NoFlag(inside) ==
  LET wing == reconcile_clock_wing(midi, inside, clock_wing_model(midi)) IN
    /\ internal' = inside
    /\ midi' = wing.slots
    /\ IF wing.refused = {}
       THEN /\ surface' = refresh_ui(surface, patch, current, groups)
            /\ Accept({"CLOCK_STATE"})
       ELSE UNCHANGED surface /\ Fail
    /\ UNCHANGED <<show, dmx, saved, gui>>

UseClocks(inside) ==
  LET wing == reconcile_clock_wing(midi, inside, clock_wing_model(midi)) IN
    /\ internal' = inside
    /\ midi' = wing.slots
    /\ IF wing.refused = {}
       THEN /\ surface' = refresh_ui(surface, patch, current, groups)
            /\ Accept({"MIDI_SLOTS", "CLOCK_STATE"})
       ELSE UNCHANGED surface /\ Fail
    /\ UNCHANGED <<show, dmx, saved, gui>>

UseClockService == Takes("UseClockService") /\ UseClocks(FALSE)

UseInternalClocks == Takes("UseInternalClocks") /\ UseClocks(TRUE)

\* The audio device cannot be opened.
UseInternalClocksRefused == Takes("UseInternalClocks") /\ Refuse

SetClockWingModel ==
  LET wing == reconcile_clock_wing(midi, internal, cmd.model) IN
    /\ Takes("SetClockWingModel")
    /\ midi' = wing.slots
    /\ IF wing.refused = {} THEN Accept({"MIDI_SLOTS"}) ELSE Fail
    /\ UNCHANGED <<show, internal, dmx, views>>

SetMasterStrobeChannel ==
    LET ch == IF cmd.enable THEN resolve_strobe_channel(patch) ELSE NoChannel
    IN  /\ Takes("SetMasterStrobeChannel")
        /\ cmd.enable => ch # NoChannel
        /\ strobe' = ch
        /\ gui' = [gui EXCEPT !.strobe = ch # NoChannel]
        /\ Accept({})
        /\ UNCHANGED <<patch, current, groups, devices, saved, surface>>

SetMasterStrobeChannelRefused ==
    /\ Takes("SetMasterStrobeChannel") /\ cmd.enable
    /\ resolve_strobe_channel(patch) = NoChannel
    /\ Refuse

\* RenamePositionerPreset, and the OSC controls that edit a preset.
PositionerEdit ==
    /\ Takes("PositionerEdit")
    /\ current # NoChannel /\ group_at(patch, current) \in Positionable
    /\ groups' = [groups EXCEPT ![group_at(patch, current)].presets =
                        cmd.presets]
    /\ Accept({"SHOW_FILE"})
    /\ UNCHANGED <<patch, current, strobe, devices, views>>

PositionerEditIgnored ==
    /\ Takes("PositionerEdit")
    /\ current # NoChannel => group_at(patch, current) \notin Positionable
    /\ Accept({})
    /\ UNCHANGED <<show, devices, views>>

(***************************************************************************)
(* Messages of the surfaces.  Their channels are raw numbers.              *)
(***************************************************************************)
SelectChannel ==
    LET ch == cmd.channel
    IN  /\ Takes("SelectChannel")
        /\ ch \in channel_ids(patch) /\ ch # current
        /\ current' = ch
        /\ surface' = [emitted(surface, {ch}, patch, groups) EXCEPT
                        !.selected = ch]
        /\ Accept({})
        /\ UNCHANGED <<patch, strobe, groups, devices, saved, gui>>

SelectIgnored ==
    /\ Takes("SelectChannel")
    /\ cmd.channel \notin channel_ids(patch) \/ cmd.channel = current
    /\ Accept({})
    /\ UNCHANGED <<show, devices, views>>

\* Only the MIDI path looks for the strobe fader.
ToStrobe == cmd.midi /\ strobe # NoChannel /\ cmd.channel = strobe

Target == IF cmd.channel = NoChannel THEN current ELSE cmd.channel

ControlGroup ==
    LET g == group_at(patch, Target)
    IN  /\ Takes("Control") /\ ~ToStrobe
        /\ Target \in channel_ids(patch)
        /\ groups' = [groups EXCEPT ![g].level = cmd.level]
        /\ surface' = emitted(surface, {Target}, patch, groups')
        /\ Accept({})
        /\ UNCHANGED <<patch, current, strobe, devices, saved, gui>>

\* The master strobe takes the fader, or the channel is out of range.
ControlElsewhere ==
    /\ Takes("Control") /\ cmd.channel # NoChannel
    /\ ToStrobe \/ cmd.channel \notin channel_ids(patch)
    /\ Accept({})
    /\ UNCHANGED <<show, devices, views>>

ControlRefused == Takes("Control") /\ Target = NoChannel /\ Refuse

(***************************************************************************)
(* snapshot_state, and the updates and the frame that are due              *)
(***************************************************************************)
snapshot_state ==
    /\ pc = "snapshot"
    /\ saved' = IF "SHOW_FILE" \in dirty THEN show_file(patch, groups)
                ELSE saved
    /\ gui' = [gui EXCEPT
            !.midi = IF "MIDI_SLOTS" \in dirty THEN midi ELSE @,
            !.internal = IF "CLOCK_STATE" \in dirty THEN internal ELSE @,
            !.ports = IF "DMX_PORTS" \in dirty THEN port_status(dmx) ELSE @]
    /\ pc' = "update" /\ dirty' = {}
    /\ UNCHANGED <<shutdown, mail, show, devices, surface>>

NoUpdateDue ==
    /\ pc = "update" /\ pc' = "top"
    /\ UNCHANGED <<dirty, shutdown, mail, show, devices, views>>

\* "We don't bother to empty the buffer": what is drawn is added.
render ==
    /\ pc = "update" /\ pc' = "top"
    /\ dmx' = [u \in DOMAIN dmx |-> [dmx[u] EXCEPT
            !.drawn = @ \cup {g \in DOMAIN patch.uses : u \in patch.uses[g]}]]
    /\ UNCHANGED <<dirty, shutdown, mail, show, internal, midi, views>>

Stopped == pc = "gone" /\ UNCHANGED vars

(***************************************************************************)
(* The specification                                                       *)
(***************************************************************************)
Handle ==
    \/ Repatch \/ RepatchRefused \/ RefreshUI
    \/ AssignDmxPort \/ AssignDmxPortRefused
    \/ SetMidiPort \/ SetMidiPortRefused
    \/ MidiDeviceChange \/ MidiDeviceIgnored
    \/ UseClockService \/ UseInternalClocks \/ UseInternalClocksRefused
    \/ SetClockWingModel
    \/ SetMasterStrobeChannel \/ SetMasterStrobeChannelRefused
    \/ PositionerEdit \/ PositionerEditIgnored
    \/ SelectChannel \/ SelectIgnored
    \/ ControlGroup \/ ControlElsewhere \/ ControlRefused

ShowThread ==
    \/ ControlNext \/ Exit \/ RecvTimeout \/ Handle
    \/ snapshot_state \/ NoUpdateDue \/ render

Next ==
    \/ \E c \in Clients : \E m \in Commands : send_command(c, m)
    \/ \E c \in Clients : send_command_fails(c)
    \/ \E m \in Inputs : Input(m)
    \/ trigger \/ ShowThread \/ Stopped

Spec == Init /\ [][Next]_vars

\* The show thread is scheduled.
FairSpec == Spec /\ WF_vars(ShowThread)

-----------------------------------------------------------------------------
(***************************************************************************)
(* Properties                                                              *)
(***************************************************************************)
GroupIds == UNION {DOMAIN p.uses : p \in Patches}
GroupState == [level : Levels, presets : Presets]

Message == [cmd : Commands \cup Inputs, from : Clients \cup {Nobody}]

LoopOK ==
    /\ pc \in {"top", "control", "snapshot", "update", "gone"}
    /\ dirty \in SUBSET (GUI_ALL \cup {"SHOW_FILE"})
    /\ shutdown \in BOOLEAN
    /\ mailbox \in Seq(Message)
    /\ client \in [Clients -> {"idle", "waiting", "ok", "error",
                               "disconnected"}]

ShowOK ==
    /\ patch \in Patches
    /\ current \in Nat \cup {NoChannel} /\ strobe \in Nat \cup {NoChannel}
    /\ groups \in [DOMAIN patch.uses -> GroupState]

DevicesOK ==
    /\ internal \in BOOLEAN
    /\ DOMAIN midi \subseteq Slots
    /\ \A s \in DOMAIN midi :
        midi[s] \in [model : Models \cup {WingModel}, connected : BOOLEAN]
    /\ DOMAIN dmx = 0 .. universe_count(patch) - 1
    /\ \A u \in DOMAIN dmx :
        dmx[u] \in [port : PortNames \cup {Offline}, drawn : SUBSET GroupIds]

ViewsOK ==
    /\ DOMAIN gui = {"patch", "midi", "internal", "ports", "strobe"}
    /\ gui.patch \in Patches /\ gui.strobe \in BOOLEAN
    /\ DOMAIN surface = {"selected", "shows"}

(* The state has its type; every device table is as long as it should be.  *)
TypeOK == LoopOK /\ ShowOK /\ DevicesOK /\ ViewsOK

(* The selected channel is one of the patch, and there is one whenever the *)
(* patch has channels, whatever repatches and selections have come, in     *)
(* whatever order.  Its failure is PI-002 at every animation control and   *)
(* every refresh.                                                          *)
CurrentInPatch ==
    IF channel_count(patch) = 0 THEN current = NoChannel
    ELSE current \in channel_ids(patch)

(* The master strobe takes the last fader of the last wing, and only while *)
(* no group has that fader: no group's level is ever intercepted.  The GUI *)
(* shows whether it is mapped.                                             *)
StrobeFaderFree ==
    /\ strobe # NoChannel =>
        /\ strobe = strobe_control_channel(channel_count(patch))
        /\ strobe \notin channel_ids(patch)
    /\ gui.strobe = (strobe # NoChannel)

(* The submaster wings are exactly the first ones the channels need, so    *)
(* that counting them is as good as looking them up, and there is a clock  *)
(* wing exactly when the clocks are internal.                              *)
WingsMatchPatch ==
    /\ submaster_wings(midi) =
        {Wing(k) : k \in 1 .. submaster_wing_count(channel_count(patch))}
    /\ ClockWing \in DOMAIN midi <=> internal

(* Every universe a fixture is patched in exists when a frame is rendered  *)
(* (PI-004), and no two universes write to the same port.                  *)
UniversesServePatch ==
    /\ used_universes(patch) \subseteq DOMAIN dmx
    /\ \A u, v \in DOMAIN dmx :
        u # v /\ dmx[u].port # Offline => dmx[u].port # dmx[v].port

(* The frames are never emptied, yet a universe never holds the output of  *)
(* a group that is no longer patched in it.                                *)
NoGhostOutput ==
    \A u \in DOMAIN dmx :
        \A g \in dmx[u].drawn :
            g \in DOMAIN patch.uses /\ u \in patch.uses[g]

(* When an iteration of the loop begins, everything the GUI reads and the  *)
(* show file last submitted agree with the show: no handler forgets the    *)
(* flag of a domain it has changed.                                        *)
SnapshotsCurrent ==
    pc \in {"top", "control"} =>
        /\ gui.patch = patch /\ gui.midi = midi /\ gui.internal = internal
        /\ gui.ports = port_status(dmx)
        /\ saved = show_file(patch, groups)

(* The surfaces show the selected channel and, at every channel there is,  *)
(* the group that has it now and the level that group has now, however     *)
(* repatches have moved groups from channel to channel.                    *)
SurfaceCurrent ==
    /\ current # NoChannel => surface.selected = current
    /\ \A ch \in channel_ids(patch) :
        /\ ch \in DOMAIN surface.shows
        /\ surface.shows[ch] =
            [group |-> group_at(patch, ch),
             level |-> groups[group_at(patch, ch)].level]

(* A command that is answered with an error has changed nothing.  Some     *)
(* handlers fail before they change anything; others could fail after it:  *)
(* the wings are reconciled when the patch is live (show.rs:354), the clock *)
(* wing when the clocks are replaced (show.rs:271, 277) or the old wing is *)
(* gone (show.rs:283).  But as the wings there are are always the first    *)
(* ones, no slot is ever refused there.                                    *)
RefusedChangesNothing ==
    [][(\E c \in Clients : client[c] = "waiting" /\ client'[c] = "error")
        => UNCHANGED <<show, devices, views>>]_vars

(* Nobody waits for ever for the answer to a command: the show gives one,  *)
(* or drops the reply channel when it stops.                               *)
CommandsAnswered ==
    \A c \in Clients : client[c] = "waiting" ~> client[c] # "waiting"

(* A show that is told to stop stops, however many messages keep coming.   *)
ShutdownStops == shutdown ~> pc = "gone"
=============================================================================

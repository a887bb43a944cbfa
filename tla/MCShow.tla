------------------------------ MODULE MCShow ------------------------------
(***************************************************************************)
(* Instances of Show with wings of two faders.  The patches reorder, add   *)
(* and drop groups: with no channel or one there is a free fader for the   *)
(* master strobe, with two there is none, with three there is one on the   *)
(* second wing.  The groups need one, two or three universes.              *)
(***************************************************************************)
EXTENDS Show

Patch(channels, uses) == [channels |-> channels, uses |-> uses]

Empty == Patch(<<>>, [g \in {} |-> {}])
One   == Patch(<<"a">>, [g \in {"a"} |-> {0}])
Two   == Patch(<<"b", "a">>,
               [g \in {"a", "b"} |-> IF g = "a" THEN {1} ELSE {0}])
Three == Patch(<<"a", "c", "b">>,
               [g \in {"a", "b", "c"} |-> IF g = "c" THEN {0, 2} ELSE {0}])
\* b is still patched, but has no channel any more.
Aside == Patch(<<"c">>, [g \in {"b", "c"} |-> {0}])

MCPatches == {Empty, One, Two, Three}
SmallPatches == {Empty, Two, Aside}

Repatches(patches) ==
    [kind : {"Repatch"}, patch : patches \cup {BadPatch}]
Faders(channels) ==
    [kind : {"Control"}, midi : {TRUE}, level : Levels, channel : channels]
        \cup [kind : {"Control"}, midi : {FALSE}, level : {0}, channel : {1}]

(***************************************************************************)
(* Patching against selections, faders, the master strobe and presets      *)
(***************************************************************************)
PatchCommands ==
    Repatches(MCPatches)
        \cup [kind : {"SetMasterStrobeChannel"}, enable : BOOLEAN]
PatchInputs ==
    [kind : {"SelectChannel"}, channel : {0, 2}]
        \cup Faders({0, 1, 3, NoChannel})
        \cup [kind : {"PositionerEdit"}, presets : Presets]

(***************************************************************************)
(* Patching against ports, MIDI devices and clocks                         *)
(***************************************************************************)
DeviceCommands ==
    Repatches(MCPatches)
        \cup [kind : {"AssignDmxPort"}, universe : 0 .. 2,
              port : PortNames \cup {Offline}]
        \cup [kind : {"SetMidiPort"}, slot : {Wing(2), ClockWing},
              connected : BOOLEAN]
        \cup [kind : {"SetClockWingModel"}, model : Models]
        \cup [kind : {"UseClockService", "UseInternalClocks", "RefreshUI"}]
DeviceInputs ==
    [kind : {"MidiDeviceChange"}, slot : {Wing(2)}, connected : BOOLEAN]

(***************************************************************************)
(* Two clients and a surface that never stops sending                      *)
(***************************************************************************)
LiveCommands ==
    Repatches({Two, Aside})
        \cup [kind : {"SetMasterStrobeChannel"}, enable : {TRUE}]
        \cup [kind : {"UseInternalClocks"}]
LiveInputs == Faders({NoChannel})
LivePatches == {Two, Aside}
=============================================================================

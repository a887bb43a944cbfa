# COBRA COMMANDER in TLA+

COBRA COMMANDER is a lighting console.  One *show thread* owns the patch, the
live state of every fixture group, the MIDI slots and the DMX universes; around
it the configuration GUI, OSC and MIDI input threads, a show-file saver and an
OSC sender talk to it through channels.  This directory holds TLA+ modules of
its core, the TLC runs that check them and TLAPS proofs about them.

Paths are relative to the repository; `show.rs` alone means `src/show.rs`.

    tlc -workers 2 -config MCShow.cfg MCShow     # a run
    tlapm ShowProofs.tla                         # the proofs of a module

## 1. The system

| Component | State it keeps | Operations | Talks to |
|---|---|---|---|
| Show thread (`show.rs`, `control.rs`) | patch, selected channel, master strobe channel, clocks, DMX universes, the controller | one message per loop iteration, snapshots, updates every 25.3 ms (`UPDATE_INTERVAL`), a frame | everyone: receives from one mpsc channel, answers commands, publishes snapshots |
| Patch (`fixture/patch/`, `fixture/group.rs`, `config.rs`) | groups on channels and aside, `by_id`, `by_name`, `used_addrs`, configs | `patch_all`, `repatch`, lookups | called by the show thread only |
| Channels (`channel.rs`, `osc/channels.rs`) | the selected channel | select, per-channel controls, reconcile, refresh | patch, OSC surfaces |
| MIDI slots (`control.rs`, `midi/`) | slot, model, connection | add and remove wings, connect, device appears and disappears | driver callbacks to the control channel |
| DMX universes (`dmx.rs`) | port and frame of every universe | assign, resize, render | patch |
| GUI snapshots (`gui_state.rs`, `ui_util.rs`) | one atomic pointer per domain, dirty flags | publish, read | show thread writes, GUI reads |
| Show file and saver (`show_file.rs`, `show_saver.rs`) | a throttle, the held-back request, the file | submit, write, flush when dropped | show thread to a thread of its own to the disk |
| Positioner (`positioner.rs`) | eight presets of per-fixture offsets, the selected fixture | nudges, presets, reconcile to fixture count | group, OSC |
| OSC (`osc/`) | client list, pending socket | register, drop, listen, send, swap socket | two threads, control channel |
| Workers (`worker.rs`, and every body passed to `worker::spawn`, the watch of the local address in `local_ip_watch.rs` included) | shutdown flag, registry of handles | spawn, trigger, join with a deadline | all threads |
| Network fixtures (`wled.rs`, `fixture/profile/wled.rs`, `fixture/profile/lumitone.rs`) | a channel per fixture, what waits to be sent, the connection | post, thin out, send, retry | controls on the show thread, one or two threads each, a device |
| Clocks, clock service (`clocks.rs`, `clock_service.rs`) | internal clocks or a remote's shared data | switch, subscribe | show thread, a thread per service |
| Strobe, master (`strobe.rs`, `master.rs`) | clock, the flash of every group | tick, flash now, distribute, control | patch, show thread |
| Animation (`animation.rs`) | the animator selected per channel number | control | patch, show thread |
| Configuration GUI (`config_gui/`) | working copies of what it edits | commands, blocking on the answer | show thread |
| Fixture profiles (`fixture/profile/`, `fixture/control/`) | values of their controls; the Moonraker's rotation, the Comet's steps, the arrays of cells | control, update, render | group |

### What is hard here

*Interleaving.*  Surfaces, devices and panels act on what they last saw.  A
fader that was moved before a repatch is handled after it, with a channel number
that belongs to someone else by then.  A client has its answer before the
snapshots are published.

*Derived state.*  Almost everything follows from the patch: the selection, the
wings, the strobe fader, the universes, the surfaces.  A repatch must bring all
of it along, and commands that change part of it come in between.

*Partial failure.*  A repatch may be refused in its last group; a port, an
audio device or a file may fail when half of the work is done.

*Waiting.*  `send_command` waits without a timeout, the GUI thread included,
and the saver waits without a deadline unless something is held back.  Some
workers look at the shutdown flag, others end only when their channel is
dropped, and a device or a provider may keep one of them from looking.

*Time.*  The strobe, a motor and a trigger channel change from update to update,
while controls change them too; frames are rendered over the last ones, which are
never emptied, and several updates may fall between two frames.

*Devices that fail.*  Sends to a network fixture are thinned out, retried or
dropped, and a send that fails may have had an effect.

*Crashes.*  Only one thing is persistent: the show file.

`PROJECT.json` lists the hazards at their lines with the property that covers
each.  What makes the components correct:

- Patch: a list is accepted exactly when it can be patched; a refused one changes
  nothing; ids, names and addresses lead to the right group; controls stay with
  their group.
- Show thread: after any sequence of messages the selection, the wings, the
  universes, the strobe fader, the surfaces, the GUI and the show file agree with
  the patch; refused commands leave no trace, those too that could fail half way; every
  command is answered;
  shutdown ends the loop.
- Saver: every snapshot is handed to `save`, itself or by a newer one; at exit the
  file holds the newest, unless its own save failed or it was overtaken (see the
  findings); the file is whole.
- Positioner: selection and offsets fit the group; presets are independent.
- OSC: a client is registered once and sent what it needs to show the state
  there is; one that left stays away; the socket asked for last is the one used.
- Workers: shutdown ends every worker that nothing outside delays, whatever the
  order of registration; one that had been spawned when the exit took the handles is
  named if it is left.
- Network fixtures: with nothing under way a device has been told what the controls
  that have moved say.
- Rig (profiles, strobe, frames): a frame depends on nothing but the state it
  shows; no channel has two writers; a strobed light is dark between flashes; what
  moves a motor or steps a wheel keeps the order it promises.

## 2. The modules

    PatchConfig          configurations, groups, carry-over (shared operators)
      PatchContract      which lists are patchable, and what to
        PatchSpec        what repatch promises, in one step
      Patch              how it is done      --- refines PatchSpec
        MCPatch
        PatchProofs      (extends PatchContract too)
    Show                 the show thread, its clients, devices and surfaces
      MCShow
      ShowProofs
    Positioner           presets of offsets, the tab, the templates
      MCPositioner
      PositionerProofs
    ShowSaver            the saver thread, the file, crashes
      MCShowSaver
      ShowSaverProofs
    OscClients           listener, list of clients, sender, sockets, surfaces
      MCOscClients
      OscProofs
    Profiles             what every profile renders where
    RotationPhase        the Moonraker's rotation
    TriggerState         the Comet's trigger channel
    StrobeArray          arrays of cells and their chases
      Rig                controls, strobe, updates and frames over all four
        MCRig
        RigProofs
    NetworkFixtures      Lumitone and WLED: messages, threads, devices
      Workers            all threads, the registry and the exit
        MCWorkers
        WorkersProofs
    SequenceFacts        lemmas on sequences, for PatchProofs and WorkersProofs

The interface between `Patch` and `Show` is narrow: `Show` takes a patch as a
value (groups in channel order, and the universes of each) and a `BadPatch`
that stands for every refused list, which `ImplementsPatchSpec` justifies
(a repatch is atomic to its caller).  The interface between `Show` and
`ShowSaver` is the submission of a snapshot: `saved` in `Show` is what was last
submitted, `submitted` in `ShowSaver` its number.  `Positioner` is the detail
behind `PositionerEdit` of `Show`: a handler runs to its end on the show thread,
`snapshot_state` included, so that each handler is a step of its own.
`OscClients` is what lies between `Show` and its surfaces: `surface` in `Show` is
what the show has emitted, `OscClients` shows how that arrives.  `Rig` is the detail
behind the updates and frames of `Show`, where rendering is only which groups are
in which universe.  `Workers` is the life of the threads that the other modules
schedule, the show and the saver among them; it extends `NetworkFixtures`, because
the threads of those fixtures end only when their messages are dealt with.

### Patch

| TLA+ | code |
|---|---|
| `patch`, `new_patch` | `self` and the local `new_patch` of `Patch::repatch` |
| `cfgs`, `i`, `b`, `left`, `dmx_index`, `group`, `pc` | the loops of `patch_all` and `patch`, and their locals |
| `GroupRefused`, `BlockRefused`, `AddressRefused` | the `bail!`s of `patch` and `allocate`, at the three places they occur |
| `StartGroup`, `PatchBlock`, `allocate`, `EndBlock`, `EndGroup` | one loop iteration each |
| `Refuse`, `Replace` | the `?` in `repatch`, and its success |
| `control` | a control of a group is operated between repatches |

Controls are reduced to *whose* they are; a positioner to the offsets of one
preset.  Addresses run from 1 to `DmxSize`.

### Show

`pc` is the place in `Show::run`: the shutdown check (`top`), the receive and the
handler (`control`), `snapshot_state` (`snapshot`), updates and frame
(`update`).  One handler is one action, since it runs on one thread and touches
nothing another thread writes; each includes everything the handler calls:
`Repatch` is `Patch::repatch`, the patch snapshot and `post_repatch`.  Refusals
are actions of their own, enabled where the code can return an error, and where
the environment decides (a port, a device, an audio input that cannot be opened)
they are enabled together with the success.

Three calls can fail after the handler has changed something: the wings are reconciled
when the patch is live (`show.rs:354`), the clock wing when the clocks are replaced
(`show.rs:271`, `277`), and a wing of another model is removed before its successor is
added (`show.rs:283`).  `add_slot` and `remove_slot` refuse what the slot manager refuses
(`midi/mod.rs:157`): a name that is taken, a name that is not there.  `Repatch`, `UseClocks` and
`SetClockWingModel` then end in `Fail`, with what had been done left done.  The slot manager
is a library (`midi_harness`) whose source is not in the repository; that a slot, which is added
without hardware, can fail for no other reason is an assumption.

`midi` maps slots to model and connection, `dmx` universes to port and the groups
drawn since the frame was last cleared, `gui` holds the published snapshots,
`surface` what the OSC surfaces were last sent of the channels.  The model keeps
the order of the code: the answer leaves (`answered`) before `snapshot_state`.

### Positioner

| TLA+ | code |
|---|---|
| `patch`, `current` | as in `Show`; of a group only its kind and number of fixtures |
| `positioners` | `FixtureGroup::positioner` of every group that has one |
| `tab` | what the controls of the Positioner tab were last sent |
| `selectors` | what the preset controls of every group's template were last sent |
| `file` | the show file that `snapshot_state` last submitted |
| `result` | what the handler returned: `StateDirty`, or the code of an error |
| `handle_fader` .. `handle_reset_preset` | the handlers of the same names |
| `SelectedOffsetMissing`, `NextOffsetMissing` | their early returns, and the errors PO-001 and PO-002 |
| `carried_over`, `loaded` | `reconfigure_from` in a repatch, `install_presets` in `Patch::from_show_file` |
| `refresh_ui` | `Show::refresh_ui`, in the part that concerns positioners |

The handlers do not redraw: a fader sends its axis, Next sends the label and the
axes, a rename one label on the tab and one on the template.  Whether that adds
up to what a full refresh would send is the main question, so what the surfaces
show is state, and `tab_for` is its reference.  Offsets are integers in units
of the finest bump.  A message that cannot be parsed changes nothing and is
left out.  A group may have no fixtures (a configuration whose patches are
all empty), and may still be selected.

### ShowSaver

The saver's `pc` follows `run` and, inside it, `show_file::save`: create and
fill the temporary file (`BeginTmp`, `EndTmp`), rename it.  Each may fail.  The
throttle's clock is one bit.  `overtaken` and `lost` are history: the older request that was
held back when the last one was fired at once, and the last snapshot whose save failed or
that died with the process; `due` is what the file should hold.  `Restart` may strike anywhere: the process died
or was closed, and the files are all that is left.

### OscClients

| TLA+ | code |
|---|---|
| `listener`, `socket`, `forwarding` | the loop of `OscListener::run`, its socket, and the datagram `forward_packet` walks through |
| `sockets` | what each bound socket has received |
| `pending_socket` | the `ArcSwapOption` the show leaves a socket in |
| `clients` | `OscClientManager`'s list: how often each client is in it |
| `recv`, `responses` | the show's channel, and the one to the sender |
| `handling` | the show thread within its handler of a registration, and before `snapshot_state` |
| `send` | one iteration of the sender: it reads the list anew for each response |
| `receive_port`, `osc_clients`, `waiting` | the OSC panel |
| `view`, `network` | a surface, and the datagrams on their way to it (no code of the repository) |
| `missed`, `heard` | history: was the last datagram lost, what did a client say last |

Every message the listener emits is a step, and registering, refreshing and
publishing are steps of the show, because the listener and the sender read the
list in between.  A list is copied and replaced as a whole, so that reading it is
one step.  All controls are one control with a level; a refresh is one response.

### Rig

| TLA+ | code |
|---|---|
| a profile's `writes` | its `render_with_animations`: the control, the channel, the switches that must be on (`on`) or off (`off`) |
| `Strobed`, `Colored` | `Unipolar::render` and `Bool::render` of a strobed control, `Color::render_for_model` |
| `patch`, `on`, `strobe_enabled`, `flash`, `device` | groups, the Bool controls that decide what is written, `FixtureGroup`'s strobe state, and what changes with time in a fixture |
| `strobe_on`, `flash_next_update`, `intensity` | `StrobeClock` |
| `updates` | the updates since the last frame: the catch-up loop of `Show::run` |
| `frame` | the DMX buffers: for each channel the control it was last written from |
| `update_rotation`, `update_trigger`, `update_flasher` | `RotationPhase::tick`, `TriggerState::update`, `Flasher::update` |
| `ToggleSwitch`, `ToggleStrobe`, `EnqueueStep`, `SelectChase`, `StrobeOn`, `FlashNow`, `Intensity` | the controls, handled between a frame and the next update |
| `Repatch`, `Reconfigured` | `Patch::repatch`, `reconfigure_from`, and the universes that `post_repatch` empties |

A write stands for a whole control: values, ranges, detents and animations are left
out, so that the frame says where each channel got its value from and not which it
is.  When a tick of the strobe clock falls is left open, and with it rate, tap
and multiplier.  `coast` and `held` of a rotation, `due`, `seen` and `known` of
a trigger are history: how long the head may still move, for how long
the clamp has held, which steps were asked for and not taken.

### Workers and network fixtures

| TLA+ | code |
|---|---|
| `kinds`, `latest`, `channel` | the fixtures made, what their controls say (as counts of changes), and what they posted |
| `pending`, `overdue` | `LumitoneSender`'s pending state and palette, `time_until_next_send`; `pending` of a WLED is the slot its two threads share |
| `flushing`, `connected` | what `wled-poll` took from the slot; whether `initialize` has returned |
| `told`, `newest`, `lost` | what each fixture has told its device last, of each part; history: the parts the last message carried, and whether the last flush failed or a Lumitone's thread ended with something unsent |
| `thread`, `spawning`, `unpushed`, `handles` | the worker threads, those `Show::new` or a repatch is about to spawn, the one between `spawn` and `push`, the registry |
| `shutdown`, `awaited`, `gui`, `stragglers` | the flag, and `shutdown_and_join` as `on_exit` calls it |
| `unspawned` | history: the workers whose `spawn` had not returned when the handles were taken |
| `held`, `closed` | which fixtures the patch holds; when their senders are dropped |
| `StartWorker`, `PushHandle` | the two halves of `Workers::spawn`, between which the exit can come |
| `LumitoneReceive`, `LumitoneTimeout`, `LumitoneSend`, `LumitoneHangUp` | the iterations of `LumitoneSender::run` |
| `WledDrain`, `WledTake`, `WledFlush`, `WledConnect`, `DrainEnds`, `PollEnds` | those of `WledController::run` and `initialize` |
| `Trigger`, `TakeHandles`, `Exit` | `shutdown_and_join` |

A repatch that keeps a group makes its fixture anew and drops the new one
(`reconfigure_from`), so that `MakeFixture` and `DropFixture` are actions of their own.

`told` begins empty, in `Init` and for each fixture that is made: `Lumitone::new` posts nothing, so
that a device, which may have been that of a fixture before, keeps what it shows until a
control moves.  `LumitoneCurrent` is about the parts whose controls have moved since, and
about what this fixture told the device; a device shows that if nobody else speaks to it.  The thread of a
fixture that was replaced may still be sending when the new one does (`lumitone.rs:342`), and the
device of the two keeps what comes last: no property covers that.  A change that is still pending
when the channel hangs up is dropped (`lumitone.rs:388`): this is what `lost` says of a Lumitone.

`WledTake` looks at the flag and empties the slot in one step, where the code looks at
the flag (`wled.rs:44`) and then takes; a message taken after the flag was set in between would be one
flush more, on which no property depends.

## 3. The runs

| Run | States | Question |
|---|---|---|
| `show_saver` | 7,152 | Does every snapshot reach `save`, does the file hold the one that is due at exit, is it whole whatever fails? |
| `show_saver_stale` | violation | Can a held-back snapshot overwrite a newer one?  Yes, see below. |
| `patch` | 8,904 | Does `Patch` implement `PatchSpec`, are the maps consistent in the middle of a patch, are addresses and controls right? |
| `show_patching` | 158,909 | Repatches against selections, queued faders, the strobe fader, presets |
| `show_devices` | 718,484 | Repatches against ports, MIDI devices and clocks |
| `show_live` | 91,104 | Is every command answered, and does the show stop? |
| `positioner` | 229,396 | Every control of the tab, while groups grow, shrink to nothing, change kind or channel: do edits reach what the tab shows, do tab, templates and show file follow, does a restart bring the presets back? |
| `osc_clients` | 928,749 | Is a client in the list once, does its surface end up showing the level there is, is a goodbye honoured, whatever is lost? |
| `osc_ports` | 89,616 | Ports changed faster than the listener takes them: does the last one win, is it ever received on? |
| `rig` | 82,514 | Every profile in every mode: does a frame depend on nothing but the state it shows, does no channel have two writers, is a strobed light dark between flashes, does the Moonraker spin only under its clamp, does the Comet take every step, do chases stay in step? |
| `rig_release` | violation | Is the clamp safe to relax whenever rotation is released before the spin engaged, as documented?  No, see below. |
| `workers` | 226,593 | Are network fixtures told what the controls say, is every thread joined that nothing outside delays, is none that had been spawned left without a name? |

Bounds, and why they are enough:

- `MaxSubmits = 4`: one request being written, one held back, one that replaces
  it and one that arrives later; `MaxRestarts = 1`: a restart finds every
  combination of files, and what follows is again a first run.
- 23 lists of configurations and 3 repatches: each `bail!` has a list that
  reaches it first, two reach it after groups have been patched; three in a row
  show a state carried over twice.  `DmxSize = 4` with fixtures of width 0, 1
  and 2 reaches the end of a universe and overlaps in the second address.
- Wings of two faders and patches with 0, 1, 2 and 3 channels: no wing full, one
  full, a second one needed; the strobe fader free, taken and on the second wing.
  Universes 1, 2 and 3.
- `MaxMailbox = 1` in the two safety runs: messages queue only to be handled
  one by one, and a message sent for an older patch needs one place.  The
  live run has 3, two clients and a surface that fills what they leave.
- Two presets and two fixtures: an active and another preset, a fixture that is
  selected and one that is not, a first and a last; two axes, so that a value
  sent to the wrong one shows.  Offsets in -1 .. 1 with bumps of 1 and 2: a bump
  within the range and past its end.  Three patches move a group of 2
  fixtures to 1 and a group of none to 1, take all channels away, change a group's
  kind, and put a group without a positioner on a channel.
- One client of the show suffices for safety: clients share nothing but the
  channel.
- One OSC client: it meets others only through the list, where each has an entry
  of its own, and through the level, which `MoveElsewhere` moves in any way
  others could.  Two levels, a current one and a stale one.  Three ports:
  one in use, one handed over, one in the channel.  `MaxQueue = 1` and
  `MaxInFlight = 1`: with the listener's datagram in hand, its own place in the
  channel (it never waits in the code, where channels are unbounded) and one
  datagram in the socket, a client has three messages at different stages.
- `Rig`: a profile is alone in its group with all the switches it looks at, since
  groups share nothing but the strobe and the channels; the fixtures that are patched over
  each other (the parts of a Swarmolon, the heads of a Swizzle Stick) are
  together.  `MaxUpdates = 2`: a frame with one update and one that is caught up on.
  `RotationArm = 2`, `RotationSettle = 3`: each wait has a first, a last and
  (the longer) a middle update, and they differ.  `UpdatesToHold` is the code's 3; `MaxSteps = 2`: two steps the
  same way and two opposite ones.  Chases of one, two and four parts, with patterns
  that go round, bounce and spread.
- `Workers`: five shows, one for each kind of fixture with two changes of its controls
  (the second overtakes the first), two that make fixtures of
  either kind and drop them, one with a clock provider.  Two fixtures: one there
  from the start and one that is made.

### Fairness

`FairSpec` of `ShowSaver` says that the saver thread is scheduled and that time
passes.  `FairSpec` of `Show` says that the show thread is scheduled: it never
waits for another thread longer than the timeout of `recv_timeout`.  Nothing is
assumed of clients, devices or the operator.  `FairSpec` of `OscClients` schedules
the three threads, each a loop that waits with a timeout or for something in a
channel, and makes every datagram arrive or be lost; a surface need never speak.
`FairSpec` of `Workers` says that threads are scheduled and timeouts pass, so that
a send, a flush and a poll come to their end; it does not say that a WLED node
answers, that a send to a Lumitone succeeds or that a clock provider speaks, and
`ExitJoins` names exactly these three as what may delay a worker.

### Findings

- *An older snapshot overwrites a newer one* (`show_saver.rs:48`).  A request
  that may fire is written at once, but one that is still held back stays in the
  buffer, and the next timeout, or the flush at exit, writes it over the newer
  one.  It takes a request that arrives after the throttle has elapsed and before
  the thread has woken up for it.  The theorems below do not contradict it: every snapshot
  *is* handed to `save`, only in the wrong order.
- *The clamp is relaxed while the head coasts* (`moonraker.rs:191`).  Rotation that is
  requested again while the head settles, and released before it has armed, goes
  from Arming straight to Parked.  The comment (`moonraker.rs:189`) says that
  the head never left the park angle, which holds of an Arming entered from Parked
  only; the tilt is then limited for the parked head before the rest of
  `ROTATION_SETTLE` is over.

### Observations

What the models showed besides, where no statement of the repository is contradicted
squarely, or the effect is small:

- After a repatch to fewer channels the surfaces keep the levels of channels that
  are gone, and with no channel left the selection, in spite of the comment at
  `osc/channels.rs:68`.  What is true of channels that exist is `SurfaceCurrent`.
- Prev and Next of the positioner report a change to save (`positioner.rs:410`),
  though the selected fixture is not in the show file (`positioner.rs:261`): a save per press.
- A client whose goodbye is still in the show's channel when it returns is still
  in the list, so that its first message does not register it
  (`osc/listener.rs:129`).  The next one does, which is why `GoodbyeHonoured` holds.
- The Comet leaves its channel 0 unwritten while the shutter is open and music
  is off, so that an older value stays, against `show.rs:626`; `NothingStale` leaves
  that channel out, and holds of every other channel of every profile.
- The Comet's stop value between two equal steps is held, but an idle one is not,
  so that updates caught up on without a frame can lose a step; `StepsTaken` leaves those
  runs out, and with them all in which it would matter for how many updates a value is held
  (`UPDATES_TO_HOLD`): that the hold is long enough to be sent is not checked.
- The strobe does not darken the shutters of a Hypnotic and a Comet, nor a color
  that an organ drives (the TODO at `color.rs:194`); `BlackBetweenFlashes` says so.
  Of profiles that have no light the strobe could override (`light` is "none": those that
  cannot strobe, and those that strobe by a rate or by cells) it says nothing.
- A single Flash Bang offers two multipliers and has chases for the first.
- Several updates in one iteration can begin and end a short flash that no frame shows
  (`show.rs:152`); if updates take longer than `UPDATE_INTERVAL` the loop does not end.
- If a slot were refused in `post_repatch` the patch would be live, and the universes
  not emptied and nothing saved (`show.rs:354`): `Repatch` has this path, and
  `RefusedChangesNothing` shows that it is not taken, because the wings there are are
  always the first ones.  A save that fails is logged and
  not retried (`show_saver.rs:75`).  A group named like one of the show's own
  control groups cannot be reached by OSC (`show.rs:538`).
- A WLED preset that is followed by a level within a poll is lost (`wled.rs:37`);
  `WledNewest` is about what the last message carried.  Each repatch of a WLED group
  leaves a `wled-poll` thread until shutdown, and `initialize` does not look
  at the flag (`wled.rs:43`, `wled.rs:94`).
- A Lumitone whose sends fail more slowly than `SEND_INTERVAL` is always overdue: it
  neither receives nor notices that its channel is closed (`lumitone.rs:314`).
- A clock service looks whether it is wanted only when its provider sends
  (`clock_service.rs:57`), so that the comment at `clock_service.rs:44` is not true of a quiet one.
- Workers that the show thread spawns after the exit has taken the handles, and one whose
  handle it has not pushed by then, are neither awaited nor named (`worker.rs:91`):
  `LeftIsNamed` says that there are no others, and that they are the saver's or a fixture's.
- A MIDI callback that fires when the show is gone panics in the driver's thread
  (`midi/mod.rs:121`).

## 4. The proofs

The seven modules of proofs state every invariant of every run, every action property
and the refinement of `PatchSpec` as a theorem, for every value of the constants.
They rest on the assumptions the modules name: patches of a show are finite with
distinct groups on channels, wings have at least one fader, there is at least one
preset, positions and steps are within their ranges, messages and ports are
told apart, sets of types with mutual affinity are disjoint (`TypesAssumption`), a
show file has fixtures of the two kinds and no more than the bound
(`ScenariosAssumption`), bounds are numbers.  Of the lists that are patched the
invariants assume nothing, and the refinement what their types say: they and their
`patches` are sequences, `channel` is a boolean, a count is a natural number
(`ListsAssumption`).  Of the groups of `Rig` it is assumed that they have profiles of the code, that the
steps and chases that are asked for exist and that the switches of a group are not
those that stand for the shutter, the strobe and the flash (`GroupsAssumption`); and that
fixtures have addresses of their own or are different parts of one fixture at one
address (`PatchedApart`).  This is more than `Patch` enforces: `have_mutual_affinity`
also lets two *equal* parts share addresses, and parts at addresses that overlap
without being the same, which the notes of the profiles ask the user not to do.

**ShowSaver.**  `ExitFlushes` is about the file: it holds the snapshot that is due when the
thread has returned, because at every earlier moment that snapshot is the last in the channel,
or in the thread's hands, or held back, or in the file, or lost in a save of its own.
`IInv` adds that (`QueueInv`, `DueInv`), what the thread knows when
it starts its last write (`ExitInv`), and that only a complete temporary file, of the request in
hand, is renamed (`FileInv`).  Due is the newest, but for the finding: where an older request was
held back when the newest was fired at once, the older one is due.

**Show.**  The inductive invariant is a conjunction with a lemma per part and a
step per action: the loop and the mailbox (`LoopOK`), the selection
and the groups (`SelectionInv`), the slots (`MidiInv`), the universes (`DmxInv`),
the snapshots (`SnapInv`) and the surfaces (`SurfaceCurrent`).  `SlotsNeverRefused` says that
by `MidiInv` no handler is refused a slot, on which `RefusalIsClean` rests: the handlers that
could fail half way do not.  `SnapInv` is where
`SnapshotsCurrent` needs strength: between a handler and `snapshot_state` a
snapshot may lag, but only one whose flag is set.  The wings are *counted* by the code
(`control.rs:141`), so `WingsMatchPatch` needs the cardinality of the first n
wings; `universe_count` is one more than a maximum, so `UniversesServePatch`
needs that a finite set of numbers has one.

**Positioner.**  The argument has two levels.  `Sized(p, n)` says what a
positioner for n fixtures is; lemmas show that every operation on one positioner
keeps it, whatever the old number of fixtures was.  `IInv` says that each
positioner is sized for its group and that the tab, the templates and the show
file agree with all of them.  It is inductive as it stands, but only as a whole:
the tab after a partial update is right only if it was right before, the errors
are unreachable only if the selection fits, and a restart is sized right only if
the file is the current one.  `Changed` carries the invariant over any handler
that replaces one positioner; what remains of each handler is that the values it
sends are those it changed.  `EditsAreSeen` follows from the same invariant.

**OscClients.**  Lemmas say what taking from and putting into the show's channel does
to what is in it: the ports asked for, the levels on their way, the
registrations and drops of a client.  `IInv` then has a part per hazard.
`SocketsInv`: a port in the channel is bound, and is neither in use nor handed over,
so that closing one never closes another.  `LevelInv`: the last response, and the
last datagram to a client after it, carry the level there is; from this
`ViewCurrent` follows at every step that empties the last place in which
a newer level could be.  `LeavingInv`: behind every registration of a client that
said goodbye last there is a drop, which holds because the listener
registers before it forwards (`ForwardInv`).

**Rig.**  For the Moonraker the invariant counts: while it arms, the updates for which
the clamp has held and those that are left make up `RotationArm`, so that the
spin begins with the clamp held for all of it.  For the Comet it
says where a step is that was asked for: in the queue, or put out and not yet sent,
or seen by the fixture; and that a value put out for a step was another before, which
is what makes the fixture take it.  A frame may come at any time: the invariant
is about the output and the last value sent, not about frames.

For frames the argument has two levels.  The writes of a profile are data, but
built by a few operators (a control, a strobed one, a color, a pair of ranges), and
a calculus says of each what of it is *whole*: every channel that is written under
some switches is written under all of them, from one source at a time, and the
channels of the light are dark while it is strobed and does not flash.  Sets of channels
that are apart compose.  By it every profile of `AllProfiles` is `ProfileOK`, with the
Comet's channel 0 taken out and the light of Hypnotic and Comet not promised; these
exceptions are those of the properties.  The invariant (`FInv`) says that
the frame has just the channels of the patch, and holds on each either nothing or what
its fixture may write there.  Whatever is in the buffer is then overwritten
(`FramesAreFresh`), by one write (`WritesDoNotCollide`), with darkness between flashes
(`DarkBetweenFlashes`).

For chases `CInv` says where the parts are that were asked for: the first is at
its pattern p, and the part with offset n is at p + n modulo the number of patterns,
whatever chase was selected last and however many updates a frame lies back; the cells lit
are those of the last flash, whose age is that of the strobe's.  It needs that
all profiles with an array flash for one update, so that a flash has no second update to
be out of step in.  Of the patterns of a chase it is used that there are some and that
each is a set of cells; of those of the first chase, that they are the cells in order.

**Workers.**  Each kind of network fixture has an invariant over the data of one
fixture.  For the Lumitone (`Reaches`): the latest value of each part is in the last
message that carries the part, or else pending, or else what the device was told, if its control
has moved.  A send that fails half way keeps it, because what is pending stays.  For the WLED
(`WledOK`): the last message is in the channel, or else in the slot, or else in the hands
of the poll thread, or else what the node was told, or lost.  `OwnInv` says that the threads of a fixture are
those of its kind, so that no step of one invariant is taken on the data of
the other; `RegisteredInv` and `SpawnedInv` that until the handles are taken every thread that runs is
registered, but for the one between the two halves of its spawn, and that from then on it is
awaited or had not been spawned; and that only threads the show spawns can be so late.

**Patch.**  `PatchOK` says of a patch what the three invariants say, of both the live
patch and the half built one, and `Building` of the group under construction that it
is clear of all the others and has an id and a name still free.  Whether a fixture
fits is decided from `used_addrs`, which has one type per address, that of the last
fixture put there.  `Recorded` says that this is enough: the type at each address of
a group has affinity with the group's.  It stays true because affinity is
transitive (`Transitive`), which is where the sets must be disjoint: with a type in
two of them a third fixture could be let in that only gets on with the second.
Carrying state over and operating controls replace groups by their `Kin`, which are
at the same place and the same but for that state.

`PatchSpec` judges a list as a whole: each group by itself, and each two fixtures of the
list against each other.  The code never has the whole: it looks a fixture up among the
addresses that the fixtures before it have left.  `Refinement` closes the gap with a
second invariant, `HInv`, whose history is the set of places in the list that have been
patched (`Done`): what has been passed is well formed (`SoFarWell`) and named apart
(`SoFarNamed`), `used_addrs` has an address exactly when a place of `Done` covers it, and
those places are apart two by two (`SoFarApart`), the group under construction has the
fixtures of its places in their order (`SoFarBuilt`), and each vector the groups of the
configurations so far that belong in it, in theirs (`SoFarPlaced`).  So whatever is refused
conflicts with something in `Done`, and with the list as a whole (`RefusedRightly`); and
at the end `Done` is every place there is (`PatchedRightly`).  `PatchContract` says "in
order" by choosing an enumeration of a set; that there is only one (`OneOrder`) is what
makes the loops compute it.

Model-checked only: liveness (`EverySnapshotIsHandled`, `CommandsAnswered`,
`ShutdownStops`, `PortServed`, `ExitJoins`).

## 5. What is not modelled

- *In the show*: port framerates, audio and
  clock controls, animations, colour organs, the DMX debug snapshot.  The catch-up loop
  of updates (`show.rs:152`) needs a clock; here an update is due or not.
- An error inside `handle_device_change` (`midi/mod.rs:196`), which comes from the driver
  library, and the library itself: a device of a slot appears or disappears.
- The values that profiles render, with ranges, detents, animations and the emission
  of state to surfaces: maps from values to values.  What is modelled of them is where and
  when they write.  MIDI device tables, TouchOSC layouts and the preview are such
  maps too.
- The rate of the strobe, its multiplier and the tap: they decide when a tick falls, which
  `Rig` leaves open.
- The animator selected per channel (`animation.rs:199`), and the patch editor
  (`config_gui/patch_panel/`): planned, see below.
- Datagrams that overtake each other, and a surface that is restarted and has
  forgotten what it showed: the code has no answer to either, the next message sets it
  right.
- What an offset does to the DMX values of a fixture: rendering.
- Panels of the GUI beyond the commands they send.

## 6. The plan

Done: workers and the clock service, network fixtures, the strobe and the
profiles, and the refinement of `PatchSpec` in general.  Left, in order of weight:

1. **PatchPanel** - the working copy of the patch editor against patches that
   change underneath, with its addresses and its suggestions of free ones.
2. **Animation** - the animator per channel number through repatches that move groups.
3. **MIDI mapping** - the events of each device as an operator, checked to be
   one-to-one; the echo of channel controls to the wings.

The runs follow the same shape: small sets of groups, fixtures, clients and
workers, one run per question.

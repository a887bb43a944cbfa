------------------------------- MODULE Workers -------------------------------
(***************************************************************************)
(* The threads of the console and how it ends (worker.rs, config_gui/mod.rs *)
(* and the bodies that are passed to worker::spawn).  Some look at the     *)
(* shutdown flag, others end when the sender of their channel is dropped   *)
(* by the show, and on_exit waits two seconds for all whose handles have   *)
(* been pushed by then.                                                    *)
(***************************************************************************)
EXTENDS NetworkFixtures

CONSTANTS
    Scenarios,    \* begin: the kinds of the fixtures in the show file; and, as
                  \* bounds, makes: the kinds of those that are patched later,
                  \* changes: of the controls, clock: is a provider connected to
    MaxFixtures   \* bounds the fixtures that are ever made

ASSUME ScenariosAssumption ==
    /\ MaxFixtures \in Nat
    /\ \A s \in Scenarios :
        /\ s.begin \in Seq({"Lumitone", "Wled"})
        /\ Len(s.begin) <= MaxFixtures

VARIABLES
    scenario,
    thread,      \* "new", "running" or "ended"
    handles,     \* the workers whose handles are in the registry
    shutdown,    \* Shutdown's flag
    spawning,    \* the workers the show thread is about to spawn
    unpushed,    \* the worker it has started and not yet pushed, or NoWorker
    ready,       \* Show::new has returned
    held,        \* the fixtures in the patch: their senders are held
    clock,       \* the clock-service: its provider speaks, the show holds it
    awaited,     \* the handles that shutdown_and_join took
    unspawned,   \* the workers that had not been spawned by then
    gui,         \* "running", the steps of on_exit: "triggered" and "joining",
                 \* and how it ended: "joined" or "late"
    stragglers   \* the workers that it names
threadVars == <<thread, handles, spawning, unpushed, ready, held>>
exitVars == <<scenario, shutdown, awaited, unspawned, gui, stragglers>>
vars == <<dataVars, threadVars, exitVars, clock>>

Worker(name, i) == [name |-> name, of |-> i]
Show == Worker("show", 0)
Saver == Worker("show-saver", 0)
ClockService == Worker("clock-service", 0)
\* Looks at the flag: OscListener::run every READ_TIMEOUT, the watch of the
\* local IP whenever sleep_or_shutdown returns.
Pollers == {Worker("osc-listener", 0), Worker("local-ip-watch", 0)}
Sinks == {Worker("osc-sender", 0), Saver}
NoWorker == Worker("none", 0)

WorkersOf(kind, i) ==
    IF kind = "Lumitone" THEN {Worker("lumitone", i)}
    ELSE {Worker("wled-drain", i), Worker("wled-poll", i)}
\* The order in which they are spawned: the fixtures in that of the patch, and
\* the saver when the show is made of them.
Before(w, v) ==
    /\ w # Saver
    /\ \/ v = Saver
       \/ w.of < v.of
       \/ w.of = v.of /\ w.name = "wled-drain"
Workers ==
    {Show, ClockService} \cup Pollers \cup Sinks
        \cup {Worker(n, i) : n \in {"lumitone", "wled-drain", "wled-poll"},
                             i \in 1 .. MaxFixtures}

\* Threads run until the process ends.
running(w) == thread[w] = "running" /\ gui \in {"running", "triggered", "joining"}
End(w) == thread' = [thread EXCEPT ![w] = "ended"]
\* Mutant: the end of the show leaves a sender behind.
closed_ByRepatch(i) == i \notin held
closed(i) == i \notin held \/ ~running(Show)

(***************************************************************************)
(* The show thread                                                         *)
(***************************************************************************)
\* Mutant: the thread is detached.
registered_Detached(w) == handles
registered(w) == handles \cup {w}
\* Workers::spawn: the thread runs before its handle is pushed.
StartWorker ==
    /\ running(Show) /\ unpushed = NoWorker
    /\ \E w \in spawning :
        /\ \A v \in spawning \ {w} : Before(w, v)
        /\ thread' = [thread EXCEPT ![w] = "running"]
        /\ unpushed' = w
        /\ spawning' = spawning \ {w}
    /\ UNCHANGED <<dataVars, exitVars, clock, handles, ready, held>>
PushHandle ==
    /\ running(Show) /\ unpushed # NoWorker
    /\ handles' = registered(unpushed)
    /\ unpushed' = NoWorker
    /\ UNCHANGED <<dataVars, exitVars, clock, thread, spawning, ready, held>>

\* Show::new returns.
ShowReady ==
    /\ running(Show) /\ unpushed = NoWorker /\ spawning = {} /\ ~ready
    /\ ready' = TRUE
    /\ UNCHANGED <<dataVars, exitVars, clock, thread, handles, spawning, unpushed, held>>

\* The patch, the clocks or a wing fail, and all that was made is dropped.
ShowFails ==
    /\ running(Show) /\ unpushed = NoWorker /\ ~ready
    /\ End(Show)
    /\ UNCHANGED <<dataVars, exitVars, clock, handles, spawning, unpushed, ready, held>>

InLoop == running(Show) /\ unpushed = NoWorker /\ spawning = {} /\ ready

ShowEnds ==
    /\ InLoop /\ shutdown
    /\ End(Show)
    /\ UNCHANGED <<dataVars, exitVars, clock, handles, spawning, unpushed, ready, held>>

\* A repatch makes the fixtures of its groups and drops those it replaces;
\* for a group that stays, the new one is dropped (reconfigure_from).  An
\* iteration that has begun goes on when the flag is set.
MakeFixture(kind) ==
    /\ InLoop /\ kind \in scenario.makes /\ Len(kinds) < MaxFixtures
    /\ NewFixture(kind)
    /\ held' = held \cup {Len(kinds) + 1}
    /\ spawning' = WorkersOf(kind, Len(kinds) + 1)
    /\ UNCHANGED <<exitVars, clock, thread, handles, unpushed, ready>>
DropFixture(i) ==
    /\ InLoop
    /\ held' = held \ {i}
    /\ UNCHANGED <<dataVars, exitVars, clock, thread, handles, spawning, unpushed, ready>>
ControlMoves(i, control) ==
    /\ InLoop /\ i \in held /\ Changes < scenario.changes
    /\ Change(i, control)
    /\ UNCHANGED <<threadVars, exitVars, clock>>
\* Other clocks: the show lets go of the service.
DropClock ==
    /\ InLoop /\ clock.held
    /\ clock' = [clock EXCEPT !.held = FALSE]
    /\ UNCHANGED <<dataVars, threadVars, exitVars>>

(***************************************************************************)
(* The other workers                                                       *)
(***************************************************************************)
PollerEnds(w) ==
    /\ running(w) /\ shutdown
    /\ End(w)
    /\ UNCHANGED <<dataVars, exitVars, clock, handles, spawning, unpushed, ready, held>>
\* The show is gone, and what it sent has been dealt with.
SinkEnds(w) ==
    /\ running(w) /\ ~running(Show)
    /\ End(w)
    /\ UNCHANGED <<dataVars, exitVars, clock, handles, spawning, unpushed, ready, held>>

LumitoneEnds(i) ==
    /\ running(Worker("lumitone", i))
    /\ closed(i) /\ LumitoneHangUp(i)
    /\ End(Worker("lumitone", i))
    /\ UNCHANGED <<exitVars, clock, handles, spawning, unpushed, ready, held>>
Lumitone(i) ==
    \/ LumitoneEnds(i)
    \/ /\ running(Worker("lumitone", i))
       /\ \/ LumitoneReceive(i)
          \/ ~closed(i) /\ LumitoneTimeout(i)
          \/ LumitoneSend(i)
       /\ UNCHANGED <<threadVars, exitVars, clock>>

DrainEnds(i) ==
    /\ running(Worker("wled-drain", i))
    /\ closed(i) /\ channel[i] = <<>>
    /\ End(Worker("wled-drain", i))
    /\ UNCHANGED <<dataVars, exitVars, clock, handles, spawning, unpushed, ready, held>>
Drain(i) ==
    \/ DrainEnds(i)
    \/ /\ running(Worker("wled-drain", i))
       /\ WledDrain(i)
       /\ UNCHANGED <<threadVars, exitVars, clock>>

\* The flag is looked at after every sleep, and not while initialize tries.
PollEnds(i) ==
    /\ running(Worker("wled-poll", i))
    /\ shutdown /\ connected[i] /\ flushing[i] = None
    /\ End(Worker("wled-poll", i))
    /\ UNCHANGED <<dataVars, exitVars, clock, handles, spawning, unpushed, ready, held>>
Poll(i) ==
    \/ PollEnds(i)
    \/ /\ running(Worker("wled-poll", i))
       /\ \/ ~shutdown /\ WledTake(i)
          \/ WledFlush(i)
       /\ UNCHANGED <<threadVars, exitVars, clock>>
Connect(i) ==
    /\ running(Worker("wled-poll", i))
    /\ WledConnect(i)
    /\ UNCHANGED <<threadVars, exitVars, clock>>

\* Whether its service is still wanted is looked at only when the provider
\* sends a message.
ClockServiceEnds ==
    /\ running(ClockService) /\ clock.speaks /\ (~clock.held \/ ~running(Show))
    /\ End(ClockService)
    /\ UNCHANGED <<dataVars, exitVars, clock, handles, spawning, unpushed, ready, held>>
ProviderChanges ==
    /\ running(ClockService)
    /\ clock' = [clock EXCEPT !.speaks = ~@]
    /\ UNCHANGED <<dataVars, threadVars, exitVars>>

(***************************************************************************)
(* The GUI thread                                                          *)
(***************************************************************************)
ConnectToProvider ==
    /\ gui = "running" /\ scenario.clock /\ thread[ClockService] = "new" /\ InLoop
    /\ thread' = [thread EXCEPT ![ClockService] = "running"]
    /\ handles' = registered(ClockService)
    /\ clock' = [clock EXCEPT !.held = TRUE]
    /\ UNCHANGED <<dataVars, exitVars, spawning, unpushed, ready, held>>

\* on_exit: shutdown_and_join sets the flag and takes the handles there are.
Trigger ==
    /\ gui = "running"
    /\ gui' = "triggered"
    /\ shutdown' = TRUE
    /\ UNCHANGED <<scenario, dataVars, threadVars, clock, awaited, unspawned, stragglers>>
TakeHandles ==
    /\ gui = "triggered"
    /\ gui' = "joining"
    /\ awaited' = handles
    /\ handles' = {}
    /\ unspawned' = {w \in Workers : thread[w] = "new" \/ w = unpushed}
    /\ UNCHANGED <<scenario, dataVars, clock, shutdown, stragglers, thread, spawning,
                   unpushed, ready, held>>
\* Joined if all have ended; the deadline may pass before.  main returns, and
\* with it the process ends.
Joined == gui' = "joined" /\ \A w \in awaited : ~running(w)
Late == gui' = "late"
Exit(end) ==
    /\ gui = "joining"
    /\ end
    /\ stragglers' = {w \in awaited : running(w)}
    /\ UNCHANGED <<dataVars, threadVars, scenario, clock, shutdown, awaited, unspawned>>

Init ==
    /\ scenario \in Scenarios
    /\ kinds = scenario.begin
    /\ latest = [i \in Fixtures |-> [p \in Parts(kinds[i]) |-> 0]]
    /\ told = [i \in Fixtures |-> None]
    /\ channel = [i \in Fixtures |-> <<>>]
    /\ pending = [i \in Fixtures |-> None] /\ flushing = pending
    /\ overdue = [i \in Fixtures |-> FALSE]
    /\ connected = overdue /\ lost = overdue
    /\ newest = [i \in Fixtures |-> {}]
    /\ held = Fixtures
    /\ handles = {Show, Worker("osc-sender", 0)} \cup Pollers
    /\ thread = [w \in Workers |-> IF w \in handles THEN "running" ELSE "new"]
    /\ spawning = (UNION {WorkersOf(kinds[i], i) : i \in Fixtures}) \cup {Saver}
    /\ unpushed = NoWorker /\ ready = FALSE
    /\ clock = [speaks |-> TRUE, held |-> FALSE]
    /\ shutdown = FALSE /\ awaited = {} /\ unspawned = {} /\ gui = "running"
    /\ stragglers = {}

Spawning == StartWorker \/ PushHandle \/ ShowReady
Next ==
    \/ Spawning \/ ShowFails \/ ShowEnds
    \/ \E kind \in {"Lumitone", "Wled"} : MakeFixture(kind)
    \/ \E i \in held : DropFixture(i)
    \/ \E i \in held : \E control \in Parts(kinds[i]) : ControlMoves(i, control)
    \/ DropClock
    \/ \E w \in Pollers : PollerEnds(w)
    \/ \E w \in Sinks : SinkEnds(w)
    \/ \E i \in Fixtures : Lumitone(i) \/ Drain(i) \/ Poll(i) \/ Connect(i)
    \/ ClockServiceEnds \/ ProviderChanges
    \/ ConnectToProvider \/ Trigger \/ TakeHandles \/ Exit(Joined) \/ Exit(Late)

Spec == Init /\ [][Next]_vars

\* Threads are scheduled and timeouts pass.  Nothing is assumed of devices and
\* providers.
Fairness ==
    /\ WF_vars(Spawning) /\ WF_vars(ShowEnds) /\ WF_vars(Exit(Joined))
    /\ \A w \in Pollers : WF_vars(PollerEnds(w))
    /\ \A w \in Sinks : WF_vars(SinkEnds(w))
    /\ \A i \in 1 .. MaxFixtures :
        WF_vars(i \in Fixtures /\ Lumitone(i)) /\ WF_vars(i \in Fixtures /\ Drain(i))
            /\ WF_vars(i \in Fixtures /\ Poll(i))
    /\ WF_vars(ClockServiceEnds)
FairSpec == Spec /\ Fairness

(***************************************************************************)
(* Properties                                                              *)
(***************************************************************************)
\* What keeps a worker from ending that is not in the console's hands: a WLED
\* node that does not answer, a Lumitone to which no send succeeds or fails
\* within SEND_INTERVAL, a clock provider that is quiet.
Delayed(w) ==
    CASE w.name = "wled-poll" -> w.of \in Fixtures /\ ~connected[w.of]
      [] w.name = "lumitone" -> w.of \in Fixtures /\ overdue[w.of]
      [] w.name = "clock-service" -> ~clock.speaks
      [] OTHER -> FALSE

\* Unless the deadline passes first, an exit ends with all workers joined, those
\* too that nothing but a channel drives, if nothing outside delays one of
\* them for ever.
ExitJoins ==
    [](gui # "late") /\ <>[](\A w \in awaited : running(w) => ~Delayed(w))
        => (gui = "joining" ~> gui = "joined")

\* A worker that was spawned when on_exit took the handles is not left alive
\* without being named, whoever spawned it.  Those that are had not been: the
\* show thread was still to spawn them, or had not come to push the handle, and
\* they are the saver or a fixture's, not the show nor a thread that holds a
\* socket.
LeftIsNamed ==
    gui \in {"joined", "late"} =>
        \A w \in Workers : thread[w] = "running" /\ w \notin stragglers =>
            w \in unspawned /\ (w = Saver \/ w.of > 0)
=============================================================================

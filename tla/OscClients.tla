----------------------------- MODULE OscClients -----------------------------
(***************************************************************************)
(* OSC clients: touch surfaces on the network that send control messages   *)
(* and are sent the state of the controls.  The listener thread            *)
(* (osc/listener.rs) receives datagrams and puts messages in the show's    *)
(* channel, the show thread keeps the list of clients (osc/sender.rs,      *)
(* OscClientManager) and the sender thread sends every response to all who *)
(* are in the list at that moment.  Both other threads read the list while *)
(* the show thread replaces it.                                            *)
(*                                                                         *)
(* The OSC panel of the GUI may move reception to another port: it binds a *)
(* socket itself, and the show leaves it where the listener looks for it   *)
(* after every receive.                                                    *)
(*                                                                         *)
(* Of the controls there is one, and a surface shows a level of it: the    *)
(* one it was sent, or set itself.  A datagram may be lost.                *)
(***************************************************************************)
EXTENDS Naturals, Sequences

CONSTANTS
    Clients,        \* addresses of surfaces
    Levels,         \* of the control
    Bundles,        \* what a datagram may hold: sequences of messages
    Deregister,     \* the message "/deregister"
    Ignore,         \* the message "/ignore"
    Malformed,      \* a message whose address or argument is refused
    Registration,   \* stands among them for a registration still to be emitted
    Ports,          \* UDP ports
    DEFAULT_RECEIVE_PORT,
    NoPort,         \* None
    NoClient,       \* the origin of what comes from no surface
    Unknown,        \* what a surface shows before it was sent anything
    MaxQueue,       \* bound: the places in the show's and sender's channels
    MaxInFlight     \* bound: datagrams in a socket, or on the way to a surface

Messages == Levels \cup {Deregister, Ignore, Malformed}

ASSUME MessagesAssumption ==
    /\ Levels # {} /\ Bundles \subseteq Seq(Messages)
    /\ {Deregister, Ignore, Malformed, Registration} \cap Levels = {}
    /\ Malformed # Deregister /\ Ignore # Deregister /\ Ignore # Malformed
    /\ Registration \notin Messages
ASSUME PortsAssumption ==
    DEFAULT_RECEIVE_PORT \in Ports /\ NoPort \notin Ports
ASSUME ClientsAssumption == NoClient \notin Clients
ASSUME QueueAssumption == {MaxQueue, MaxInFlight} \subseteq Nat \ {0}

VARIABLES
    view,           \* client |-> the level it shows
    missed,         \* client |-> the last datagram to or from it was lost
    network,        \* client |-> datagrams on their way to it
    sockets,        \* port |-> datagrams received, of every socket bound
    listener,       \* the listener's place in its loop
    socket,         \* the port of the socket it receives on
    forwarding,     \* the datagram in hand: its client, and what is left of it
    heard,          \* client |-> what it said last: hello, goodbye, or nothing
                    \* since the operator dropped it
    pending_socket, \* the port of the socket handed to the listener
    recv,           \* the show's channel
    handling,       \* the show thread's place in its handler
    clients,        \* the list of clients: client |-> times it is in the list
    level,          \* of the control
    responses,      \* the channel to the sender
    osc_clients,    \* the list the GUI shows
    receive_port,   \* the port the OSC panel shows
    waiting         \* the GUI waits for an answer

surface_vars == <<view, missed, network>>
listener_vars == <<sockets, listener, socket, forwarding, heard, pending_socket>>
show_vars == <<recv, handling, clients, level, responses>>
gui_vars == <<osc_clients, receive_port, waiting>>
vars == <<surface_vars, listener_vars, show_vars, gui_vars>>

HasRoom(channel) == Len(channel) < MaxQueue
\* The listener has a place of its own: the bound must not let others keep it
\* from emitting, since the real channel is unbounded.
HasListenerRoom(channel) == Len(channel) <= MaxQueue
CanTake(datagrams) == Len(datagrams) < MaxInFlight
Without(f, p) == [q \in DOMAIN f \ {p} |-> f[q]]

Listed == {c \in Clients : clients[c] > 0}

\* Messages in the show's channel.
Register(c) == [op |-> "RegisterOscClient", client |-> c]
Drop(c, reply) == [op |-> "DropOscClient", client |-> c, reply |-> reply]
Swap(p) == [op |-> "SwapOscSocket", port |-> p]
Control(c, v) == [op |-> "Control", client |-> c, level |-> v]

Init ==
    /\ view = [c \in Clients |-> Unknown]
    /\ missed = [c \in Clients |-> FALSE]
    /\ network = [c \in Clients |-> <<>>]
    /\ sockets = [p \in {DEFAULT_RECEIVE_PORT} |-> <<>>]
    /\ listener = "swap" /\ socket = DEFAULT_RECEIVE_PORT
    /\ forwarding = [client |-> NoClient, msgs |-> <<>>]
    /\ pending_socket = NoPort
    /\ heard = [c \in Clients |-> "nothing"]
    /\ recv = <<>> /\ handling = "idle" /\ clients = [c \in Clients |-> 0]
    /\ level \in Levels /\ responses = <<>> /\ osc_clients = {}
    /\ receive_port = DEFAULT_RECEIVE_PORT /\ waiting = FALSE

(***************************************************************************)
(* Surfaces and the network                                                *)
(***************************************************************************)
SetsLevel(msgs) == \E i \in DOMAIN msgs : msgs[i] \in Levels

\* A surface shows what was set on it last.
Shows(c, msgs) ==
    \/ ~SetsLevel(msgs) /\ UNCHANGED view
    \/ \E i \in DOMAIN msgs :
        /\ msgs[i] \in Levels
        /\ \A j \in DOMAIN msgs : j > i => msgs[j] \notin Levels
        /\ view' = [view EXCEPT ![c] = msgs[i]]

\* A datagram arrives at a socket, whichever port the surface is set to.
Speak(c, p, msgs) ==
    /\ CanTake(sockets[p])
    /\ Shows(c, msgs)
    /\ sockets' = [sockets EXCEPT ![p] =
            Append(@, [client |-> c, msgs |-> msgs])]
    /\ UNCHANGED <<missed, network, listener, socket, forwarding, heard,
                   pending_socket, show_vars, gui_vars>>

\* It is lost, cannot be decoded, or finds no socket at its port.
SpeakInVain(c, msgs) ==
    /\ SetsLevel(msgs)
    /\ Shows(c, msgs)
    /\ missed' = [missed EXCEPT ![c] = TRUE]
    /\ UNCHANGED <<network, listener_vars, show_vars, gui_vars>>

Deliver(c) ==
    /\ network[c] # <<>>
    /\ network' = [network EXCEPT ![c] = Tail(@)]
    /\ view' = [view EXCEPT ![c] = Head(network[c])]
    /\ missed' = [missed EXCEPT ![c] = FALSE]
    /\ UNCHANGED <<listener_vars, show_vars, gui_vars>>

Lose(c) ==
    /\ network[c] # <<>>
    /\ network' = [network EXCEPT ![c] = Tail(@)]
    /\ missed' = [missed EXCEPT ![c] = TRUE]
    /\ UNCHANGED <<view, listener_vars, show_vars, gui_vars>>

\* A socket is closed, and what it had received is gone.
Close(p) ==
    missed' = [c \in Clients |->
        \/ missed[c]
        \/ \E i \in DOMAIN sockets[p] :
                sockets[p][i].client = c /\ SetsLevel(sockets[p][i].msgs)]

(***************************************************************************)
(* The listener thread                                                     *)
(***************************************************************************)
swap_pending_socket ==
    /\ listener = "swap" /\ listener' = "receive"
    /\ IF pending_socket = NoPort
       THEN UNCHANGED <<missed, sockets, socket, pending_socket>>
       ELSE /\ socket' = pending_socket /\ pending_socket' = NoPort
            /\ Close(socket) /\ sockets' = Without(sockets, socket)
    /\ UNCHANGED <<view, network, forwarding, heard, show_vars, gui_vars>>

\* Mutant: the client is registered after its messages.
to_forward_Reversed(c, msgs) ==
    IF c \in Listed THEN msgs ELSE Append(msgs, Registration)

\* A client that is not in the list is registered first.
to_forward(c, msgs) ==
    IF c \in Listed THEN msgs ELSE <<Registration>> \o msgs

recv_from ==
    /\ listener = "receive" /\ sockets[socket] # <<>>
    /\ LET d == Head(sockets[socket])
       IN  /\ forwarding' = [d EXCEPT !.msgs = to_forward(d.client, d.msgs)]
           /\ heard' = [heard EXCEPT ![d.client] = "hello"]
    /\ sockets' = [sockets EXCEPT ![socket] = Tail(@)]
    /\ listener' = "forward"
    /\ UNCHANGED <<surface_vars, socket, pending_socket, show_vars, gui_vars>>

\* Mutant: after a timeout it receives again.
recv_timeout_Again ==
    /\ listener = "receive" /\ sockets[socket] = <<>>
    /\ UNCHANGED vars

\* Nothing comes for READ_TIMEOUT.
recv_timeout ==
    /\ listener = "receive" /\ sockets[socket] = <<>>
    /\ listener' = "swap"
    /\ UNCHANGED <<surface_vars, sockets, socket, forwarding, heard,
                   pending_socket, show_vars, gui_vars>>

sender_addr == forwarding.client

Forwarding(m) ==
    /\ listener = "forward" /\ forwarding.msgs # <<>>
    /\ Head(forwarding.msgs) = m

emit(message) ==
    /\ HasListenerRoom(recv)
    /\ recv' = Append(recv, message)
    /\ forwarding' = [forwarding EXCEPT !.msgs = Tail(@)]
    /\ UNCHANGED <<surface_vars, sockets, listener, socket, pending_socket,
                   handling, clients, level, responses, gui_vars>>

EmitRegistration ==
    Forwarding(Registration) /\ emit(Register(sender_addr)) /\ UNCHANGED heard

EmitDeregistration ==
    /\ Forwarding(Deregister) /\ emit(Drop(sender_addr, FALSE))
    /\ heard' = [heard EXCEPT ![sender_addr] = "goodbye"]

EmitControl ==
    \E v \in Levels :
        /\ Forwarding(v) /\ emit(Control(sender_addr, v))
        /\ heard' = [heard EXCEPT ![sender_addr] =
                IF @ = "goodbye" THEN "hello" ELSE @]

IgnoreMessage ==
    /\ Forwarding(Ignore)
    /\ forwarding' = [forwarding EXCEPT !.msgs = Tail(@)]
    /\ UNCHANGED <<surface_vars, sockets, listener, socket, heard,
                   pending_socket, show_vars, gui_vars>>

\* A bad message ends its datagram, bundles around it included.
RefuseMessage ==
    /\ Forwarding(Malformed)
    /\ forwarding' = [forwarding EXCEPT !.msgs = <<>>]
    /\ missed' = [missed EXCEPT ![sender_addr] = @ \/ SetsLevel(forwarding.msgs)]
    /\ UNCHANGED <<view, network, sockets, listener, socket, heard,
                   pending_socket, show_vars, gui_vars>>

forwarded ==
    /\ listener = "forward" /\ forwarding.msgs = <<>>
    /\ listener' = "swap"
    /\ UNCHANGED <<surface_vars, sockets, socket, forwarding, heard,
                   pending_socket, show_vars, gui_vars>>

(***************************************************************************)
(* The show thread                                                         *)
(***************************************************************************)
Received(op) ==
    /\ handling = "idle" /\ recv # <<>> /\ Head(recv).op = op
    /\ recv' = Tail(recv)

Respond(v) == HasRoom(responses) /\ responses' = Append(responses, v)

\* Mutant: a client may be in the list twice.
register_Twice(c) == clients' = [clients EXCEPT ![c] = @ + 1]

register(c) == clients' = [clients EXCEPT ![c] = IF @ > 0 THEN @ ELSE 1]

deregister(c) == clients' = [clients EXCEPT ![c] = 0]

\* Mutant: who is registered is not sent the state.
RegisterOscClient_Unrefreshed ==
    /\ Received("RegisterOscClient")
    /\ register(Head(recv).client)
    /\ handling' = "snapshot"
    /\ UNCHANGED <<surface_vars, listener_vars, level, responses, gui_vars>>

RegisterOscClient ==
    /\ Received("RegisterOscClient")
    /\ register(Head(recv).client)
    /\ handling' = "refresh"
    /\ UNCHANGED <<surface_vars, listener_vars, level, responses, gui_vars>>

refresh_ui ==
    /\ handling = "refresh" /\ handling' = "snapshot"
    /\ Respond(level)
    /\ UNCHANGED <<surface_vars, listener_vars, recv, clients, level, gui_vars>>

DropOscClient ==
    /\ Received("DropOscClient")
    /\ deregister(Head(recv).client)
    /\ handling' = "snapshot"
    /\ IF Head(recv).reply
       THEN /\ waiting' = FALSE
            /\ heard' = [heard EXCEPT ![Head(recv).client] = "nothing"]
       ELSE UNCHANGED <<waiting, heard>>
    /\ UNCHANGED <<surface_vars, sockets, listener, socket, forwarding,
                   pending_socket, level, responses, osc_clients, receive_port>>

\* Mutant: a socket that is still waiting stays.
SwapOscSocket_KeepFirst ==
    /\ Received("SwapOscSocket")
    /\ pending_socket' = IF pending_socket = NoPort
                         THEN Head(recv).port ELSE pending_socket
    /\ waiting' = FALSE
    /\ UNCHANGED <<surface_vars, sockets, listener, socket, forwarding, heard,
                   handling, clients, level, responses, osc_clients,
                   receive_port>>

\* swap_socket: one that the listener has not taken yet is closed.
SwapOscSocket ==
    /\ Received("SwapOscSocket")
    /\ pending_socket' = Head(recv).port
    /\ IF pending_socket = NoPort
       THEN UNCHANGED <<missed, sockets>>
       ELSE Close(pending_socket) /\ sockets' = Without(sockets, pending_socket)
    /\ waiting' = FALSE
    /\ UNCHANGED <<view, network, listener, socket, forwarding, heard, handling,
                   clients, level, responses, osc_clients, receive_port>>

\* The handler of a control emits its new state.
ControlMoved ==
    /\ Received("Control")
    /\ level' = Head(recv).level
    /\ Respond(Head(recv).level)
    /\ UNCHANGED <<surface_vars, listener_vars, handling, clients, gui_vars>>

snapshot_state ==
    /\ handling = "snapshot" /\ handling' = "idle"
    /\ osc_clients' = Listed
    /\ UNCHANGED <<surface_vars, listener_vars, recv, clients, level, responses,
                   receive_port, waiting>>

\* The control is moved from a device that is no OSC client.
MoveElsewhere(v) ==
    /\ HasRoom(recv)
    /\ recv' = Append(recv, Control(NoClient, v))
    /\ UNCHANGED <<surface_vars, listener_vars, handling, clients, level,
                   responses, gui_vars>>

(***************************************************************************)
(* The sender thread.  It reads the list anew for every response.          *)
(***************************************************************************)
send ==
    /\ responses # <<>>
    /\ \A c \in Listed : CanTake(network[c])
    /\ responses' = Tail(responses)
    /\ network' = [c \in Clients |->
            network[c] \o [i \in 1 .. clients[c] |-> Head(responses)]]
    /\ UNCHANGED <<view, missed, listener_vars, recv, handling, clients, level,
                   gui_vars>>

(***************************************************************************)
(* The OSC panel                                                           *)
(***************************************************************************)
\* A port is bound before the show is asked to use it; one that is bound
\* already, by this program or another, is refused and changes nothing.
ChangePort(p) ==
    /\ ~waiting /\ HasRoom(recv) /\ p \notin DOMAIN sockets
    /\ sockets' = [q \in DOMAIN sockets \cup {p} |->
            IF q = p THEN <<>> ELSE sockets[q]]
    /\ receive_port' = p
    /\ recv' = Append(recv, Swap(p)) /\ waiting' = TRUE
    /\ UNCHANGED <<surface_vars, listener, socket, forwarding, heard,
                   pending_socket, handling, clients, level, responses,
                   osc_clients>>

DropClicked(c) ==
    /\ ~waiting /\ HasRoom(recv) /\ c \in osc_clients
    /\ recv' = Append(recv, Drop(c, TRUE)) /\ waiting' = TRUE
    /\ UNCHANGED <<surface_vars, listener_vars, handling, clients, level,
                   responses, osc_clients, receive_port>>

Listener ==
    \/ swap_pending_socket \/ recv_from \/ recv_timeout
    \/ EmitRegistration \/ EmitDeregistration \/ EmitControl
    \/ IgnoreMessage \/ RefuseMessage \/ forwarded

Show ==
    \/ RegisterOscClient \/ refresh_ui \/ DropOscClient \/ SwapOscSocket
    \/ ControlMoved \/ snapshot_state

Surface(c) ==
    \E msgs \in Bundles :
        (\E p \in DOMAIN sockets : Speak(c, p, msgs)) \/ SpeakInVain(c, msgs)

Next ==
    \/ \E c \in Clients : Surface(c) \/ Deliver(c) \/ Lose(c)
    \/ Listener \/ Show \/ send
    \/ \E v \in Levels : MoveElsewhere(v)
    \/ \E p \in Ports : ChangePort(p)
    \/ \E c \in Clients : DropClicked(c)

Spec == Init /\ [][Next]_vars

\* The threads are scheduled, and a datagram arrives or is lost.
FairSpec ==
    /\ Spec
    /\ WF_vars(Listener) /\ WF_vars(Show) /\ WF_vars(send)
    /\ \A c \in Clients : WF_vars(Deliver(c) \/ Lose(c))

(***************************************************************************)
(* Properties                                                              *)
(***************************************************************************)
Datagrams == [client : Clients, msgs : Bundles]

ControlMessages ==
    {Register(c) : c \in Clients}
    \cup {Drop(c, reply) : c \in Clients, reply \in BOOLEAN}
    \cup {Swap(p) : p \in Ports}
    \cup {Control(c, v) : c \in Clients \cup {NoClient}, v \in Levels}

\* Every variable has its type, and no socket that is received on, or waits
\* for the listener, has been closed.
TypeOK ==
    /\ view \in [Clients -> Levels \cup {Unknown}]
    /\ missed \in [Clients -> BOOLEAN]
    /\ network \in [Clients -> Seq(Levels)]
    /\ DOMAIN sockets \subseteq Ports
    /\ sockets \in [DOMAIN sockets -> Seq(Datagrams)]
    /\ listener \in {"swap", "receive", "forward"}
    /\ socket \in DOMAIN sockets
    /\ forwarding \in [client : Clients \cup {NoClient},
                       msgs : Seq(Messages \cup {Registration})]
    /\ forwarding.client = NoClient => forwarding.msgs = <<>>
    /\ heard \in [Clients -> {"nothing", "hello", "goodbye"}]
    /\ pending_socket \in DOMAIN sockets \cup {NoPort}
    /\ recv \in Seq(ControlMessages)
    /\ handling \in {"idle", "refresh", "snapshot"}
    /\ clients \in [Clients -> Nat]
    /\ level \in Levels /\ responses \in Seq(Levels)
    /\ osc_clients \subseteq Clients
    /\ receive_port \in Ports /\ waiting \in BOOLEAN

\* A client is in the list once, however many of its datagrams the listener
\* receives before the show has registered it (OscClientManager::register),
\* so that it is sent everything once.
OneCopyEach == \A c \in Clients : clients[c] <= 1

\* No control that c has moved is on its way to the show.
NothingFrom(c) ==
    /\ \A p \in DOMAIN sockets : \A i \in DOMAIN sockets[p] :
            ~(sockets[p][i].client = c /\ SetsLevel(sockets[p][i].msgs))
    /\ ~(forwarding.client = c /\ SetsLevel(forwarding.msgs))
    /\ \A i \in DOMAIN recv : ~(recv[i].op = "Control" /\ recv[i].client = c)

\* A registered client shows the level there is once all that is on its way
\* has arrived, unless the last of it was lost: it is in the list before the
\* refresh, and what it missed before comes with the refresh.
ViewCurrent ==
    \A c \in Listed :
        /\ NothingFrom(c) /\ ~missed[c]
        /\ handling # "refresh" /\ responses = <<>> /\ network[c] = <<>>
        => view[c] = level

Registers(m, c) == m.op = "RegisterOscClient" /\ m.client = c
Drops(m, c) == m.op = "DropOscClient" /\ m.client = c

\* Nothing on its way to the show adds c to the list or takes it out.
ListSettled(c) ==
    /\ ~ /\ forwarding.client = c
         /\ \E i \in DOMAIN forwarding.msgs :
                forwarding.msgs[i] \in {Registration, Deregister}
    /\ \A i \in DOMAIN recv : ~Registers(recv[i], c) /\ ~Drops(recv[i], c)

\* A client that said goodbye last is taken out, and stays out: no
\* registration comes after the goodbye (listener.rs, OscListener::run).
GoodbyeHonoured ==
    \A c \in Clients :
        heard[c] = "goodbye" /\ ListSettled(c) => c \notin Listed

\* The listener will end up with the socket whose port the panel shows: it
\* is the last in the channel, or else the one handed over, or else the one
\* in use.
NewestPortWins ==
    LET swaps == {i \in DOMAIN recv : recv[i].op = "SwapOscSocket"}
    IN  IF swaps # {}
        THEN \E i \in swaps :
                /\ \A j \in swaps : j <= i
                /\ recv[i].port = receive_port
        ELSE receive_port =
                IF pending_socket # NoPort THEN pending_socket ELSE socket

\* The port that the panel shows is received on, unless it is changed again.
PortServed ==
    \A p \in Ports :
        receive_port = p ~> (socket = p \/ receive_port # p)
=============================================================================

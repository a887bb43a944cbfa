----------------------------- MODULE OscProofs ------------------------------
(***************************************************************************)
(* Proofs of the safety properties of OscClients, for any number of        *)
(* surfaces and ports, for all datagrams and channels of any capacity.     *)
(***************************************************************************)
EXTENDS OscClients, TLAPS, SequenceTheorems

(***************************************************************************)
(* Channels                                                                *)
(***************************************************************************)

(* Taking the first of a channel moves all others one place forward.       *)
LEMMA Took ==
  ASSUME NEW S, NEW s \in Seq(S), s # <<>>
  PROVE  /\ Len(s) \in Nat \ {0} /\ DOMAIN s = 1 .. Len(s)
         /\ Head(s) = s[1] /\ s[1] \in S
         /\ Tail(s) \in Seq(S) /\ Len(Tail(s)) = Len(s) - 1
         /\ DOMAIN Tail(s) = 1 .. Len(s) - 1
         /\ \A i \in 1 .. Len(s) - 1 : Tail(s)[i] = s[i + 1]
<1>1. Len(s) \in Nat \ {0} /\ DOMAIN s = 1 .. Len(s)
  BY EmptySeq, LenProperties
<1>2. s[1] \in S
  BY <1>1, ElementOfSeq
<1>3. /\ Tail(s) \in Seq(S) /\ Len(Tail(s)) = Len(s) - 1
      /\ \A i \in 1 .. Len(Tail(s)) : Tail(s)[i] = s[i + 1]
  BY HeadTailProperties
<1>4. DOMAIN Tail(s) = 1 .. Len(s) - 1
  BY <1>3, LenProperties
<1>5. Head(s) = s[1]
  OBVIOUS
<1> QED
  BY <1>1, <1>2, <1>3, <1>4, <1>5

(* Putting one at the end of a channel leaves all others where they are.   *)
LEMMA Put ==
  ASSUME NEW S, NEW s \in Seq(S), NEW x \in S
  PROVE  /\ Len(s) \in Nat /\ DOMAIN s = 1 .. Len(s)
         /\ Append(s, x) \in Seq(S) /\ Len(Append(s, x)) = Len(s) + 1
         /\ DOMAIN Append(s, x) = 1 .. Len(s) + 1
         /\ Append(s, x)[Len(s) + 1] = x
         /\ \A i \in 1 .. Len(s) : Append(s, x)[i] = s[i]
<1>1. Len(s) \in Nat /\ DOMAIN s = 1 .. Len(s)
  BY LenProperties
<1>2. /\ Append(s, x) \in Seq(S) /\ Len(Append(s, x)) = Len(s) + 1
      /\ \A i \in 1 .. Len(s) : Append(s, x)[i] = s[i]
      /\ Append(s, x)[Len(s) + 1] = x
  BY AppendProperties
<1>3. DOMAIN Append(s, x) = 1 .. Len(s) + 1
  BY <1>2, LenProperties
<1> QED
  BY <1>1, <1>2, <1>3

(* The messages in the show's channel and what they carry.                 *)
LEMMA MessageKinds ==
  /\ \A c \in Clients :
        /\ Register(c) \in ControlMessages
        /\ Register(c).op = "RegisterOscClient" /\ Register(c).client = c
  /\ \A c \in Clients, reply \in BOOLEAN :
        /\ Drop(c, reply) \in ControlMessages
        /\ Drop(c, reply).op = "DropOscClient" /\ Drop(c, reply).client = c
  /\ \A p \in Ports :
        /\ Swap(p) \in ControlMessages
        /\ Swap(p).op = "SwapOscSocket" /\ Swap(p).port = p
  /\ \A c \in Clients \cup {NoClient}, v \in Levels :
        /\ Control(c, v) \in ControlMessages
        /\ Control(c, v).op = "Control" /\ Control(c, v).client = c
  /\ \A m \in ControlMessages :
        /\ m.op = "RegisterOscClient" => m.client \in Clients
        /\ m.op = "DropOscClient" => m.client \in Clients
        /\ m.op = "SwapOscSocket" => m.port \in Ports
        /\ m.op = "Control" => m.level \in Levels
<1>1. /\ \A c \in Clients :
            Register(c).op = "RegisterOscClient" /\ Register(c).client = c
      /\ \A c \in Clients, reply \in BOOLEAN :
            /\ Drop(c, reply).op = "DropOscClient"
            /\ Drop(c, reply).client = c
      /\ \A p \in Ports : Swap(p).op = "SwapOscSocket" /\ Swap(p).port = p
      /\ \A c \in Clients \cup {NoClient}, v \in Levels :
            /\ Control(c, v).op = "Control" /\ Control(c, v).client = c
            /\ Control(c, v).level = v
  BY DEF Register, Drop, Swap, Control
<1>2. /\ \A c \in Clients : Register(c) \in ControlMessages
      /\ \A c \in Clients, reply \in BOOLEAN :
            Drop(c, reply) \in ControlMessages
      /\ \A p \in Ports : Swap(p) \in ControlMessages
      /\ \A c \in Clients \cup {NoClient}, v \in Levels :
            Control(c, v) \in ControlMessages
  BY DEF ControlMessages
<1>3. ASSUME NEW m \in ControlMessages
      PROVE  /\ m.op = "RegisterOscClient" => m.client \in Clients
             /\ m.op = "DropOscClient" => m.client \in Clients
             /\ m.op = "SwapOscSocket" => m.port \in Ports
             /\ m.op = "Control" => m.level \in Levels
  <2>1. \/ \E c \in Clients : m = Register(c)
        \/ \E c \in Clients, reply \in BOOLEAN : m = Drop(c, reply)
        \/ \E p \in Ports : m = Swap(p)
        \/ \E c \in Clients \cup {NoClient}, v \in Levels :
                m = Control(c, v)
    BY DEF ControlMessages
  <2> QED
    BY <1>1, <2>1
<1> QED
  BY <1>1, <1>2, <1>3

(***************************************************************************)
(* What is in a channel                                                    *)
(***************************************************************************)
Swaps(r) == {i \in DOMAIN r : r[i].op = "SwapOscSocket"}

\* Port p is the last that is asked for in r.
Newest(r, p) ==
    \E i \in Swaps(r) : (\A j \in Swaps(r) : j <= i) /\ r[i].port = p

\* Ports that are asked for in r are among P and different.
PortsApart(r, P) ==
    \A i \in Swaps(r) :
        /\ r[i].port \in P
        /\ \A j \in Swaps(r) : r[j].port = r[i].port => j = i

ControlFrom(r, c) ==
    \E i \in DOMAIN r : r[i].op = "Control" /\ r[i].client = c

Leaves(r, c) == \E j \in DOMAIN r : Drops(r[j], c)

\* Client c is dropped after each time it is registered.
LeavesLast(r, c) ==
    \A i \in DOMAIN r :
        Registers(r[i], c) => \E j \in DOMAIN r : j > i /\ Drops(r[j], c)

(* What taking the first message of the show's channel does to these.      *)
LEMMA TookSwap ==
  ASSUME NEW r \in Seq(ControlMessages), r # <<>>, NEW p, NEW P
  PROVE  /\ Head(r).op # "SwapOscSocket" =>
                /\ Swaps(Tail(r)) = {} <=> Swaps(r) = {}
                /\ Newest(r, p) => Newest(Tail(r), p)
         /\ Head(r).op = "SwapOscSocket" =>
                /\ Swaps(r) # {}
                /\ Newest(r, p) => IF Swaps(Tail(r)) = {} THEN p = Head(r).port
                                   ELSE Newest(Tail(r), p)
                /\ PortsApart(r, P) =>
                        /\ Head(r).port \in P
                        /\ PortsApart(Tail(r), P \ {Head(r).port})
         /\ PortsApart(r, P) => PortsApart(Tail(r), P)
<1>1. /\ Len(r) \in Nat \ {0} /\ DOMAIN r = 1 .. Len(r) /\ Head(r) = r[1]
      /\ DOMAIN Tail(r) = 1 .. Len(r) - 1
      /\ \A i \in 1 .. Len(r) - 1 : Tail(r)[i] = r[i + 1]
  BY Took
<1>2. \A i \in Swaps(Tail(r)) :
        i \in Nat \ {0} /\ i + 1 \in Swaps(r) /\ Tail(r)[i] = r[i + 1]
  BY <1>1 DEF Swaps
<1>3. \A i \in Swaps(r) :
        \/ i = 1 /\ Head(r).op = "SwapOscSocket"
        \/ i \in Nat /\ i - 1 \in Swaps(Tail(r)) /\ Tail(r)[i - 1] = r[i]
  BY <1>1 DEF Swaps
<1>4. Head(r).op = "SwapOscSocket" => 1 \in Swaps(r)
  BY <1>1 DEF Swaps
<1>5. ASSUME NEW i \in Swaps(r), \A j \in Swaps(r) : j <= i, i # 1
      PROVE  Newest(Tail(r), r[i].port)
  <2>1. /\ i \in Nat /\ i - 1 \in Swaps(Tail(r))
        /\ Tail(r)[i - 1] = r[i]
    BY <1>3, <1>5
  <2>2. \A j \in Swaps(Tail(r)) : j <= i - 1
    BY <1>2, <1>5, <2>1
  <2> QED
    BY <2>1, <2>2 DEF Newest
<1>6. ASSUME Newest(r, p)
      PROVE  IF Swaps(Tail(r)) = {}
             THEN Head(r).op = "SwapOscSocket" /\ p = Head(r).port
             ELSE Newest(Tail(r), p)
  <2>1. PICK i \in Swaps(r) : (\A j \in Swaps(r) : j <= i) /\ r[i].port = p
    BY <1>6 DEF Newest
  <2>2. CASE i # 1
    BY <1>3, <1>5, <2>1, <2>2
  <2>3. CASE i = 1
    <3>1. ASSUME NEW k \in Swaps(Tail(r))
          PROVE  FALSE
      <4>1. k \in Nat \ {0} /\ k + 1 <= 1
        BY <1>2, <2>1, <2>3
      <4> QED
        BY <4>1
    <3>2. Head(r).op = "SwapOscSocket"
      BY <1>1, <2>3 DEF Swaps
    <3> QED
      BY <1>1, <2>1, <2>3, <3>1, <3>2
  <2> QED
    BY <2>2, <2>3
<1>7. ASSUME PortsApart(r, P), NEW i \in Swaps(Tail(r))
      PROVE  /\ Tail(r)[i].port \in P
             /\ \A j \in Swaps(Tail(r)) :
                    Tail(r)[j].port = Tail(r)[i].port => j = i
             /\ Head(r).op = "SwapOscSocket" => Tail(r)[i].port # Head(r).port
  <2>1. i \in Nat \ {0} /\ i + 1 \in Swaps(r) /\ Tail(r)[i] = r[i + 1]
    BY <1>2
  <2>2. ASSUME NEW j \in Swaps(Tail(r)), Tail(r)[j].port = Tail(r)[i].port
        PROVE  j = i
    <3>1. j \in Nat \ {0} /\ j + 1 \in Swaps(r) /\ Tail(r)[j] = r[j + 1]
      BY <1>2
    <3>2. j + 1 = i + 1
      BY <1>7, <2>1, <2>2, <3>1 DEF PortsApart
    <3> QED
      BY <2>1, <3>1, <3>2
  <2>3. ASSUME Head(r).op = "SwapOscSocket", Tail(r)[i].port = Head(r).port
        PROVE  FALSE
    <3>1. 1 = i + 1
      BY <1>1, <1>4, <1>7, <2>1, <2>3 DEF PortsApart
    <3> QED
      BY <2>1, <3>1
  <2> QED
    BY <1>7, <2>1, <2>2, <2>3 DEF PortsApart
<1>8. /\ PortsApart(r, P) => PortsApart(Tail(r), P)
      /\ PortsApart(r, P) /\ Head(r).op = "SwapOscSocket" =>
            Head(r).port \in P /\ PortsApart(Tail(r), P \ {Head(r).port})
  BY <1>1, <1>4, <1>7 DEF PortsApart
<1>9. /\ Swaps(r) = {} => Swaps(Tail(r)) = {}
      /\ Swaps(Tail(r)) = {} /\ Head(r).op # "SwapOscSocket" => Swaps(r) = {}
  BY <1>2, <1>3
<1>10. Newest(r, p) => Swaps(r) # {}
  BY DEF Newest
<1> HIDE DEF Swaps, Newest, PortsApart
<1> QED
  BY <1>4, <1>6, <1>8, <1>9, <1>10

(* What putting a message in does to them.                                 *)
LEMMA PutSwap ==
  ASSUME NEW r \in Seq(ControlMessages), NEW m \in ControlMessages,
         NEW p, NEW P
  PROVE  /\ m.op # "SwapOscSocket" =>
                /\ Swaps(Append(r, m)) = Swaps(r)
                /\ Newest(r, p) => Newest(Append(r, m), p)
                /\ PortsApart(r, P) => PortsApart(Append(r, m), P)
         /\ m.op = "SwapOscSocket" =>
                /\ Swaps(Append(r, m)) # {} /\ Newest(Append(r, m), m.port)
                /\ PortsApart(r, P) /\ m.port \notin P =>
                        PortsApart(Append(r, m), P \cup {m.port})
<1>1. /\ Len(r) \in Nat /\ DOMAIN r = 1 .. Len(r)
      /\ DOMAIN Append(r, m) = 1 .. Len(r) + 1
      /\ Append(r, m)[Len(r) + 1] = m
      /\ \A i \in 1 .. Len(r) : Append(r, m)[i] = r[i]
  BY Put
<1>2. /\ \A i \in Swaps(r) : i \in 1 .. Len(r) /\ Append(r, m)[i] = r[i]
      /\ Swaps(Append(r, m)) = Swaps(r) \cup
            (IF m.op = "SwapOscSocket" THEN {Len(r) + 1} ELSE {})
  BY <1>1 DEF Swaps
<1>3. CASE m.op # "SwapOscSocket"
  BY <1>2, <1>3 DEF Newest, PortsApart
<1>4. CASE m.op = "SwapOscSocket"
  <2>1. Len(r) + 1 \in Swaps(Append(r, m))
    BY <1>2, <1>4
  <2>2. \A j \in Swaps(Append(r, m)) : j <= Len(r) + 1
    BY <1>1, <1>2
  <2>3. PortsApart(r, P) /\ m.port \notin P =>
            PortsApart(Append(r, m), P \cup {m.port})
    BY <1>1, <1>2, <1>4 DEF PortsApart
  <2> QED
    BY <1>1, <1>4, <2>1, <2>2, <2>3 DEF Newest
<1> QED
  BY <1>3, <1>4

(* Of the messages about a client, taking the first forgets only that one. *)
LEMMA TookFrom ==
  ASSUME NEW r \in Seq(ControlMessages), r # <<>>, NEW c
  PROVE  /\ ControlFrom(r, c) /\ Head(r).op # "Control" =>
                ControlFrom(Tail(r), c)
         /\ Leaves(r, c) /\ ~Drops(Head(r), c) => Leaves(Tail(r), c)
         /\ LeavesLast(r, c) =>
                /\ LeavesLast(Tail(r), c)
                /\ Registers(Head(r), c) => Leaves(Tail(r), c)
<1>1. /\ Len(r) \in Nat \ {0} /\ DOMAIN r = 1 .. Len(r) /\ Head(r) = r[1]
      /\ DOMAIN Tail(r) = 1 .. Len(r) - 1
      /\ \A i \in 1 .. Len(r) - 1 : Tail(r)[i] = r[i + 1]
  BY Took
<1>2. \A i \in DOMAIN r :
        i # 1 => i - 1 \in DOMAIN Tail(r) /\ Tail(r)[i - 1] = r[i]
  BY <1>1
<1>3. ControlFrom(r, c) /\ Head(r).op # "Control" => ControlFrom(Tail(r), c)
  BY <1>1, <1>2 DEF ControlFrom
<1>4. Leaves(r, c) /\ ~Drops(Head(r), c) => Leaves(Tail(r), c)
  BY <1>1, <1>2 DEF Leaves
<1>5. ASSUME LeavesLast(r, c), NEW i \in DOMAIN r, Registers(r[i], c)
      PROVE  \E j \in DOMAIN Tail(r) : j + 1 > i /\ Drops(Tail(r)[j], c)
  <2>1. PICK j \in DOMAIN r : j > i /\ Drops(r[j], c)
    BY <1>5 DEF LeavesLast
  <2>2. /\ j - 1 \in DOMAIN Tail(r) /\ Tail(r)[j - 1] = r[j]
        /\ (j - 1) + 1 > i
    BY <1>1, <1>2, <2>1
  <2> QED
    BY <2>1, <2>2
<1>6. ASSUME LeavesLast(r, c), NEW i \in DOMAIN Tail(r),
             Registers(Tail(r)[i], c)
      PROVE  \E j \in DOMAIN Tail(r) : j > i /\ Drops(Tail(r)[j], c)
  <2>1. i \in Nat /\ i + 1 \in DOMAIN r /\ Registers(r[i + 1], c)
    BY <1>1, <1>6
  <2>2. PICK j \in DOMAIN Tail(r) : j + 1 > i + 1 /\ Drops(Tail(r)[j], c)
    BY <1>5, <1>6, <2>1
  <2> QED
    BY <1>1, <2>1, <2>2
<1>7. ASSUME LeavesLast(r, c), Registers(Head(r), c)
      PROVE  Leaves(Tail(r), c)
  BY <1>1, <1>5, <1>7 DEF Leaves
<1> QED
  BY <1>3, <1>4, <1>6, <1>7 DEF LeavesLast

(* Putting a message in forgets none.                                      *)
LEMMA PutFrom ==
  ASSUME NEW r \in Seq(ControlMessages), NEW m \in ControlMessages, NEW c
  PROVE  /\ ControlFrom(r, c) => ControlFrom(Append(r, m), c)
         /\ m.op = "Control" /\ m.client = c => ControlFrom(Append(r, m), c)
         /\ Leaves(r, c) => Leaves(Append(r, m), c)
         /\ LeavesLast(r, c) /\ ~Registers(m, c) =>
                LeavesLast(Append(r, m), c)
         /\ Drops(m, c) =>
                Leaves(Append(r, m), c) /\ LeavesLast(Append(r, m), c)
<1>1. /\ Len(r) \in Nat /\ DOMAIN r = 1 .. Len(r)
      /\ DOMAIN Append(r, m) = 1 .. Len(r) + 1
      /\ Append(r, m)[Len(r) + 1] = m
      /\ \A i \in 1 .. Len(r) : Append(r, m)[i] = r[i]
  BY Put
<1>2. /\ Len(r) + 1 \in DOMAIN Append(r, m)
      /\ \A i \in DOMAIN r :
            i \in DOMAIN Append(r, m) /\ Append(r, m)[i] = r[i]
      /\ \A i \in DOMAIN Append(r, m) : i \in DOMAIN r \/ i = Len(r) + 1
      /\ \A i \in DOMAIN r : Len(r) + 1 > i
  BY <1>1
<1>3. ControlFrom(r, c) => ControlFrom(Append(r, m), c)
  BY <1>2 DEF ControlFrom
<1>4. m.op = "Control" /\ m.client = c => ControlFrom(Append(r, m), c)
  BY <1>1, <1>2 DEF ControlFrom
<1>5. Leaves(r, c) => Leaves(Append(r, m), c)
  BY <1>2 DEF Leaves
<1>6. LeavesLast(r, c) /\ ~Registers(m, c) => LeavesLast(Append(r, m), c)
  BY <1>1, <1>2 DEF LeavesLast
<1>7. ASSUME Drops(m, c)
      PROVE  Leaves(Append(r, m), c) /\ LeavesLast(Append(r, m), c)
  <2>1. ~Registers(m, c)
    BY <1>7 DEF Drops, Registers
  <2> QED
    BY <1>1, <1>2, <1>7, <2>1 DEF Leaves, LeavesLast
<1> QED
  BY <1>3, <1>4, <1>5, <1>6, <1>7
(***************************************************************************)
(* The inductive invariant                                                 *)
(***************************************************************************)
\* Sockets that wait in the channel are bound, and are neither in use nor
\* handed over.
SocketsInv ==
    /\ pending_socket # socket
    /\ PortsApart(recv, DOMAIN sockets \ {socket, pending_socket})

\* The listener has a datagram in hand only while it forwards it, and emits
\* a registration before anything else.
ForwardInv ==
    /\ listener # "forward" => forwarding.msgs = <<>>
    /\ \A i \in DOMAIN forwarding.msgs :
            forwarding.msgs[i] = Registration => i = 1

\* What is sent last to a client is the level there is.
LevelInv ==
    /\ responses # <<>> => responses[Len(responses)] = level
    /\ \A c \in Listed :
            handling # "refresh" /\ responses = <<>> /\ network[c] # <<>>
            => network[c][Len(network[c])] = level

\* A client that said goodbye last is dropped after all registrations.
LeavingInv ==
    \A c \in Clients : heard[c] = "goodbye" =>
        /\ forwarding.client = c =>
                \A i \in DOMAIN forwarding.msgs :
                    forwarding.msgs[i] # Registration
        /\ LeavesLast(recv, c)
        /\ c \in Listed => Leaves(recv, c)

IInv ==
    /\ TypeOK /\ SocketsInv /\ ForwardInv
    /\ OneCopyEach /\ NewestPortWins /\ LevelInv /\ ViewCurrent /\ LeavingInv
(* The initial states satisfy it.                                          *)
LEMMA InitInv == Init => IInv
<1> SUFFICES ASSUME Init PROVE IInv
  OBVIOUS
<1> USE DEF Init
<1>1. TypeOK
  <2>1. /\ network \in [Clients -> Seq(Levels)]
        /\ sockets \in [DOMAIN sockets -> Seq(Datagrams)]
        /\ DOMAIN sockets = {DEFAULT_RECEIVE_PORT}
    OBVIOUS
  <2>2. forwarding \in [client : Clients \cup {NoClient},
                       msgs : Seq(Messages \cup {Registration})]
    OBVIOUS
  <2>3. /\ view \in [Clients -> Levels \cup {Unknown}]
        /\ missed \in [Clients -> BOOLEAN]
        /\ heard \in [Clients -> {"nothing", "hello", "goodbye"}]
        /\ clients \in [Clients -> Nat]
    OBVIOUS
  <2>4. /\ recv \in Seq(ControlMessages) /\ responses \in Seq(Levels)
        /\ forwarding.msgs = <<>>
    OBVIOUS
  <2> QED
    BY <2>1, <2>2, <2>3, <2>4, PortsAssumption DEF TypeOK
<1>2. SocketsInv /\ NewestPortWins
  BY PortsAssumption DEF SocketsInv, PortsApart, Swaps, NewestPortWins
<1>3. ForwardInv
  BY DEF ForwardInv
<1>4. OneCopyEach /\ LevelInv /\ ViewCurrent
  BY DEF OneCopyEach, LevelInv, ViewCurrent, Listed
<1>5. LeavingInv
  BY DEF LeavingInv
<1> QED
  BY <1>1, <1>2, <1>3, <1>4, <1>5 DEF IInv

(***************************************************************************)
(* Types                                                                   *)
(***************************************************************************)
(* Every step keeps the types; no socket in use or handed over is closed.   *)
LEMMA TypeStep == IInv /\ [Next]_vars => TypeOK'
<1> SUFFICES ASSUME IInv, [Next]_vars PROVE TypeOK'
  OBVIOUS
<1> USE DEF TypeOK, surface_vars, listener_vars, show_vars, gui_vars
<1>0. TypeOK /\ SocketsInv
  BY DEF IInv
<1>1. ASSUME NEW c \in Clients, NEW msgs \in Bundles, Shows(c, msgs)
      PROVE  view' \in [Clients -> Levels \cup {Unknown}]
  BY <1>0, <1>1 DEF Shows
<1>2. ASSUME NEW c \in Clients, NEW msgs \in Bundles, NEW p \in DOMAIN sockets,
             Speak(c, p, msgs)
      PROVE  TypeOK'
  <2>1. [client |-> c, msgs |-> msgs] \in Datagrams
    BY DEF Datagrams
  <2>2. Append(sockets[p], [client |-> c, msgs |-> msgs]) \in Seq(Datagrams)
    BY <1>0, <2>1
  <2> QED
    BY <1>0, <1>1, <1>2, <2>2 DEF Speak
<1>3. ASSUME NEW c \in Clients, NEW msgs \in Bundles, SpeakInVain(c, msgs)
      PROVE  TypeOK'
  BY <1>0, <1>1, <1>3 DEF SpeakInVain
<1>4. ASSUME NEW c \in Clients, Deliver(c) \/ Lose(c)
      PROVE  TypeOK'
  <2>1. network[c] # <<>>
    BY <1>4 DEF Deliver, Lose
  <2>2. Tail(network[c]) \in Seq(Levels) /\ Head(network[c]) \in Levels
    BY <1>0, <2>1, Took
  <2> QED
    <3>1. CASE Deliver(c)
      BY <1>0, <2>2, <3>1 DEF Deliver
    <3>2. CASE Lose(c)
      BY <1>0, <2>2, <3>2 DEF Lose
    <3> QED
      BY <1>4, <3>1, <3>2
<1>5. ASSUME NEW p \in DOMAIN sockets, Close(p)
      PROVE  missed' \in [Clients -> BOOLEAN]
  BY <1>0, <1>5 DEF Close
<1>6. \A p : /\ DOMAIN Without(sockets, p) = DOMAIN sockets \ {p}
             /\ Without(sockets, p) \in
                    [DOMAIN sockets \ {p} -> Seq(Datagrams)]
  BY <1>0 DEF Without
<1>7. CASE swap_pending_socket
  <2>1. CASE pending_socket = NoPort
    BY <1>0, <1>7, <2>1 DEF swap_pending_socket
  <2>2. CASE pending_socket # NoPort
    <3>1. missed' \in [Clients -> BOOLEAN]
      BY <1>0, <1>5, <1>7, <2>2 DEF swap_pending_socket
    <3>2. /\ socket' = pending_socket /\ pending_socket' = NoPort
          /\ sockets' = Without(sockets, socket)
          /\ pending_socket \in DOMAIN sockets \ {socket}
      BY <1>0, <1>7, <2>2 DEF swap_pending_socket, SocketsInv
    <3>3. /\ DOMAIN sockets' = DOMAIN sockets \ {socket}
          /\ sockets' \in [DOMAIN sockets' -> Seq(Datagrams)]
      BY <1>6, <3>2
    <3> QED
      BY <1>0, <1>7, <3>1, <3>2, <3>3 DEF swap_pending_socket
  <2> QED
    BY <2>1, <2>2
<1>8. CASE recv_from
  <2> DEFINE d == Head(sockets[socket])
  <2>1. /\ Tail(sockets[socket]) \in Seq(Datagrams)
        /\ d.client \in Clients /\ d.msgs \in Bundles /\ d \in Datagrams
    <3>1. sockets[socket] \in Seq(Datagrams) /\ sockets[socket] # <<>>
      BY <1>0, <1>8 DEF recv_from
    <3>2. Tail(sockets[socket]) \in Seq(Datagrams) /\ d \in Datagrams
      BY <3>1, Took
    <3> QED
      BY <3>2 DEF Datagrams
  <2>2. to_forward(d.client, d.msgs) \in Seq(Messages \cup {Registration})
    <3>1. /\ d.msgs \in Seq(Messages \cup {Registration})
          /\ <<Registration>> \in Seq(Messages \cup {Registration})
      BY <2>1, MessagesAssumption, SeqMonotonic
    <3> QED
      BY <3>1, ConcatProperties DEF to_forward
  <2>3. forwarding' = [client |-> d.client,
                       msgs |-> to_forward(d.client, d.msgs)]
    BY <1>8, <2>1 DEF recv_from, Datagrams
  <2> HIDE DEF d
  <2>4. d.client # NoClient
    BY <2>1, ClientsAssumption
  <2>5. /\ sockets' = [sockets EXCEPT ![socket] = Tail(sockets[socket])]
        /\ heard' = [heard EXCEPT ![d.client] = "hello"]
    BY <1>8 DEF recv_from, d
  <2>6. /\ listener' = "forward"
        /\ UNCHANGED <<surface_vars, socket, pending_socket, show_vars,
                       gui_vars>>
    BY <1>8 DEF recv_from
  <2> QED
    BY <1>0, <2>1, <2>2, <2>3, <2>4, <2>5, <2>6
<1>9. CASE recv_timeout \/ forwarded
  BY <1>0, <1>9 DEF recv_timeout, forwarded
<1>10. ASSUME forwarding.msgs # <<>>
       PROVE  /\ sender_addr \in Clients
              /\ Tail(forwarding.msgs) \in Seq(Messages \cup {Registration})
  BY <1>0, <1>10, Took DEF sender_addr
<1>11. ASSUME NEW m \in ControlMessages, emit(m), forwarding.msgs # <<>>,
              heard' \in [Clients -> {"nothing", "hello", "goodbye"}]
       PROVE  TypeOK'
  <2>1. recv' \in Seq(ControlMessages)
    BY <1>0, <1>11, Put DEF emit
  <2>2. forwarding' = [client |-> forwarding.client,
                       msgs |-> Tail(forwarding.msgs)]
    BY <1>0, <1>11 DEF emit
  <2> QED
    BY <1>0, <1>10, <1>11, <2>1, <2>2 DEF emit, sender_addr
<1>12. CASE EmitRegistration
  BY <1>0, <1>10, <1>11, <1>12, MessageKinds DEF EmitRegistration, Forwarding
<1>13. CASE EmitDeregistration
  BY <1>0, <1>10, <1>11, <1>13, MessageKinds DEF EmitDeregistration, Forwarding
<1>14. CASE EmitControl
  <2>1. PICK v \in Levels :
            /\ Forwarding(v) /\ emit(Control(sender_addr, v))
            /\ heard' = [heard EXCEPT ![sender_addr] =
                    IF @ = "goodbye" THEN "hello" ELSE @]
    BY <1>14 DEF EmitControl
  <2>2. /\ sender_addr \in Clients /\ forwarding.msgs # <<>>
        /\ Control(sender_addr, v) \in ControlMessages
    BY <1>10, <2>1, MessageKinds DEF Forwarding
  <2>3. heard' \in [Clients -> {"nothing", "hello", "goodbye"}]
    BY <1>0, <2>1, <2>2
  <2> QED
    BY <1>11, <2>1, <2>2, <2>3
<1>15. CASE IgnoreMessage
  <2>1. forwarding' = [client |-> forwarding.client,
                       msgs |-> Tail(forwarding.msgs)]
    BY <1>0, <1>15 DEF IgnoreMessage
  <2> QED
    BY <1>0, <1>10, <1>15, <2>1 DEF IgnoreMessage, Forwarding, sender_addr
<1>16. CASE RefuseMessage
  <2>1. forwarding' = [client |-> forwarding.client, msgs |-> <<>>]
    BY <1>0, <1>16 DEF RefuseMessage
  <2>2. sender_addr \in Clients
    BY <1>10, <1>16 DEF RefuseMessage, Forwarding
  <2>3. missed' \in [Clients -> BOOLEAN]
    <3> DEFINE b == missed[sender_addr] \/ SetsLevel(forwarding.msgs)
    <3>1. missed' = [missed EXCEPT ![sender_addr] = b]
      BY <1>16 DEF RefuseMessage
    <3>2. b \in BOOLEAN
      OBVIOUS
    <3> HIDE DEF b
    <3> QED
      BY <1>0, <3>1, <3>2
  <2>4. UNCHANGED <<view, network, sockets, listener, socket, heard,
                    pending_socket, show_vars, gui_vars>>
    BY <1>16 DEF RefuseMessage
  <2> QED
    BY <1>0, <2>1, <2>3, <2>4
<1>17. ASSUME NEW op, Received(op)
       PROVE  /\ recv # <<>> /\ Head(recv) \in ControlMessages
              /\ Head(recv).op = op /\ recv' \in Seq(ControlMessages)
  BY <1>0, <1>17, Took DEF Received
<1>18. ASSUME NEW v \in Levels, Respond(v)
       PROVE  responses' \in Seq(Levels)
  BY <1>0, <1>18, Put DEF Respond
<1>19. CASE RegisterOscClient
  BY <1>0, <1>17, <1>19, MessageKinds DEF RegisterOscClient, register
<1>20. CASE refresh_ui
  BY <1>0, <1>18, <1>20 DEF refresh_ui
<1>21. CASE DropOscClient
  <2>1. Head(recv).client \in Clients /\ recv' \in Seq(ControlMessages)
    BY <1>17, <1>21, MessageKinds DEF DropOscClient
  <2>2. clients' \in [Clients -> Nat]
    BY <1>0, <1>21, <2>1 DEF DropOscClient, deregister
  <2>3. /\ waiting' \in BOOLEAN
        /\ heard' \in [Clients -> {"nothing", "hello", "goodbye"}]
    BY <1>0, <1>21, <2>1 DEF DropOscClient
  <2> QED
    BY <1>0, <1>21, <2>1, <2>2, <2>3 DEF DropOscClient
<1>22. CASE SwapOscSocket
  <2>1. /\ recv' \in Seq(ControlMessages)
        /\ Head(recv).port \in DOMAIN sockets \ {socket, pending_socket}
    BY <1>0, <1>17, <1>22, TookSwap DEF SwapOscSocket, SocketsInv
  <2>2. CASE pending_socket = NoPort
    BY <1>0, <1>22, <2>1, <2>2 DEF SwapOscSocket
  <2>3. CASE pending_socket # NoPort
    <3>1. missed' \in [Clients -> BOOLEAN]
      BY <1>0, <1>5, <1>22, <2>3 DEF SwapOscSocket
    <3>2. /\ DOMAIN sockets' = DOMAIN sockets \ {pending_socket}
          /\ sockets' \in [DOMAIN sockets' -> Seq(Datagrams)]
      BY <1>6, <1>22, <2>3 DEF SwapOscSocket
    <3>3. pending_socket # socket
      BY <1>0 DEF SocketsInv
    <3> QED
      BY <1>0, <1>22, <2>1, <3>1, <3>2, <3>3 DEF SwapOscSocket
  <2> QED
    BY <2>2, <2>3
<1>23. CASE ControlMoved
  BY <1>0, <1>17, <1>18, <1>23, MessageKinds DEF ControlMoved
<1>24. CASE snapshot_state
  BY <1>0, <1>24 DEF snapshot_state, Listed
<1>25. CASE send
  <2>1. Head(responses) \in Levels /\ Tail(responses) \in Seq(Levels)
    BY <1>0, <1>25, Took DEF send
  <2>2. ASSUME NEW c \in Clients
        PROVE  network[c] \o [i \in 1 .. clients[c] |-> Head(responses)]
                    \in Seq(Levels)
    <3>1. [i \in 1 .. clients[c] |-> Head(responses)] \in Seq(Levels)
      <4>1. [i \in 1 .. clients[c] |-> Head(responses)]
                    \in [1 .. clients[c] -> Levels]
        BY <2>1
      <4>2. clients[c] \in Nat
        BY <1>0
      <4> QED
        BY <4>1, <4>2, SeqDef
    <3> QED
      BY <1>0, <3>1, ConcatProperties
  <2> QED
    BY <1>0, <1>25, <2>1, <2>2 DEF send
<1>26. ASSUME NEW m \in ControlMessages, recv' = Append(recv, m)
       PROVE  recv' \in Seq(ControlMessages)
  BY <1>0, <1>26, Put
<1>27. ASSUME NEW v \in Levels, MoveElsewhere(v)
       PROVE  TypeOK'
  BY <1>0, <1>26, <1>27, MessageKinds DEF MoveElsewhere
<1>28. ASSUME NEW p \in Ports, ChangePort(p)
       PROVE  TypeOK'
  <2>1. /\ DOMAIN sockets' = DOMAIN sockets \cup {p}
        /\ sockets' \in [DOMAIN sockets \cup {p} -> Seq(Datagrams)]
    BY <1>0, <1>28 DEF ChangePort
  <2> QED
    BY <1>0, <1>26, <1>28, <2>1, MessageKinds DEF ChangePort
<1>29. ASSUME NEW c \in Clients, DropClicked(c)
       PROVE  TypeOK'
  BY <1>0, <1>26, <1>29, MessageKinds DEF DropClicked
<1>30. CASE UNCHANGED vars
  BY <1>0, <1>30 DEF vars
<1> QED
  BY <1>2, <1>3, <1>4, <1>7, <1>8, <1>9, <1>12, <1>13, <1>14, <1>15, <1>16,
     <1>19, <1>20, <1>21, <1>22, <1>23, <1>24, <1>25, <1>27, <1>28, <1>29,
     <1>30 DEF Next, Listener, Show, Surface
(***************************************************************************)
(* The list, and the listener's datagram                                   *)
(***************************************************************************)
(* Only a registration adds to the list, and only who is not in it.         *)
LEMMA OneCopyStep == IInv /\ [Next]_vars => OneCopyEach'
<1> SUFFICES ASSUME IInv, [Next]_vars PROVE OneCopyEach'
  OBVIOUS
<1> USE DEF OneCopyEach
<1>0. TypeOK /\ OneCopyEach
  BY DEF IInv
<1>1. CASE UNCHANGED clients
  BY <1>0, <1>1
<1>2. CASE RegisterOscClient
  BY <1>0, <1>2 DEF TypeOK, RegisterOscClient, register
<1>3. CASE DropOscClient
  BY <1>0, <1>3 DEF TypeOK, DropOscClient, deregister
<1> QED
  BY <1>1, <1>2, <1>3
     DEF Next, Surface, Speak, SpeakInVain, Deliver, Lose, Listener,
         swap_pending_socket, recv_from, recv_timeout, EmitRegistration,
         EmitDeregistration, EmitControl, emit, IgnoreMessage, RefuseMessage,
         forwarded, Show, refresh_ui, SwapOscSocket, ControlMoved,
         snapshot_state, send, MoveElsewhere, ChangePort, DropClicked,
         vars, show_vars

(* The listener empties its datagram before it receives another.            *)
LEMMA ForwardStep == IInv /\ [Next]_vars => ForwardInv'
<1> SUFFICES ASSUME IInv, [Next]_vars PROVE ForwardInv'
  OBVIOUS
<1>0. TypeOK /\ ForwardInv
  BY DEF IInv
<1>1. CASE UNCHANGED <<listener, forwarding>>
  BY <1>0, <1>1 DEF ForwardInv
<1>2. CASE /\ listener' # "forward" /\ UNCHANGED forwarding
           /\ listener # "forward" \/ forwarding.msgs = <<>>
  BY <1>0, <1>2 DEF ForwardInv
<1>3. CASE recv_from
  <2> DEFINE d == Head(sockets[socket])
  <2>1. d.msgs \in Seq(Messages) /\ d \in Datagrams
    <3>1. sockets[socket] \in Seq(Datagrams) /\ sockets[socket] # <<>>
      BY <1>0, <1>3 DEF TypeOK, recv_from
    <3>2. d \in Datagrams
      BY <3>1, Took
    <3> QED
      BY <3>2, MessagesAssumption DEF Datagrams
  <2>2. \A i \in DOMAIN d.msgs : d.msgs[i] # Registration
    BY <2>1, MessagesAssumption
  <2>3. forwarding'.msgs = to_forward(d.client, d.msgs)
    BY <1>3, <2>1 DEF recv_from, Datagrams
  <2> HIDE DEF d
  <2>4. ASSUME NEW i \in DOMAIN to_forward(d.client, d.msgs),
               to_forward(d.client, d.msgs)[i] = Registration
        PROVE  i = 1
    <3> DEFINE S == Messages \cup {Registration}
    <3>1. /\ d.msgs \in Seq(S) /\ <<Registration>> \in Seq(S)
          /\ Len(<<Registration>>) = 1
      BY <2>1, SeqMonotonic
    <3>2. CASE d.client \in Listed
      BY <2>2, <2>4, <3>2 DEF to_forward
    <3>3. CASE d.client \notin Listed
      <4>1. /\ DOMAIN (<<Registration>> \o d.msgs) = 1 .. 1 + Len(d.msgs)
            /\ \A k \in 1 .. 1 + Len(d.msgs) : k # 1 =>
                    (<<Registration>> \o d.msgs)[k] = d.msgs[k - 1]
            /\ Len(d.msgs) \in Nat /\ DOMAIN d.msgs = 1 .. Len(d.msgs)
        BY <3>1, ConcatProperties, LenProperties
      <4> QED
        BY <2>2, <2>4, <3>3, <4>1 DEF to_forward
    <3> QED
      BY <3>2, <3>3
  <2> QED
    BY <1>3, <2>3, <2>4 DEF ForwardInv, recv_from
<1>4. CASE /\ forwarding.msgs # <<>> /\ UNCHANGED listener
           /\ forwarding'.msgs = Tail(forwarding.msgs)
  <2>1. /\ Len(forwarding.msgs) \in Nat
        /\ DOMAIN forwarding.msgs = 1 .. Len(forwarding.msgs)
        /\ DOMAIN Tail(forwarding.msgs) = 1 .. Len(forwarding.msgs) - 1
        /\ \A i \in 1 .. Len(forwarding.msgs) - 1 :
                Tail(forwarding.msgs)[i] = forwarding.msgs[i + 1]
    BY <1>0, <1>4, Took DEF TypeOK
  <2>2. \A i \in DOMAIN Tail(forwarding.msgs) :
            Tail(forwarding.msgs)[i] # Registration
    BY <1>0, <2>1 DEF ForwardInv
  <2>3. listener = "forward"
    BY <1>0, <1>4 DEF ForwardInv
  <2> QED
    BY <1>4, <2>2, <2>3 DEF ForwardInv
<1>5. CASE RefuseMessage
  BY <1>0, <1>5 DEF TypeOK, ForwardInv, RefuseMessage, Forwarding
<1>6. EmitRegistration \/ EmitDeregistration \/ EmitControl \/ IgnoreMessage
      => /\ forwarding.msgs # <<>> /\ UNCHANGED listener
         /\ forwarding'.msgs = Tail(forwarding.msgs)
  BY <1>0 DEF TypeOK, EmitRegistration, EmitDeregistration, EmitControl,
              IgnoreMessage, emit, Forwarding
<1>7. swap_pending_socket \/ recv_timeout \/ forwarded
      => /\ listener' # "forward" /\ UNCHANGED forwarding
         /\ listener # "forward" \/ forwarding.msgs = <<>>
  BY DEF swap_pending_socket, recv_timeout, forwarded
<1> QED
  BY <1>1, <1>2, <1>3, <1>4, <1>5, <1>6, <1>7
     DEF Next, Surface, Speak, SpeakInVain, Deliver, Lose, Listener, Show,
         RegisterOscClient, refresh_ui, DropOscClient, SwapOscSocket,
         ControlMoved, snapshot_state, send, MoveElsewhere, ChangePort,
         DropClicked, vars, listener_vars
(***************************************************************************)
(* Sockets                                                                 *)
(***************************************************************************)
(* Ports that are asked for stay bound and apart until they are in use.     *)
LEMMA SocketsStep == IInv /\ [Next]_vars => SocketsInv' /\ NewestPortWins'
<1> SUFFICES ASSUME IInv, [Next]_vars PROVE SocketsInv' /\ NewestPortWins'
  OBVIOUS
<1> DEFINE Free == DOMAIN sockets \ {socket, pending_socket}
           NewestFree(r, s, q, p) ==
               IF Swaps(r) # {} THEN Newest(r, p)
               ELSE p = IF q # NoPort THEN q ELSE s
<1>0. /\ TypeOK /\ SocketsInv
      /\ recv \in Seq(ControlMessages) /\ DOMAIN sockets \subseteq Ports
      /\ pending_socket # socket /\ PortsApart(recv, Free)
  BY DEF IInv, SocketsInv, TypeOK
<1>1. /\ NewestPortWins <=>
            NewestFree(recv, socket, pending_socket, receive_port)
      /\ NewestPortWins' <=>
            NewestFree(recv', socket', pending_socket', receive_port')
  BY DEF NewestPortWins, Newest, Swaps
<1>2. NewestFree(recv, socket, pending_socket, receive_port)
  BY <1>1 DEF IInv
<1>3. ASSUME UNCHANGED <<socket, pending_socket, receive_port>>,
             DOMAIN sockets' = DOMAIN sockets, UNCHANGED recv
      PROVE  SocketsInv' /\ NewestPortWins'
  BY <1>0, <1>1, <1>2, <1>3 DEF SocketsInv
<1>4. ASSUME UNCHANGED <<socket, pending_socket, receive_port, sockets>>,
             NEW m \in ControlMessages, m.op # "SwapOscSocket",
             recv' = Append(recv, m)
      PROVE  SocketsInv' /\ NewestPortWins'
  <2>1. PortsApart(recv', Free)
    BY <1>0, <1>4, PutSwap
  <2>2. NewestFree(recv', socket, pending_socket, receive_port)
    BY <1>0, <1>2, <1>4, PutSwap
  <2> QED
    BY <1>0, <1>1, <1>4, <2>1, <2>2 DEF SocketsInv
<1>5. ASSUME UNCHANGED <<socket, pending_socket, receive_port, sockets>>,
             NEW op, op # "SwapOscSocket", Received(op)
      PROVE  SocketsInv' /\ NewestPortWins'
  <2>1. recv # <<>> /\ Head(recv).op # "SwapOscSocket" /\ recv' = Tail(recv)
    BY <1>5 DEF Received
  <2>2. PortsApart(recv', Free)
    BY <1>0, <2>1, TookSwap
  <2>3. NewestFree(recv', socket, pending_socket, receive_port)
    BY <1>0, <1>2, <2>1, TookSwap
  <2> QED
    BY <1>0, <1>1, <1>5, <2>2, <2>3 DEF SocketsInv
<1>6. ASSUME NEW c \in Clients, NEW msgs \in Bundles,
             NEW p \in DOMAIN sockets, Speak(c, p, msgs)
      PROVE  SocketsInv' /\ NewestPortWins'
  <2>1. DOMAIN sockets' = DOMAIN sockets
    BY <1>0, <1>6 DEF Speak, TypeOK
  <2> QED
    BY <1>3, <1>6, <2>1 DEF Speak, show_vars, gui_vars
<1>7. CASE recv_from
  <2>1. DOMAIN sockets' = DOMAIN sockets
    BY <1>0, <1>7 DEF recv_from, TypeOK
  <2> QED
    BY <1>3, <1>7, <2>1 DEF recv_from, show_vars, gui_vars
<1>8. \A p : DOMAIN Without(sockets, p) = DOMAIN sockets \ {p}
  BY DEF Without
<1>9. CASE swap_pending_socket
  <2>1. CASE pending_socket = NoPort
    BY <1>3, <1>9, <2>1 DEF swap_pending_socket, show_vars, gui_vars
  <2>2. CASE pending_socket # NoPort
    <3>1. /\ socket' = pending_socket /\ pending_socket' = NoPort
          /\ DOMAIN sockets' = DOMAIN sockets \ {socket}
          /\ UNCHANGED <<recv, receive_port>>
      BY <1>8, <1>9, <2>2 DEF swap_pending_socket, show_vars, gui_vars
    <3>2. NoPort \notin DOMAIN sockets
      BY <1>0, PortsAssumption
    <3>3. DOMAIN sockets' \ {socket', pending_socket'} = Free
      BY <3>1, <3>2
    <3> QED
      BY <1>0, <1>1, <1>2, <2>2, <3>1, <3>3 DEF SocketsInv
  <2> QED
    BY <2>1, <2>2
<1>10. CASE SwapOscSocket
  <2>1. /\ recv # <<>> /\ Head(recv).op = "SwapOscSocket"
        /\ recv' = Tail(recv) /\ pending_socket' = Head(recv).port
        /\ UNCHANGED <<socket, receive_port>>
    BY <1>10 DEF SwapOscSocket, Received
  <2>2. /\ pending_socket' \in Free
        /\ PortsApart(recv', Free \ {pending_socket'})
    BY <1>0, <2>1, TookSwap
  <2>3. NewestFree(recv', socket, pending_socket', receive_port)
    <3>1. pending_socket' # NoPort
      BY <1>0, <2>2, PortsAssumption
    <3>2. Newest(recv, receive_port)
      BY <1>0, <1>2, <2>1, TookSwap
    <3> QED
      BY <1>0, <2>1, <3>1, <3>2, TookSwap
  <2>4. DOMAIN sockets' \ {socket', pending_socket'}
            = Free \ {pending_socket'}
    <3>1. CASE pending_socket = NoPort
      BY <1>0, <1>10, <2>1, <3>1, PortsAssumption DEF SwapOscSocket
    <3>2. CASE pending_socket # NoPort
      <4>1. DOMAIN sockets' = DOMAIN sockets \ {pending_socket}
        BY <1>8, <1>10, <3>2 DEF SwapOscSocket
      <4> QED
        BY <2>1, <4>1
    <3> QED
      BY <3>1, <3>2
  <2> QED
    BY <1>0, <1>1, <2>1, <2>2, <2>3, <2>4 DEF SocketsInv
<1>11. ASSUME NEW p \in Ports, ChangePort(p)
       PROVE  SocketsInv' /\ NewestPortWins'
  <2>1. /\ p \notin DOMAIN sockets /\ DOMAIN sockets' = DOMAIN sockets \cup {p}
        /\ recv' = Append(recv, Swap(p)) /\ receive_port' = p
        /\ UNCHANGED <<socket, pending_socket>>
    BY <1>11 DEF ChangePort
  <2>2. p \notin {socket, pending_socket}
    BY <1>0, <2>1, PortsAssumption DEF TypeOK
  <2>3. /\ PortsApart(recv', Free \cup {p})
        /\ NewestFree(recv', socket, pending_socket, p)
    <3>1. /\ Swap(p) \in ControlMessages
          /\ Swap(p).op = "SwapOscSocket" /\ Swap(p).port = p
      BY MessageKinds
    <3>2. p \notin Free
      BY <2>1
    <3>3. /\ Swaps(Append(recv, Swap(p))) # {}
          /\ Newest(Append(recv, Swap(p)), Swap(p).port)
      BY <1>0, <3>1, PutSwap
    <3>4. PortsApart(Append(recv, Swap(p)), Free \cup {Swap(p).port})
      BY <1>0, <3>1, <3>2, PutSwap
    <3> QED
      BY <2>1, <3>1, <3>3, <3>4
  <2>4. DOMAIN sockets' \ {socket', pending_socket'} = Free \cup {p}
    BY <2>1, <2>2
  <2> QED
    BY <1>0, <1>1, <2>1, <2>3, <2>4 DEF SocketsInv
<1>12. forwarding.msgs # <<>> => sender_addr \in Clients
  BY <1>0 DEF TypeOK, sender_addr
<1>13. CASE EmitRegistration \/ EmitDeregistration \/ EmitControl
  <2>1. PICK m \in ControlMessages : m.op # "SwapOscSocket" /\ emit(m)
    BY <1>12, <1>13, MessageKinds
       DEF EmitRegistration, EmitDeregistration, EmitControl, Forwarding
  <2> QED
    BY <1>4, <2>1 DEF emit, gui_vars
<1>14. ASSUME NEW v \in Levels, MoveElsewhere(v)
       PROVE  SocketsInv' /\ NewestPortWins'
  BY <1>4, <1>14, MessageKinds DEF MoveElsewhere, listener_vars, gui_vars
<1>15. ASSUME NEW c \in Clients, DropClicked(c)
       PROVE  SocketsInv' /\ NewestPortWins'
  BY <1>4, <1>15, MessageKinds DEF DropClicked, listener_vars
<1>16. CASE RegisterOscClient
  BY <1>5, <1>16 DEF RegisterOscClient, listener_vars, gui_vars
<1>17. CASE DropOscClient
  BY <1>5, <1>17 DEF DropOscClient
<1>18. CASE ControlMoved
  BY <1>5, <1>18 DEF ControlMoved, listener_vars, gui_vars
<1>19. CASE UNCHANGED <<sockets, socket, pending_socket, receive_port, recv>>
  BY <1>3, <1>19
<1> QED
  BY <1>6, <1>7, <1>9, <1>10, <1>11, <1>13, <1>14, <1>15, <1>16, <1>17, <1>18,
     <1>19
     DEF Next, Surface, SpeakInVain, Deliver, Lose, Listener, recv_timeout,
         IgnoreMessage, RefuseMessage, forwarded, Show, refresh_ui,
         snapshot_state, send, vars, listener_vars, show_vars, gui_vars
(***************************************************************************)
(* Levels                                                                  *)
(***************************************************************************)
(* Every response carries the level that the handler has just set.          *)
LEMMA LevelStep == IInv /\ [Next]_vars => LevelInv'
<1> SUFFICES ASSUME IInv, [Next]_vars PROVE LevelInv'
  OBVIOUS
<1>0. TypeOK /\ OneCopyEach /\ LevelInv
  BY DEF IInv
<1>1. CASE UNCHANGED <<network, handling, clients, level, responses>>
  BY <1>0, <1>1 DEF LevelInv, Listed
<1>2. ASSUME NEW c \in Clients, Deliver(c) \/ Lose(c)
      PROVE  LevelInv'
  <2>1. /\ network[c] \in Seq(Levels) /\ network[c] # <<>>
        /\ network' = [network EXCEPT ![c] = Tail(network[c])]
        /\ UNCHANGED show_vars
    BY <1>0, <1>2 DEF TypeOK, Deliver, Lose
  <2>2. Tail(network[c]) # <<>> =>
            Tail(network[c])[Len(Tail(network[c]))]
                = network[c][Len(network[c])]
    <3>1. /\ Tail(network[c]) \in Seq(Levels)
          /\ Len(Tail(network[c])) = Len(network[c]) - 1
          /\ Len(network[c]) \in Nat
          /\ \A i \in 1 .. Len(network[c]) - 1 :
                Tail(network[c])[i] = network[c][i + 1]
      BY <2>1, Took
    <3>2. Tail(network[c]) # <<>> => Len(Tail(network[c])) \in Nat \ {0}
      BY <3>1, EmptySeq
    <3> QED
      BY <3>1, <3>2
  <2>3. ASSUME NEW d \in Listed, handling # "refresh", responses = <<>>,
               network'[d] # <<>>
        PROVE  network'[d][Len(network'[d])] = level
    <3>1. d \in Clients
      BY DEF Listed
    <3>2. CASE d = c
      BY <1>0, <2>1, <2>2, <2>3, <3>1, <3>2 DEF LevelInv, TypeOK
    <3>3. CASE d # c
      BY <1>0, <2>1, <2>3, <3>1, <3>3 DEF LevelInv, TypeOK
    <3> QED
      BY <3>2, <3>3
  <2> QED
    BY <1>0, <2>1, <2>3 DEF LevelInv, Listed, show_vars
<1>3. ASSUME NEW v \in Levels, Respond(v)
      PROVE  responses' # <<>> /\ responses'[Len(responses')] = v
  <2>1. /\ Len(responses) \in Nat
        /\ Len(responses') = Len(responses) + 1
        /\ responses'[Len(responses) + 1] = v
    BY <1>0, <1>3, Put DEF TypeOK, Respond
  <2> QED
    BY <2>1
<1>4. CASE refresh_ui
  BY <1>0, <1>3, <1>4 DEF TypeOK, refresh_ui, LevelInv
<1>5. CASE ControlMoved
  <2>1. Head(recv) \in ControlMessages /\ Head(recv).op = "Control"
    BY <1>0, <1>5, Took DEF TypeOK, ControlMoved, Received
  <2>2. level' \in Levels /\ Respond(level')
    BY <1>5, <2>1, MessageKinds DEF ControlMoved
  <2> QED
    BY <1>3, <2>2 DEF LevelInv
<1>6. CASE RegisterOscClient
  BY <1>0, <1>6 DEF LevelInv, RegisterOscClient
<1>7. CASE DropOscClient
  <2>1. Listed' \subseteq Listed
    BY <1>0, <1>7 DEF TypeOK, Listed, DropOscClient, deregister
  <2>2. UNCHANGED <<network, level, responses>> /\ handling = "idle"
    BY <1>7 DEF DropOscClient, Received, surface_vars
  <2> QED
    BY <1>0, <2>1, <2>2 DEF LevelInv
<1>8. CASE snapshot_state
  BY <1>0, <1>8 DEF LevelInv, Listed, snapshot_state, surface_vars
<1>9. CASE send
  <2>1. /\ responses \in Seq(Levels) /\ responses # <<>>
        /\ responses' = Tail(responses)
        /\ UNCHANGED <<handling, clients, level>>
    BY <1>0, <1>9 DEF TypeOK, send
  <2>2. /\ Len(responses) \in Nat \ {0} /\ Head(responses) = responses[1]
        /\ Head(responses) \in Levels
        /\ responses' \in Seq(Levels) /\ Len(responses') = Len(responses) - 1
        /\ \A i \in 1 .. Len(responses) - 1 : responses'[i] = responses[i + 1]
    BY <2>1, Took
  <2>3. responses[Len(responses)] = level
    BY <1>0, <2>1 DEF LevelInv
  <2>4. responses' # <<>> => responses'[Len(responses')] = level
    <3>1. responses' # <<>> => Len(responses') \in Nat \ {0}
      BY <2>2, EmptySeq
    <3> QED
      BY <2>2, <2>3, <3>1
  <2>5. ASSUME NEW c \in Listed, responses' = <<>>
        PROVE  network'[c][Len(network'[c])] = level
    <3>1. Len(responses) = 1
      BY <2>2, <2>5
    <3>2. Head(responses) = level
      BY <2>2, <2>3, <3>1
    <3>3. c \in Clients /\ clients[c] = 1
      BY <1>0 DEF TypeOK, OneCopyEach, Listed
    <3> DEFINE copies == [i \in 1 .. 1 |-> Head(responses)]
    <3>4. network'[c] = network[c] \o copies
      BY <1>9, <3>3 DEF send
    <3>5. copies \in Seq(Levels) /\ Len(copies) = 1 /\ copies[1] = level
      BY <2>2, <3>2
    <3> HIDE DEF copies
    <3>6. /\ network[c] \in Seq(Levels) /\ Len(network[c]) \in Nat
          /\ Len(network[c] \o copies) = Len(network[c]) + 1
          /\ (network[c] \o copies)[Len(network[c]) + 1] = copies[1]
      <4>1. network[c] \in Seq(Levels) /\ Len(network[c]) \in Nat
        BY <1>0, <3>3, LenProperties DEF TypeOK
      <4>2. /\ Len(network[c] \o copies) = Len(network[c]) + Len(copies)
            /\ \A i \in 1 .. Len(network[c]) + Len(copies) :
                    (network[c] \o copies)[i] =
                        IF i <= Len(network[c]) THEN network[c][i]
                        ELSE copies[i - Len(network[c])]
        BY <3>5, <4>1, ConcatProperties
      <4> QED
        BY <3>5, <4>1, <4>2
    <3> QED
      BY <3>4, <3>5, <3>6
  <2> QED
    BY <2>1, <2>4, <2>5 DEF LevelInv, Listed
<1> QED
  BY <1>1, <1>2, <1>4, <1>5, <1>6, <1>7, <1>8, <1>9
     DEF Next, Surface, Speak, SpeakInVain, Listener, swap_pending_socket,
         recv_from, recv_timeout, EmitRegistration, EmitDeregistration,
         EmitControl, emit, IgnoreMessage, RefuseMessage, forwarded, Show,
         SwapOscSocket, MoveElsewhere, ChangePort, DropClicked, vars,
         surface_vars, show_vars
(***************************************************************************)
(* What the surfaces show                                                  *)
(***************************************************************************)
\* The three places of NothingFrom.
NoDatagram(s, c) ==
    \A p \in DOMAIN s : \A i \in DOMAIN s[p] :
        ~(s[p][i].client = c /\ SetsLevel(s[p][i].msgs))
NotForwarding(f, c) == ~(f.client = c /\ SetsLevel(f.msgs))

(* NothingFrom looks at three places, before and after a step.              *)
LEMMA Places ==
  ASSUME NEW c
  PROVE  /\ NothingFrom(c) <=> /\ NoDatagram(sockets, c)
                               /\ NotForwarding(forwarding, c)
                               /\ ~ControlFrom(recv, c)
         /\ NothingFrom(c)' <=> /\ NoDatagram(sockets', c)
                                /\ NotForwarding(forwarding', c)
                                /\ ~ControlFrom(recv', c)
<1>1. NothingFrom(c) <=> /\ NoDatagram(sockets, c)
                         /\ NotForwarding(forwarding, c)
                         /\ ~ControlFrom(recv, c)
  BY DEF NothingFrom, NoDatagram, NotForwarding, ControlFrom
<1>2. NothingFrom(c)' <=> /\ NoDatagram(sockets', c)
                          /\ NotForwarding(forwarding', c)
                          /\ ~ControlFrom(recv', c)
  BY DEF NothingFrom, NoDatagram, NotForwarding, ControlFrom
<1> QED
  BY <1>1, <1>2

(* What is left of a datagram still sets the level, unless what has gone   *)
(* did; and what is put before it does not hide it.                        *)
LEMMA SetsLevelLeft ==
  ASSUME NEW s \in Seq(Messages \cup {Registration}), SetsLevel(s)
  PROVE  /\ s # <<>>
         /\ Head(s) \notin Levels => SetsLevel(Tail(s))
         /\ SetsLevel(<<Registration>> \o s)
<1> DEFINE S == Messages \cup {Registration}
<1>1. PICK i \in DOMAIN s : s[i] \in Levels
  BY DEF SetsLevel
<1>2. Len(s) \in Nat /\ DOMAIN s = 1 .. Len(s)
  BY LenProperties
<1>3. s # <<>>
  BY <1>1, <1>2, EmptySeq
<1>4. ASSUME Head(s) \notin Levels
      PROVE  SetsLevel(Tail(s))
  <2>1. /\ Head(s) = s[1] /\ DOMAIN Tail(s) = 1 .. Len(s) - 1
        /\ \A k \in 1 .. Len(s) - 1 : Tail(s)[k] = s[k + 1]
    BY <1>3, Took
  <2>2. i - 1 \in DOMAIN Tail(s) /\ Tail(s)[i - 1] = s[i]
    BY <1>1, <1>2, <1>4, <2>1
  <2> QED
    BY <1>1, <2>2 DEF SetsLevel
<1>5. SetsLevel(<<Registration>> \o s)
  <2>1. <<Registration>> \in Seq(S) /\ Len(<<Registration>>) = 1
    OBVIOUS
  <2>2. /\ <<Registration>> \o s \in Seq(S)
        /\ Len(<<Registration>> \o s) = 1 + Len(s)
        /\ \A k \in 1 .. 1 + Len(s) : k > 1 =>
                (<<Registration>> \o s)[k] = s[k - 1]
    BY <1>2, <2>1, ConcatProperties
  <2>3. /\ i + 1 \in DOMAIN (<<Registration>> \o s)
        /\ (<<Registration>> \o s)[i + 1] = s[i]
    BY <1>1, <1>2, <2>2, LenProperties
  <2> QED
    BY <1>1, <2>3 DEF SetsLevel
<1> QED
  BY <1>3, <1>4, <1>5

(* Whatever could leave a surface behind is on its way, lost, or refreshed. *)
LEMMA ViewStep == IInv /\ [Next]_vars => ViewCurrent'
<1> SUFFICES ASSUME IInv, [Next]_vars,
                    NEW c \in Listed', NothingFrom(c)', ~missed'[c],
                    handling' # "refresh", responses' = <<>>,
                    network'[c] = <<>>
             PROVE  view'[c] = level'
  BY DEF ViewCurrent
<1>0. /\ TypeOK /\ LevelInv /\ ForwardInv /\ ViewCurrent
      /\ c \in Clients
  BY DEF IInv, Listed
<1>1. /\ NoDatagram(sockets', c) /\ NotForwarding(forwarding', c)
      /\ ~ControlFrom(recv', c)
  BY Places
<1>2. ASSUME UNCHANGED <<clients, level, responses>>, handling # "refresh",
             view'[c] = view[c], network'[c] = network[c], ~missed[c],
             NoDatagram(sockets, c), NotForwarding(forwarding, c),
             ~ControlFrom(recv, c)
      PROVE  view'[c] = level'
  <2>1. c \in Listed /\ NothingFrom(c)
    BY <1>2, Places DEF Listed
  <2> QED
    BY <1>0, <1>2, <2>1 DEF ViewCurrent
<1>3. ASSUME NEW d \in Clients, NEW msgs \in Bundles,
             NEW p \in DOMAIN sockets, Speak(d, p, msgs)
      PROVE  view'[c] = level'
  <2> DEFINE g == [client |-> d, msgs |-> msgs]
  <2>1. /\ sockets[p] \in Seq(Datagrams) /\ g \in Datagrams
        /\ DOMAIN sockets' = DOMAIN sockets
        /\ sockets'[p] = Append(sockets[p], g)
        /\ \A q \in DOMAIN sockets : q # p => sockets'[q] = sockets[q]
    BY <1>0, <1>3 DEF TypeOK, Speak, Datagrams
  <2>2. /\ \A i \in DOMAIN sockets[p] :
                i \in DOMAIN sockets'[p] /\ sockets'[p][i] = sockets[p][i]
        /\ \E i \in DOMAIN sockets'[p] : sockets'[p][i] = g
    <3> HIDE DEF g
    <3>1. /\ Len(sockets[p]) \in Nat
          /\ DOMAIN sockets[p] = 1 .. Len(sockets[p])
          /\ DOMAIN sockets'[p] = 1 .. Len(sockets[p]) + 1
          /\ sockets'[p][Len(sockets[p]) + 1] = g
          /\ \A i \in 1 .. Len(sockets[p]) : sockets'[p][i] = sockets[p][i]
      BY <2>1, Put
    <3> QED
      BY <3>1
  <2>3. NoDatagram(sockets, c)
    BY <1>1, <2>1, <2>2 DEF NoDatagram
  <2>4. ~(d = c /\ SetsLevel(msgs))
    BY <1>1, <2>1, <2>2 DEF NoDatagram
  <2>5. view'[c] = view[c]
    BY <1>0, <1>3, <2>4 DEF TypeOK, Speak, Shows, SetsLevel
  <2> QED
    BY <1>1, <1>2, <1>3, <2>3, <2>5 DEF Speak, show_vars
<1>4. ASSUME NEW d \in Clients, NEW msgs \in Bundles, SpeakInVain(d, msgs)
      PROVE  view'[c] = level'
  <2>1. d # c /\ missed'[c] = missed[c]
    BY <1>0, <1>4 DEF TypeOK, SpeakInVain
  <2>2. view'[c] = view[c]
    BY <1>0, <1>4, <2>1 DEF TypeOK, SpeakInVain, Shows
  <2> QED
    BY <1>1, <1>2, <1>4, <2>1, <2>2 DEF SpeakInVain, listener_vars, show_vars
<1>5. ASSUME NEW d \in Clients, Deliver(d)
      PROVE  view'[c] = level'
  <2>1. CASE d = c
    <3>1. /\ network[c] \in Seq(Levels) /\ network[c] # <<>>
          /\ Tail(network[c]) = <<>> /\ view'[c] = Head(network[c])
          /\ UNCHANGED show_vars
      BY <1>0, <1>5, <2>1 DEF TypeOK, Deliver
    <3>2. Len(network[c]) = 1 /\ Head(network[c]) = network[c][1]
      <4> DEFINE n == network[c]
      <4>1. n \in Seq(Levels) /\ n # <<>> /\ Tail(n) = <<>>
        BY <3>1
      <4> HIDE DEF n
      <4>2. /\ Len(n) \in Nat /\ Head(n) = n[1]
            /\ Len(Tail(n)) = Len(n) - 1
        BY <4>1, Took
      <4>3. \A t \in Seq(Levels) : t = <<>> => Len(t) = 0
        OBVIOUS
      <4>4. Tail(n) \in Seq(Levels)
        BY <4>1, Took
      <4>5. Len(n) = 1
        <5>1. Len(Tail(n)) = 0
          BY <4>1, <4>3, <4>4
        <5>2. \A k \in Nat : k - 1 = 0 => k = 1
          OBVIOUS
        <5> QED
          BY <4>2, <5>1, <5>2
      <4> QED
        BY <4>2, <4>5 DEF n
    <3> QED
      BY <1>0, <3>1, <3>2 DEF LevelInv, Listed, show_vars
  <2>2. CASE d # c
    <3>1. /\ view'[c] = view[c] /\ network'[c] = network[c]
          /\ missed'[c] = missed[c]
      BY <1>0, <1>5, <2>2 DEF TypeOK, Deliver
    <3> QED
      BY <1>1, <1>2, <1>5, <3>1 DEF Deliver, listener_vars, show_vars
  <2> QED
    BY <2>1, <2>2
<1>6. ASSUME NEW d \in Clients, Lose(d)
      PROVE  view'[c] = level'
  <2>1. d # c
    BY <1>0, <1>6 DEF TypeOK, Lose
  <2>2. network'[c] = network[c] /\ missed'[c] = missed[c]
    BY <1>0, <1>6, <2>1 DEF TypeOK, Lose
  <2> QED
    BY <1>1, <1>2, <1>6, <2>2 DEF Lose, listener_vars, show_vars
<1>7. ASSUME NEW p \in DOMAIN sockets, Close(p),
             sockets' = Without(sockets, p)
      PROVE  ~missed[c] /\ NoDatagram(sockets, c)
  <2>1. /\ ~missed[c]
        /\ \A i \in DOMAIN sockets[p] :
              ~(sockets[p][i].client = c /\ SetsLevel(sockets[p][i].msgs))
    BY <1>0, <1>7 DEF Close
  <2>2. /\ DOMAIN sockets' = DOMAIN sockets \ {p}
        /\ \A q \in DOMAIN sockets \ {p} : sockets'[q] = sockets[q]
    BY <1>7 DEF Without
  <2> QED
    BY <1>1, <2>1, <2>2 DEF NoDatagram
<1>8. CASE swap_pending_socket
  <2>1. ~missed[c] /\ NoDatagram(sockets, c)
    BY <1>0, <1>1, <1>7, <1>8 DEF TypeOK, swap_pending_socket
  <2> QED
    BY <1>1, <1>2, <1>8, <2>1 DEF swap_pending_socket, show_vars
<1>9. CASE recv_from
  <2> DEFINE d == Head(sockets[socket])
  <2>1. sockets[socket] \in Seq(Datagrams) /\ sockets[socket] # <<>>
    BY <1>0, <1>9 DEF TypeOK, recv_from
  <2>2. /\ d = sockets[socket][1] /\ d \in Datagrams
        /\ \A i \in DOMAIN sockets[socket] : i # 1 =>
                /\ i - 1 \in DOMAIN Tail(sockets[socket])
                /\ Tail(sockets[socket])[i - 1] = sockets[socket][i]
    BY <2>1, Took
  <2>3. /\ forwarding'.client = d.client
        /\ forwarding'.msgs = to_forward(d.client, d.msgs)
        /\ DOMAIN sockets' = DOMAIN sockets
        /\ sockets'[socket] = Tail(sockets[socket])
        /\ \A q \in DOMAIN sockets : q # socket => sockets'[q] = sockets[q]
    BY <1>0, <1>9, <2>2 DEF TypeOK, recv_from, Datagrams
  <2> HIDE DEF d
  <2>4. d.msgs \in Seq(Messages \cup {Registration})
    BY <2>2, MessagesAssumption, SeqMonotonic DEF Datagrams
  <2>5. ~(d.client = c /\ SetsLevel(d.msgs))
    BY <1>1, <2>3, <2>4, SetsLevelLeft DEF NotForwarding, to_forward
  <2>6. NoDatagram(sockets, c)
    <3>1. ASSUME NEW i \in DOMAIN sockets[socket],
                 sockets[socket][i].client = c,
                 SetsLevel(sockets[socket][i].msgs)
          PROVE  FALSE
      <4>1. i # 1
        BY <2>2, <2>5, <3>1
      <4>2. /\ i - 1 \in DOMAIN sockets'[socket]
            /\ sockets'[socket][i - 1] = sockets[socket][i]
        BY <2>2, <2>3, <4>1
      <4>3. socket \in DOMAIN sockets'
        BY <1>0, <2>3 DEF TypeOK
      <4> QED
        BY <1>1, <3>1, <4>2, <4>3 DEF NoDatagram
    <3> QED
      BY <1>1, <2>3, <3>1 DEF NoDatagram
  <2>7. NotForwarding(forwarding, c)
    <3>1. forwarding.msgs = <<>>
      BY <1>0, <1>9 DEF ForwardInv, recv_from
    <3> QED
      BY <3>1 DEF NotForwarding, SetsLevel
  <2> QED
    BY <1>1, <1>2, <1>9, <2>6, <2>7 DEF recv_from, surface_vars, show_vars
<1>10. CASE recv_timeout \/ forwarded
  BY <1>1, <1>2, <1>10 DEF recv_timeout, forwarded, surface_vars, show_vars
<1>11. ASSUME NEW m, Forwarding(m), m \notin Levels,
              forwarding' = [forwarding EXCEPT !.msgs = Tail(@)]
       PROVE  NotForwarding(forwarding, c)
  BY <1>0, <1>1, <1>11, SetsLevelLeft
     DEF TypeOK, Forwarding, NotForwarding
<1>12. Deregister \notin Levels /\ Ignore \notin Levels
       /\ Malformed \notin Levels /\ Registration \notin Levels
  BY MessagesAssumption
<1>13. ASSUME NEW m \in ControlMessages, recv' = Append(recv, m)
       PROVE  ~ControlFrom(recv, c)
  BY <1>0, <1>1, <1>13, PutFrom DEF TypeOK
<1>14. forwarding.msgs # <<>> => sender_addr \in Clients
  BY <1>0 DEF TypeOK, sender_addr
<1>15. CASE EmitRegistration
  <2>1. /\ emit(Register(sender_addr)) /\ Forwarding(Registration)
        /\ Register(sender_addr) \in ControlMessages
    BY <1>14, <1>15, MessageKinds DEF EmitRegistration, Forwarding
  <2>2. NotForwarding(forwarding, c) /\ ~ControlFrom(recv, c)
    BY <1>11, <1>12, <1>13, <2>1 DEF emit
  <2> QED
    BY <1>1, <1>2, <2>1, <2>2 DEF emit, surface_vars
<1>16. CASE EmitDeregistration
  <2>1. /\ emit(Drop(sender_addr, FALSE)) /\ Forwarding(Deregister)
        /\ Drop(sender_addr, FALSE) \in ControlMessages
    BY <1>14, <1>16, MessageKinds DEF EmitDeregistration, Forwarding
  <2>2. NotForwarding(forwarding, c) /\ ~ControlFrom(recv, c)
    BY <1>11, <1>12, <1>13, <2>1 DEF emit
  <2> QED
    BY <1>1, <1>2, <2>1, <2>2 DEF emit, surface_vars
<1>17. CASE EmitControl
  <2>1. PICK v \in Levels :
            Forwarding(v) /\ emit(Control(sender_addr, v))
    BY <1>17 DEF EmitControl
  <2>2. /\ Control(sender_addr, v) \in ControlMessages
        /\ Control(sender_addr, v).op = "Control"
        /\ Control(sender_addr, v).client = sender_addr
    BY <1>14, <2>1, MessageKinds DEF Forwarding
  <2>3. ~ControlFrom(recv, c) /\ sender_addr # c
    BY <1>0, <1>1, <2>1, <2>2, PutFrom DEF emit, TypeOK
  <2>4. NotForwarding(forwarding, c)
    BY <2>3 DEF NotForwarding, sender_addr
  <2> QED
    BY <1>1, <1>2, <2>1, <2>3, <2>4 DEF emit, surface_vars
<1>18. CASE IgnoreMessage
  <2>1. NotForwarding(forwarding, c)
    BY <1>11, <1>12, <1>18 DEF IgnoreMessage
  <2> QED
    BY <1>1, <1>2, <1>18, <2>1 DEF IgnoreMessage, surface_vars, show_vars
<1>19. CASE RefuseMessage
  <2> DEFINE b == missed[sender_addr] \/ SetsLevel(forwarding.msgs)
  <2>1. /\ missed' = [missed EXCEPT ![sender_addr] = b]
        /\ UNCHANGED <<view, network, sockets, show_vars>>
    BY <1>19 DEF RefuseMessage
  <2>2. c = sender_addr => missed'[c] = b
    BY <1>0, <2>1 DEF TypeOK
  <2>3. NotForwarding(forwarding, c)
    BY <2>2 DEF NotForwarding, sender_addr
  <2>4. ~missed[c]
    <3>1. CASE c = sender_addr
      BY <2>2, <3>1
    <3>2. CASE c # sender_addr
      <4> HIDE DEF b
      <4> QED
        BY <1>0, <2>1, <3>2 DEF TypeOK
    <3> QED
      BY <3>1, <3>2
  <2> HIDE DEF b
  <2> QED
    BY <1>1, <1>2, <2>1, <2>3, <2>4 DEF show_vars
<1>20. ASSUME NEW op, op # "Control", Received(op)
       PROVE  ~ControlFrom(recv, c)
  <2>1. /\ recv \in Seq(ControlMessages) /\ recv # <<>>
        /\ Head(recv).op # "Control" /\ recv' = Tail(recv)
    BY <1>0, <1>20 DEF TypeOK, Received
  <2> QED
    BY <1>1, <2>1, TookFrom
<1>21. ~RegisterOscClient
  BY DEF RegisterOscClient
<1>22. ASSUME NEW v, Respond(v), v \in Levels
       PROVE  FALSE
  <2>1. Append(responses, v) = <<>>
    BY <1>22 DEF Respond
  <2>2. Len(responses) \in Nat /\ Len(Append(responses, v)) = Len(responses) + 1
    BY <1>0, <1>22, Put DEF TypeOK
  <2> QED
    BY <2>1, <2>2, EmptySeq
<1>23. ~refresh_ui
  BY <1>0, <1>22 DEF TypeOK, refresh_ui
<1>24. ~ControlMoved
  <2> SUFFICES ASSUME ControlMoved PROVE FALSE
    OBVIOUS
  <2>1. Head(recv) \in ControlMessages /\ Head(recv).op = "Control"
    BY <1>0, Took DEF TypeOK, ControlMoved, Received
  <2> QED
    BY <1>22, <2>1, MessageKinds DEF ControlMoved
<1>25. CASE DropOscClient
  <2>1. c \in Listed
    BY <1>0, <1>25 DEF TypeOK, Listed, DropOscClient, deregister
  <2>2. ~ControlFrom(recv, c)
    BY <1>20, <1>25 DEF DropOscClient
  <2>3. NothingFrom(c)
    BY <1>1, <1>25, <2>2, Places DEF DropOscClient
  <2> QED
    BY <1>0, <1>25, <2>1, <2>3
       DEF ViewCurrent, DropOscClient, Received, surface_vars
<1>26. CASE SwapOscSocket
  <2>1. ~ControlFrom(recv, c)
    BY <1>20, <1>26 DEF SwapOscSocket
  <2>2. ~missed[c] /\ NoDatagram(sockets, c)
    BY <1>0, <1>1, <1>7, <1>26 DEF TypeOK, SwapOscSocket
  <2> QED
    BY <1>1, <1>2, <1>26, <2>1, <2>2 DEF SwapOscSocket
<1>27. CASE snapshot_state
  BY <1>1, <1>2, <1>27 DEF snapshot_state, surface_vars, listener_vars
<1>28. ASSUME NEW v \in Levels, MoveElsewhere(v)
       PROVE  view'[c] = level'
  <2>1. ~ControlFrom(recv, c)
    BY <1>13, <1>28, MessageKinds DEF MoveElsewhere
  <2> QED
    BY <1>1, <1>2, <1>28, <2>1
       DEF MoveElsewhere, surface_vars, listener_vars
<1>29. ~send
  <2> SUFFICES ASSUME send PROVE FALSE
    OBVIOUS
  <2>1. /\ responses \in Seq(Levels) /\ responses # <<>>
        /\ clients[c] \in Nat \ {0}
    BY <1>0 DEF TypeOK, send, Listed
  <2> DEFINE copies == [i \in 1 .. clients[c] |-> Head(responses)]
  <2>2. Head(responses) \in Levels
    BY <2>1, Took
  <2>3. copies \in Seq(Levels) /\ Len(copies) = clients[c]
    <3>1. copies \in [1 .. clients[c] -> Levels]
      BY <2>2
    <3>2. copies \in Seq(Levels)
      BY <2>1, <3>1, SeqDef
    <3> QED
      BY <2>1, <3>2
  <2>4. network[c] \in Seq(Levels) /\ network'[c] = network[c] \o copies
    BY <1>0 DEF TypeOK, send
  <2> HIDE DEF copies
  <2>5. copies # <<>>
    BY <2>1, <2>3, EmptySeq
  <2> QED
    BY <2>3, <2>4, <2>5, ConcatEqualIffEmpty
<1>30. ASSUME NEW p \in Ports, ChangePort(p)
       PROVE  view'[c] = level'
  <2>1. ~ControlFrom(recv, c)
    BY <1>13, <1>30, MessageKinds DEF ChangePort
  <2>2. NoDatagram(sockets, c)
    BY <1>1, <1>30 DEF NoDatagram, ChangePort
  <2> QED
    BY <1>1, <1>2, <1>30, <2>1, <2>2 DEF ChangePort, surface_vars
<1>31. ASSUME NEW d \in Clients, DropClicked(d)
       PROVE  view'[c] = level'
  <2>1. ~ControlFrom(recv, c)
    BY <1>13, <1>31, MessageKinds DEF DropClicked
  <2> QED
    BY <1>1, <1>2, <1>31, <2>1 DEF DropClicked, surface_vars, listener_vars
<1>32. CASE UNCHANGED vars
  BY <1>1, <1>2, <1>32 DEF vars, surface_vars, listener_vars, show_vars
<1> QED
  BY <1>3, <1>4, <1>5, <1>6, <1>8, <1>9, <1>10, <1>15, <1>16, <1>17, <1>18,
     <1>19, <1>21, <1>23, <1>24, <1>25, <1>26, <1>27, <1>28, <1>29, <1>30,
     <1>31, <1>32 DEF Next, Surface, Listener, Show
(***************************************************************************)
(* Goodbyes                                                                *)
(***************************************************************************)
(* A goodbye is sent after every registration sent before it.               *)
LEMMA LeavingStep == IInv /\ [Next]_vars => LeavingInv'
<1> SUFFICES ASSUME IInv, [Next]_vars, NEW c \in Clients,
                    heard'[c] = "goodbye"
             PROVE  /\ forwarding'.client = c =>
                        \A i \in DOMAIN forwarding'.msgs :
                            forwarding'.msgs[i] # Registration
                    /\ LeavesLast(recv', c)
                    /\ c \in Listed' => Leaves(recv', c)
  BY DEF LeavingInv
<1> DEFINE Silent(f) == f.client = c =>
                \A i \in DOMAIN f.msgs : f.msgs[i] # Registration
           Goal == /\ Silent(forwarding') /\ LeavesLast(recv', c)
                   /\ c \in Listed' => Leaves(recv', c)
<1> SUFFICES Goal
  OBVIOUS
<1>0. /\ TypeOK /\ ForwardInv /\ recv \in Seq(ControlMessages)
      /\ heard[c] = "goodbye" =>
            /\ Silent(forwarding) /\ LeavesLast(recv, c)
            /\ c \in Listed => Leaves(recv, c)
  BY DEF IInv, LeavingInv, TypeOK
<1>1. CASE UNCHANGED <<heard, forwarding, recv, clients>>
  BY <1>0, <1>1 DEF Listed
<1>2. CASE recv_from
  <2> DEFINE d == Head(sockets[socket])
  <2>1. d \in Datagrams
    <3>1. sockets[socket] \in Seq(Datagrams) /\ sockets[socket] # <<>>
      BY <1>0, <1>2 DEF TypeOK, recv_from
    <3> QED
      BY <3>1, Took
  <2>2. /\ heard' = [heard EXCEPT ![d.client] = "hello"]
        /\ forwarding'.client = d.client
        /\ UNCHANGED <<recv, clients>>
    BY <1>2, <2>1 DEF recv_from, Datagrams, show_vars
  <2> HIDE DEF d
  <2>3. d.client # c /\ heard[c] = "goodbye"
    BY <1>0, <2>1, <2>2 DEF TypeOK, Datagrams
  <2> QED
    BY <1>0, <2>2, <2>3 DEF Listed
<1>3. ASSUME NEW m, Forwarding(m),
             forwarding' = [forwarding EXCEPT !.msgs = Tail(@)]
      PROVE  Silent(forwarding')
  <2>1. /\ forwarding.msgs \in Seq(Messages \cup {Registration})
        /\ forwarding.msgs # <<>>
        /\ forwarding'.msgs = Tail(forwarding.msgs)
    BY <1>0, <1>3 DEF TypeOK, Forwarding
  <2>2. /\ DOMAIN forwarding.msgs = 1 .. Len(forwarding.msgs)
        /\ Len(forwarding.msgs) \in Nat
        /\ DOMAIN forwarding'.msgs = 1 .. Len(forwarding.msgs) - 1
        /\ \A i \in 1 .. Len(forwarding.msgs) - 1 :
                forwarding'.msgs[i] = forwarding.msgs[i + 1]
    BY <2>1, Took
  <2>3. \A i \in DOMAIN forwarding'.msgs : forwarding'.msgs[i] # Registration
    <3>1. \A k \in DOMAIN forwarding.msgs :
                k # 1 => forwarding.msgs[k] # Registration
      BY <1>0 DEF ForwardInv
    <3>2. \A i \in DOMAIN forwarding'.msgs :
                /\ i + 1 \in DOMAIN forwarding.msgs /\ i + 1 # 1
                /\ forwarding'.msgs[i] = forwarding.msgs[i + 1]
      BY <2>2
    <3> QED
      BY <3>1, <3>2
  <2> QED
    BY <2>3
<1>4. ASSUME NEW m, Forwarding(m)
      PROVE  /\ sender_addr = forwarding.client /\ sender_addr \in Clients
             /\ 1 \in DOMAIN forwarding.msgs /\ forwarding.msgs[1] = m
  <2>1. /\ forwarding.msgs \in Seq(Messages \cup {Registration})
        /\ forwarding.msgs # <<>>
    BY <1>0, <1>4 DEF TypeOK, Forwarding
  <2>2. /\ Len(forwarding.msgs) \in Nat \ {0}
        /\ DOMAIN forwarding.msgs = 1 .. Len(forwarding.msgs)
        /\ Head(forwarding.msgs) = forwarding.msgs[1]
    BY <2>1, Took
  <2> QED
    BY <1>0, <1>4, <2>1, <2>2 DEF TypeOK, Forwarding, sender_addr
<1>5. ASSUME NEW m \in ControlMessages, ~Registers(m, c),
             recv' = Append(recv, m), Silent(forwarding'),
             heard[c] = "goodbye", UNCHANGED clients
      PROVE  Goal
  BY <1>0, <1>5, PutFrom DEF Listed
<1>6. CASE EmitRegistration
  <2>1. /\ Forwarding(Registration) /\ emit(Register(sender_addr))
        /\ heard[c] = "goodbye"
    BY <1>6 DEF EmitRegistration
  <2>2. sender_addr # c /\ sender_addr \in Clients
    BY <1>0, <1>4, <2>1
  <2>3. /\ Register(sender_addr) \in ControlMessages
        /\ ~Registers(Register(sender_addr), c)
    BY <2>2, MessageKinds DEF Registers
  <2>4. Silent(forwarding')
    BY <1>3, <2>1 DEF emit
  <2> QED
    BY <1>5, <2>1, <2>3, <2>4 DEF emit
<1>7. CASE EmitDeregistration
  <2> DEFINE m == Drop(sender_addr, FALSE)
  <2>1. /\ Forwarding(Deregister) /\ emit(m)
        /\ heard' = [heard EXCEPT ![sender_addr] = "goodbye"]
    BY <1>7 DEF EmitDeregistration
  <2>2. sender_addr \in Clients
    BY <1>4, <2>1
  <2>3. /\ m \in ControlMessages /\ m.op = "DropOscClient"
        /\ m.client = sender_addr
    BY <2>2, MessageKinds
  <2>4. Silent(forwarding')
    BY <1>3, <2>1 DEF emit
  <2> HIDE DEF m
  <2>5. CASE sender_addr = c
    <3>1. Drops(m, c) /\ recv' = Append(recv, m)
      BY <2>1, <2>3, <2>5 DEF Drops, emit
    <3> QED
      BY <1>0, <2>3, <2>4, <3>1, PutFrom
  <2>6. CASE sender_addr # c
    <3>1. heard[c] = "goodbye" /\ ~Registers(m, c)
      BY <1>0, <2>1, <2>3, <2>6 DEF TypeOK, Registers
    <3> QED
      BY <1>5, <2>1, <2>3, <2>4, <3>1 DEF emit
  <2> QED
    BY <2>5, <2>6
<1>8. CASE EmitControl
  <2>1. PICK v \in Levels :
            /\ Forwarding(v) /\ emit(Control(sender_addr, v))
            /\ heard' = [heard EXCEPT ![sender_addr] =
                    IF @ = "goodbye" THEN "hello" ELSE @]
    BY <1>8 DEF EmitControl
  <2>2. sender_addr \in Clients
    BY <1>4, <2>1
  <2>3. /\ Control(sender_addr, v) \in ControlMessages
        /\ ~Registers(Control(sender_addr, v), c)
    BY <2>2, MessageKinds DEF Registers
  <2>4. heard[c] = "goodbye"
    BY <1>0, <2>1, <2>2 DEF TypeOK
  <2>5. Silent(forwarding')
    BY <1>3, <2>1 DEF emit
  <2> QED
    BY <1>5, <2>1, <2>3, <2>4, <2>5 DEF emit
<1>9. CASE IgnoreMessage
  <2>1. Silent(forwarding')
    BY <1>3, <1>9 DEF IgnoreMessage
  <2> QED
    BY <1>0, <1>9, <2>1 DEF IgnoreMessage, show_vars, Listed
<1>10. CASE RefuseMessage
  <2>1. /\ forwarding' = [forwarding EXCEPT !.msgs = <<>>]
        /\ UNCHANGED <<heard, recv, clients>>
    BY <1>10 DEF RefuseMessage, show_vars
  <2>2. forwarding'.msgs = <<>>
    BY <1>0, <2>1 DEF TypeOK
  <2>3. Silent(forwarding')
    BY <2>2
  <2> QED
    BY <1>0, <2>1, <2>3 DEF Listed
<1>11. ASSUME NEW op, Received(op)
       PROVE  /\ recv # <<>> /\ Head(recv) \in ControlMessages
              /\ Head(recv).op = op /\ recv' = Tail(recv)
  BY <1>0, <1>11, Took DEF Received
<1>12. CASE RegisterOscClient
  <2>1. /\ heard[c] = "goodbye" /\ UNCHANGED forwarding
        /\ Head(recv).op = "RegisterOscClient"
        /\ recv # <<>> /\ recv' = Tail(recv)
        /\ register(Head(recv).client)
    BY <1>11, <1>12 DEF RegisterOscClient, listener_vars
  <2>2. LeavesLast(recv', c)
    BY <1>0, <2>1, TookFrom
  <2>3. CASE Head(recv).client = c
    <3>1. Registers(Head(recv), c)
      BY <2>1, <2>3 DEF Registers
    <3>2. Leaves(recv', c)
      BY <1>0, <2>1, <3>1, TookFrom
    <3> QED
      BY <1>0, <2>1, <2>2, <3>2
  <2>4. CASE Head(recv).client # c
    <3>1. c \in Listed' => c \in Listed
      BY <1>0, <2>1, <2>4 DEF TypeOK, Listed, register
    <3>2. ~Drops(Head(recv), c)
      BY <2>1 DEF Drops
    <3> QED
      BY <1>0, <2>1, <2>2, <3>1, <3>2, TookFrom
  <2> QED
    BY <2>3, <2>4
<1>13. CASE DropOscClient
  <2>1. /\ UNCHANGED forwarding /\ Head(recv).op = "DropOscClient"
        /\ recv # <<>> /\ recv' = Tail(recv)
        /\ deregister(Head(recv).client)
    BY <1>11, <1>13 DEF DropOscClient
  <2>2. heard[c] = "goodbye"
    BY <1>0, <1>13 DEF TypeOK, DropOscClient
  <2>3. LeavesLast(recv', c)
    BY <1>0, <2>1, <2>2, TookFrom
  <2>4. c \in Listed' => Leaves(recv', c)
    <3>1. CASE Head(recv).client = c
      BY <1>0, <2>1, <3>1 DEF TypeOK, Listed, deregister
    <3>2. CASE Head(recv).client # c
      <4>1. c \in Listed' => c \in Listed
        BY <1>0, <2>1 DEF TypeOK, Listed, deregister
      <4>2. ~Drops(Head(recv), c)
        BY <3>2 DEF Drops
      <4> QED
        BY <1>0, <2>1, <2>2, <4>1, <4>2, TookFrom
    <3> QED
      BY <3>1, <3>2
  <2> QED
    BY <1>0, <2>1, <2>2, <2>3, <2>4
<1>14. ASSUME NEW op, Received(op),
              op \notin {"RegisterOscClient", "DropOscClient"},
              UNCHANGED <<heard, forwarding, clients>>
       PROVE  Goal
  <2>1. ~Drops(Head(recv), c)
    BY <1>11, <1>14 DEF Drops
  <2> QED
    BY <1>0, <1>11, <1>14, <2>1, TookFrom DEF Listed
<1>15. CASE SwapOscSocket
  BY <1>14, <1>15 DEF SwapOscSocket
<1>16. CASE ControlMoved
  BY <1>14, <1>16 DEF ControlMoved, listener_vars
<1>17. ASSUME NEW m \in ControlMessages, m.op # "RegisterOscClient",
              recv' = Append(recv, m), UNCHANGED <<heard, forwarding, clients>>
       PROVE  Goal
  <2>1. ~Registers(m, c)
    BY <1>17 DEF Registers
  <2> QED
    BY <1>0, <1>5, <1>17, <2>1
<1>18. ASSUME NEW v \in Levels, MoveElsewhere(v)
       PROVE  Goal
  BY <1>17, <1>18, MessageKinds DEF MoveElsewhere, listener_vars
<1>19. ASSUME NEW p \in Ports, ChangePort(p)
       PROVE  Goal
  BY <1>17, <1>19, MessageKinds DEF ChangePort
<1>20. ASSUME NEW d \in Clients, DropClicked(d)
       PROVE  Goal
  BY <1>17, <1>20, MessageKinds DEF DropClicked, listener_vars
<1> HIDE DEF Goal
<1> QED
  BY <1>1, <1>2, <1>6, <1>7, <1>8, <1>9, <1>10, <1>12, <1>13, <1>15, <1>16,
     <1>18, <1>19, <1>20
     DEF Next, Surface, Speak, SpeakInVain, Deliver, Lose, Listener,
         swap_pending_socket, recv_timeout, forwarded, Show, refresh_ui,
         snapshot_state, send, vars, listener_vars, show_vars

(***************************************************************************)
(* The theorems                                                            *)
(***************************************************************************)
(* The invariant holds throughout.                                          *)
LEMMA Inductive == Spec => []IInv
<1>1. Init => IInv
  BY InitInv
<1>2. IInv /\ [Next]_vars => IInv'
  BY TypeStep, OneCopyStep, ForwardStep, SocketsStep, LevelStep, ViewStep,
     LeavingStep DEF IInv
<1> QED
  BY <1>1, <1>2, PTL DEF Spec

(* No socket that is received on or handed over is closed, whatever ports  *)
(* are asked for while the listener is busy (osc/mod.rs, swap_socket).     *)
THEOREM TypeCorrect == Spec => []TypeOK
<1>1. IInv => TypeOK
  BY DEF IInv
<1> QED
  BY <1>1, Inductive, PTL

(* No client is in the list twice (OscClientManager::register).            *)
THEOREM OneCopy == Spec => []OneCopyEach
<1>1. IInv => OneCopyEach
  BY DEF IInv
<1> QED
  BY <1>1, Inductive, PTL

(* The port the panel shows is the one the listener will come to.          *)
THEOREM NewestPort == Spec => []NewestPortWins
<1>1. IInv => NewestPortWins
  BY DEF IInv
<1> QED
  BY <1>1, Inductive, PTL

(* With nothing under way and nothing lost, all registered surfaces show   *)
(* the level there is, however many there are.                             *)
THEOREM ViewsAgree == Spec => []ViewCurrent
<1>1. IInv => ViewCurrent
  BY DEF IInv
<1> QED
  BY <1>1, Inductive, PTL

(* A goodbye outlives every registration of the same client.               *)
THEOREM GoodbyeKept == Spec => []GoodbyeHonoured
<1>1. ASSUME IInv
      PROVE  GoodbyeHonoured
  <2>1. ASSUME NEW c \in Clients, heard[c] = "goodbye", ListSettled(c),
               c \in Listed
        PROVE  FALSE
    <3>1. Leaves(recv, c)
      BY <1>1, <2>1 DEF IInv, LeavingInv
    <3> QED
      BY <2>1, <3>1 DEF Leaves, ListSettled
  <2> QED
    BY <2>1 DEF GoodbyeHonoured
<1> QED
  BY <1>1, Inductive, PTL
=============================================================================

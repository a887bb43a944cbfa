--------------------------- MODULE NetworkFixtures ---------------------------
(***************************************************************************)
(* The fixtures that are not on DMX: a Lumitone (profile/lumitone.rs) is   *)
(* sent commands over TCP, a WLED node (profile/wled.rs, wled.rs) JSON over *)
(* HTTP.  Their controls post messages to a channel; a thread empties it   *)
(* and another, for the Lumitone the same one, talks to the device.        *)
(*                                                                         *)
(* A message is a function from the parts of the told's state it carries *)
(* to their values, which count the changes of the control.                *)
(***************************************************************************)
EXTENDS Naturals, Sequences, Functions

VARIABLES
    kinds,     \* the kinds of the fixtures made so far, a sequence
    latest,    \* the value of each part, as the controls have it
    channel,   \* the messages in each fixture's channel
    pending,   \* LumitoneSender's pending state, or the WLED's shared slot
    flushing,  \* what a WLED's poll thread has taken from the slot
    overdue,   \* a Lumitone's time_until_next_send is zero
    connected, \* the WLED nodes that initialize has reached
    told,      \* what each device was told last, of the parts it was told of
    newest,    \* the parts that the last message carried
    lost       \* the WLED nodes whose last flush failed, and the Lumitones
               \* whose threads ended with something that was not sent
dataVars == <<kinds, latest, channel, pending, flushing, overdue, connected,
              told, newest, lost>>

Fixtures == DOMAIN kinds
None == <<>>
\* The controls, and what the message carries that is posted when one moves.
Parts(kind) == IF kind = "Lumitone" THEN {"state", "palette"}
               ELSE {"level", "speed", "preset"}
Carried(control) ==
    CASE control \in {"level", "speed"} -> {"level", "speed"}
      [] control = "preset" -> {"preset", "speed"}
      [] OTHER -> {control}

\* What is known of both, the new before the old.
overlaid(new, old) ==
    [p \in DOMAIN new \cup DOMAIN old |-> IF p \in DOMAIN new THEN new[p] ELSE old[p]]

Changes == SumFunction([i \in Fixtures |-> SumFunction(latest[i])])

\* A fixture that is made posts nothing: its device, which may have been that
\* of a fixture before, keeps what it shows until a control moves.
NewFixture(kind) ==
    /\ kinds' = Append(kinds, kind)
    /\ latest' = Append(latest, [p \in Parts(kind) |-> 0])
    /\ channel' = Append(channel, <<>>)
    /\ pending' = Append(pending, None)
    /\ flushing' = Append(flushing, None)
    /\ overdue' = Append(overdue, FALSE)
    /\ connected' = Append(connected, FALSE)
    /\ told' = Append(told, None)
    /\ newest' = Append(newest, {})
    /\ lost' = Append(lost, FALSE)

\* A control moves (on_change).
Change(i, control) ==
    /\ latest' = [latest EXCEPT ![i][control] = @ + 1]
    /\ channel' = [channel EXCEPT ![i] =
                      Append(@, Restrict(latest'[i], Carried(control)))]
    /\ newest' = [newest EXCEPT ![i] = Carried(control)]
    /\ UNCHANGED <<kinds, pending, flushing, overdue, connected, told, lost>>

(***************************************************************************)
(* The Lumitone's thread.  It is due to send again SEND_INTERVAL after it  *)
(* began to send.                                                          *)
(***************************************************************************)
dirty(i) == pending[i] # None

LumitoneReceive(i) ==
    /\ dirty(i) => ~overdue[i]
    /\ channel[i] # <<>>
    /\ channel' = [channel EXCEPT ![i] = Tail(@)]
    /\ pending' = [pending EXCEPT ![i] = overlaid(Head(channel[i]), @)]
    /\ \E due \in BOOLEAN : overdue' = [overdue EXCEPT ![i] = due]
    /\ UNCHANGED <<kinds, latest, flushing, connected, told, newest, lost>>

LumitoneTimeout(i) ==
    /\ dirty(i) /\ ~overdue[i]
    /\ channel[i] = <<>>
    /\ overdue' = [overdue EXCEPT ![i] = TRUE]
    /\ UNCHANGED <<kinds, latest, channel, pending, flushing, connected, told,
                   newest, lost>>

\* Mutant: what could not be sent is dropped.
wiped_Always(i, sent) == None
\* "If the send succeeds, wipe that state."
wiped(i, sent) == IF sent THEN None ELSE pending[i]
\* When a send fails some of it may have arrived.  slow: it took as long as
\* SEND_INTERVAL, so that the next one is due at once.
LumitoneSend(i) ==
    /\ dirty(i) /\ overdue[i]
    /\ \E sent, slow \in BOOLEAN, arrived \in SUBSET DOMAIN pending[i] :
        /\ sent => arrived = DOMAIN pending[i]
        /\ told' = [told EXCEPT ![i] = overlaid(Restrict(pending[i], arrived), @)]
        /\ pending' = [pending EXCEPT ![i] = wiped(i, sent)]
        /\ overdue' = [overdue EXCEPT ![i] = slow]
    /\ UNCHANGED <<kinds, latest, channel, flushing, connected, newest, lost>>

\* Its channel hangs up: what was not sent yet is dropped.
LumitoneHangUp(i) ==
    /\ dirty(i) => ~overdue[i]
    /\ channel[i] = <<>>
    /\ pending' = [pending EXCEPT ![i] = None]
    /\ lost' = [lost EXCEPT ![i] = IF dirty(i) THEN TRUE ELSE @]
    /\ UNCHANGED <<kinds, latest, channel, flushing, overdue, connected, told, newest>>

(***************************************************************************)
(* The WLED's two threads                                                  *)
(***************************************************************************)
\* Mutant: a message that is waiting stays.
replaced_KeepFirst(i) == IF pending[i] = None THEN Head(channel[i]) ELSE pending[i]
\* The newest message takes the place of one that has not been taken, with
\* all that it carried.
replaced(i) == Head(channel[i])
WledDrain(i) ==
    /\ channel[i] # <<>>
    /\ channel' = [channel EXCEPT ![i] = Tail(@)]
    /\ pending' = [pending EXCEPT ![i] = replaced(i)]
    /\ UNCHANGED <<kinds, latest, flushing, overdue, connected, told, newest, lost>>

\* initialize tries until the node answers.
WledConnect(i) ==
    /\ ~connected[i]
    /\ connected' = [connected EXCEPT ![i] = TRUE]
    /\ UNCHANGED <<kinds, latest, channel, pending, flushing, overdue, told,
                   newest, lost>>

WledTake(i) ==
    /\ connected[i] /\ flushing[i] = None /\ pending[i] # None
    /\ flushing' = [flushing EXCEPT ![i] = pending[i]]
    /\ pending' = [pending EXCEPT ![i] = None]
    /\ UNCHANGED <<kinds, latest, channel, overdue, connected, told, newest, lost>>

\* A flush that fails is logged.
WledFlush(i) ==
    /\ flushing[i] # None
    /\ flushing' = [flushing EXCEPT ![i] = None]
    /\ \/ /\ told' = [told EXCEPT ![i] = overlaid(flushing[i], @)]
          /\ lost' = [lost EXCEPT ![i] = FALSE]
       \/ /\ lost' = [lost EXCEPT ![i] = TRUE]
          /\ UNCHANGED told
    /\ UNCHANGED <<kinds, latest, channel, pending, overdue, connected, newest>>

(***************************************************************************)
(* Properties                                                              *)
(***************************************************************************)
Quiet(i) == channel[i] = <<>> /\ pending[i] = None /\ flushing[i] = None
Current(i, p) == p \in DOMAIN told[i] /\ told[i][p] = latest[i][p]

\* Whatever fails and however messages are thinned out, with nothing under way a
\* Lumitone has been told the latest state if a control of it has moved since
\* the fixture was made, and so for the palette; unless its thread ended, with
\* the fixture, before the last change was sent.
LumitoneCurrent ==
    \A i \in Fixtures :
        kinds[i] = "Lumitone" /\ Quiet(i) /\ ~lost[i] =>
            \A p \in DOMAIN latest[i] : latest[i][p] # 0 => Current(i, p)

\* A WLED node with nothing under way has been told all that the last message
\* carried, unless its flush failed; the speed, which every message carries, is
\* never lost to a message of another control.  A preset that is chosen just
\* before a level can be.
WledNewest ==
    \A i \in Fixtures :
        kinds[i] = "Wled" /\ Quiet(i) /\ ~lost[i] =>
            \A p \in newest[i] : Current(i, p)
=============================================================================

----------------------------- MODULE ShowSaver -----------------------------
(***************************************************************************)
(* The off-thread writer of show files (show_saver.rs, show_file.rs).      *)
(*                                                                         *)
(* The show thread submits snapshots through an unbounded mpsc channel;    *)
(* the "show-saver" thread writes at most one every SAVE_THROTTLE, holding *)
(* the latest throttled request back in `buffered`.  Snapshots are         *)
(* numbered in the order they are submitted, so a bigger number is a newer *)
(* state of the show.  The clock is reduced to one bit, `elapsed`: whether *)
(* SAVE_THROTTLE has passed since last_write.  Every file operation may    *)
(* fail, and the process may die and be started again at any point.        *)
(***************************************************************************)
EXTENDS Naturals, Sequences

CONSTANTS
    MaxSubmits,    \* bound: snapshots submitted over all runs of the process
    MaxRestarts    \* bound: times the process is started again

ASSUME BoundsAssumption == MaxSubmits \in Nat /\ MaxRestarts \in Nat

VARIABLES
    queue,      \* requests in the channel
    connected,  \* the ShowSaver (the only sender) has not been dropped
    pc,         \* where the saver thread is
    after,      \* where it goes on when write_or_log returns
    req,        \* the request it is dealing with
    buffered,   \* the request held back by the throttle, 0 when None
    lastWrite,  \* last_write.is_some()
    elapsed,    \* last_write.elapsed() >= SAVE_THROTTLE
    tmp, disk,  \* contents of the temporary file and of the show file
    submitted,  \* history: the last snapshot submitted
    attempted,  \* history: the newest snapshot write_or_log was called for
    overtaken,  \* history: the held request that the last one to be fired at
                \* once left behind it, None when there was none
    lost,       \* history: the last snapshot whose save failed, or that died
                \* with its process
    restarts    \* restarts so far

files  == <<tmp, disk, lost>>
thread == <<pc, after, req, buffered, lastWrite, elapsed, attempted,
            overtaken>>
vars   == <<queue, connected, thread, files, submitted, restarts>>

None == 0
Contents == [v : Nat, whole : BOOLEAN]
NoFile == [v |-> None, whole |-> TRUE]

Init ==
    /\ queue = <<>> /\ connected = TRUE
    /\ pc = "recv" /\ after = "recv"
    /\ req = None /\ buffered = None
    /\ lastWrite = FALSE /\ elapsed = FALSE
    /\ tmp = NoFile /\ disk = NoFile
    /\ submitted = 0 /\ attempted = 0 /\ restarts = 0
    /\ overtaken = None /\ lost = None

(***************************************************************************)
(* The show thread and the clock                                           *)
(***************************************************************************)
submit ==
    /\ connected /\ submitted < MaxSubmits
    /\ submitted' = submitted + 1
    /\ queue' = Append(queue, submitted + 1)
    /\ UNCHANGED <<connected, thread, files, restarts>>

\* The Show is dropped, and with it the sending half of the channel.
DropSaver ==
    /\ connected /\ connected' = FALSE
    /\ UNCHANGED <<queue, thread, files, submitted, restarts>>

ThrottleElapses ==
    /\ lastWrite /\ ~elapsed /\ elapsed' = TRUE
    /\ UNCHANGED <<queue, connected, pc, after, req, buffered, lastWrite,
                   attempted, overtaken, files, submitted, restarts>>

(***************************************************************************)
(* run: the receive that opens the loop, and its three outcomes            *)
(***************************************************************************)
StartWrite(r, next) ==
    /\ pc' = "write" /\ after' = next /\ req' = r
    /\ attempted' = IF r > attempted THEN r ELSE attempted

\* A message is handed over even when the deadline has passed, and a
\* disconnection is reported only once the channel is empty.
Receive ==
    /\ pc = "recv" /\ queue # <<>>
    /\ req' = Head(queue) /\ queue' = Tail(queue) /\ pc' = "received"
    /\ UNCHANGED <<connected, after, buffered, lastWrite, elapsed, attempted,
                   overtaken, files, submitted, restarts>>

\* Mutant: the first request waits for a throttle nobody has started.
can_fire_Never == lastWrite /\ elapsed

can_fire == lastWrite => elapsed

Fire ==
    /\ pc = "received" /\ can_fire
    /\ StartWrite(req, "recv") /\ overtaken' = buffered
    /\ UNCHANGED <<queue, connected, buffered, lastWrite, elapsed, files,
                   submitted, restarts>>

\* Mutant: a throttled request is dropped.
HoldBack_Dropped ==
    /\ pc = "received" /\ ~can_fire
    /\ pc' = "recv"
    /\ UNCHANGED <<queue, connected, after, req, buffered, lastWrite,
                   elapsed, attempted, overtaken, files, submitted,
                   restarts>>

HoldBack ==
    /\ pc = "received" /\ ~can_fire
    /\ buffered' = req /\ overtaken' = None /\ pc' = "recv"
    /\ UNCHANGED <<queue, connected, after, req, lastWrite, elapsed,
                   attempted, files, submitted, restarts>>

\* recv_timeout is called only when a request is held back and last_write is
\* known; otherwise the thread blocks in recv.
Timeout ==
    /\ pc = "recv" /\ queue = <<>> /\ connected = TRUE
    /\ buffered # None /\ lastWrite /\ elapsed
    /\ StartWrite(buffered, "recv") /\ buffered' = None
    /\ UNCHANGED <<queue, connected, lastWrite, elapsed, overtaken, files,
                   submitted, restarts>>

DisconnectedFlush ==
    /\ pc = "recv" /\ queue = <<>> /\ ~connected /\ buffered # None
    /\ StartWrite(buffered, "done") /\ buffered' = None
    /\ UNCHANGED <<queue, connected, lastWrite, elapsed, overtaken, files,
                   submitted, restarts>>

\* Mutant: the thread returns without a look at the buffer.
DisconnectedExit_Unflushed ==
    /\ pc = "recv" /\ queue = <<>> /\ ~connected
    /\ pc' = "done"
    /\ UNCHANGED <<queue, connected, after, req, buffered, lastWrite,
                   elapsed, attempted, overtaken, files, submitted,
                   restarts>>

DisconnectedExit ==
    /\ pc = "recv" /\ queue = <<>> /\ ~connected /\ buffered = None
    /\ pc' = "done"
    /\ UNCHANGED <<queue, connected, after, req, buffered, lastWrite,
                   elapsed, attempted, overtaken, files, submitted,
                   restarts>>

(***************************************************************************)
(* write_or_log and show_file::save: write the temporary file, rename it   *)
(***************************************************************************)
\* An error is logged and forgotten: the request is not kept for a retry, and
\* last_write is set all the same.
WriteReturns ==
    /\ pc' = after
    /\ IF after = "done"
       THEN UNCHANGED <<lastWrite, elapsed>>
       ELSE lastWrite' = TRUE /\ elapsed' = FALSE
    /\ UNCHANGED <<queue, connected, after, req, buffered, attempted,
                   overtaken, submitted, restarts>>

\* Mutant: the show file is written in place.
BeginTmp_InPlace ==
    /\ pc = "write"
    /\ disk' = [v |-> req, whole |-> FALSE] /\ tmp' = disk' /\ pc' = "writing"
    /\ UNCHANGED <<queue, connected, after, req, buffered, lastWrite,
                   elapsed, attempted, overtaken, lost, submitted, restarts>>

BeginTmp ==
    /\ pc = "write"
    /\ tmp' = [v |-> req, whole |-> FALSE] /\ pc' = "writing"
    /\ UNCHANGED <<queue, connected, after, req, buffered, lastWrite,
                   elapsed, attempted, overtaken, disk, lost, submitted,
                   restarts>>

EndTmp ==
    /\ pc = "writing"
    /\ tmp' = [tmp EXCEPT !.whole = TRUE] /\ pc' = "rename"
    /\ UNCHANGED <<queue, connected, after, req, buffered, lastWrite,
                   elapsed, attempted, overtaken, disk, lost, submitted,
                   restarts>>

WriteFails ==
    /\ pc \in {"write", "writing"} /\ WriteReturns
    /\ lost' = req /\ UNCHANGED <<tmp, disk>>

Rename ==
    /\ pc = "rename"
    /\ disk' = tmp /\ tmp' = NoFile /\ lost' = lost
    /\ WriteReturns

\* The error of remove_file is ignored, so the temporary file may stay.
RenameFails ==
    /\ pc = "rename"
    /\ tmp' \in {tmp, NoFile} /\ disk' = disk /\ lost' = req
    /\ WriteReturns

(***************************************************************************)
(* The process dies, or ends, and is started again: the files are all that *)
(* is left, and the show it loads is newer than nothing but itself.        *)
(***************************************************************************)
Restart ==
    /\ restarts < MaxRestarts /\ restarts' = restarts + 1
    /\ queue' = <<>> /\ connected' = TRUE
    /\ pc' = "recv" /\ after' = "recv" /\ req' = None /\ buffered' = None
    /\ lastWrite' = FALSE /\ elapsed' = FALSE
    /\ attempted' = submitted /\ overtaken' = None /\ lost' = submitted
    /\ UNCHANGED <<tmp, disk, submitted>>

\* The thread has returned and nothing is left to happen.
Finished == pc = "done" /\ UNCHANGED vars

Saver ==
    \/ Receive \/ Fire \/ HoldBack \/ Timeout
    \/ DisconnectedFlush \/ DisconnectedExit
    \/ BeginTmp \/ EndTmp \/ WriteFails \/ Rename \/ RenameFails

Next ==
    \/ submit \/ DropSaver \/ ThrottleElapses
    \/ Saver \/ Restart \/ Finished

Spec == Init /\ [][Next]_vars

\* The saver thread is scheduled, and time passes.
FairSpec == Spec /\ WF_vars(Saver) /\ WF_vars(ThrottleElapses)

-----------------------------------------------------------------------------
TypeOK ==
    /\ queue \in Seq(1 .. MaxSubmits)
    /\ connected \in BOOLEAN
    /\ pc \in {"recv", "received", "write", "writing", "rename", "done"}
    /\ after \in {"recv", "done"}
    /\ req \in Nat /\ buffered \in Nat
    /\ pc \in {"received", "write", "writing", "rename"} => req # None
    /\ lastWrite \in BOOLEAN /\ elapsed \in BOOLEAN
    /\ tmp \in Contents /\ disk \in Contents
    /\ submitted \in 0 .. MaxSubmits /\ attempted \in Nat
    /\ overtaken \in Nat /\ lost \in Nat
    /\ restarts \in 0 .. MaxRestarts

(* "This ensures the target file is never left in a partially-written      *)
(* state" (show_file::save): whatever fails and whenever the process dies, *)
(* the show file holds all of one snapshot.                                *)
TargetIsWhole == disk.whole

(* What the show file is to end up with: the newest snapshot.  But when    *)
(* one was fired at once while an older one was held back, the older one   *)
(* is written after it (see DiskNeverGoesBack).                            *)
due == IF overtaken # None THEN overtaken ELSE submitted

(* When the thread has returned, whatever came in bursts, was held back or *)
(* was still in the channel when the Show was dropped, the show file has   *)
(* the snapshot that is due, unless that one's own save failed or it died  *)
(* with an earlier process: no other failure, and no exit in the middle of *)
(* the throttle, costs the last edit.                                      *)
ExitFlushes == pc = "done" => disk.v = due \/ lost = due

(* A request is held back only behind a write whose time is known.  The    *)
(* loop waits without a deadline otherwise, and the held snapshot would    *)
(* sit in memory until the next edit.                                      *)
HeldBehindWrite == buffered # None => lastWrite

(* Every submitted snapshot is, in the end, handed to save itself or by a  *)
(* newer one, however edits come in bursts, if the process lives on.       *)
EverySnapshotIsHandled ==
    \A v \in 1 .. MaxSubmits : (submitted >= v) ~> (attempted >= v)

(* The show file never goes back to an older snapshot.                     *)
DiskNeverGoesBack == [][disk'.v >= disk.v]_disk
=============================================================================

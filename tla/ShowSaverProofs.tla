-------------------------- MODULE ShowSaverProofs --------------------------
(***************************************************************************)
(* Proofs of the safety properties of ShowSaver, for any number of         *)
(* snapshots and restarts.                                                 *)
(*                                                                         *)
(* ExitFlushes is not inductive by itself: what is due when the thread     *)
(* returns is on the disk because at every moment before it is either held *)
(* back, or being written, or on the disk already, or its save has failed, *)
(* once the channel is empty; and because nothing else is held back then,  *)
(* so that nothing is written over it.                                     *)
(***************************************************************************)
EXTENDS ShowSaver, TLAPS, SequenceTheorems

Writing == pc \in {"write", "writing", "rename"}

\* Nothing newer than what was submitted is anywhere, and what is last in
\* the channel is the newest.
QueueInv ==
    /\ \A k \in 1 .. Len(queue) : queue[k] <= submitted
    /\ queue # <<>> => queue[Len(queue)] = submitted
    /\ req <= submitted /\ buffered <= submitted /\ attempted <= submitted

\* Where the snapshot is that the file is to end up with.
DueInv ==
    queue = <<>> =>
        IF pc = "received" THEN req = submitted
        ELSE IF buffered # None THEN buffered = due
        ELSE IF Writing THEN req = due
        ELSE disk.v = due \/ lost = due

\* The last write is started, and the thread returns, only when the channel
\* is disconnected and empty and nothing is held back.
ExitInv ==
    \/ pc = "done"
    \/ Writing /\ after = "done"
    => ~connected /\ queue = <<>> /\ buffered = None

FileInv ==
    /\ disk.whole
    /\ pc = "rename" => tmp.whole
    /\ pc \in {"writing", "rename"} => tmp.v = req

IInv ==
    /\ TypeOK /\ QueueInv /\ DueInv /\ ExitInv /\ FileInv
    /\ HeldBehindWrite

(* No file is a whole file, and an empty channel is a channel.             *)
LEMMA Nothing == NoFile \in Contents /\ <<>> \in Seq(1 .. MaxSubmits)
<1>1. NoFile \in Contents
  BY DEF NoFile, Contents, None
<1>2. <<>> \in Seq(1 .. MaxSubmits)
  OBVIOUS
<1> QED
  BY <1>1, <1>2

(* In the initial state the channel is empty and nothing has been written. *)
LEMMA InitInv == Init => IInv
<1> SUFFICES ASSUME Init PROVE IInv
  OBVIOUS
<1> USE BoundsAssumption DEF Init, None
<1>1. TypeOK
  <2>1. {connected, lastWrite, elapsed} \subseteq BOOLEAN
    BY Zenon
  <2>2. queue \in Seq(1 .. MaxSubmits) /\ tmp \in Contents /\ disk \in Contents
    BY Nothing
  <2>3. /\ req \in Nat /\ buffered \in Nat /\ attempted \in Nat
        /\ overtaken \in Nat /\ lost \in Nat
        /\ submitted \in 0 .. MaxSubmits /\ restarts \in 0 .. MaxRestarts
    OBVIOUS
  <2> QED
    BY <2>1, <2>2, <2>3 DEF TypeOK
<1>2. QueueInv /\ DueInv /\ ExitInv
  BY DEF QueueInv, DueInv, ExitInv, Writing, due, NoFile
<1>3. FileInv /\ HeldBehindWrite
  BY DEF NoFile, FileInv, HeldBehindWrite
<1> QED
  BY <1>1, <1>2, <1>3 DEF IInv

(* Every step keeps the types.                                             *)
LEMMA TypeStep == TypeOK /\ [Next]_vars => TypeOK'
<1> SUFFICES ASSUME TypeOK, [Next]_vars PROVE TypeOK'
  OBVIOUS
<1> USE BoundsAssumption, Nothing DEF TypeOK, None
<1>1. CASE submit
  BY <1>1 DEF submit, thread, files
<1>2. CASE DropSaver
  BY <1>2 DEF DropSaver, thread, files
<1>3. CASE ThrottleElapses
  BY <1>3 DEF ThrottleElapses, files
<1>4. CASE Receive
  <2>1. Head(queue) \in 1 .. MaxSubmits /\ Tail(queue) \in Seq(1 .. MaxSubmits)
    BY <1>4 DEF Receive
  <2> QED
    BY <1>4, <2>1 DEF Receive, files
<1>5. CASE Fire
  BY <1>5 DEF Fire, StartWrite, files
<1>6. CASE HoldBack
  BY <1>6 DEF HoldBack, files
<1>7. CASE Timeout
  BY <1>7 DEF Timeout, StartWrite, files
<1>8. CASE DisconnectedFlush
  BY <1>8 DEF DisconnectedFlush, StartWrite, files
<1>9. CASE DisconnectedExit
  BY <1>9 DEF DisconnectedExit, files
<1>10. CASE BeginTmp
  BY <1>10 DEF BeginTmp, Contents
<1>11. CASE EndTmp
  BY <1>11 DEF EndTmp, Contents
<1>12. CASE WriteFails
  BY <1>12 DEF WriteFails, WriteReturns, files
<1>13. CASE Rename
  BY <1>13 DEF Rename, WriteReturns
<1>14. CASE RenameFails
  BY <1>14 DEF RenameFails, WriteReturns
<1>15. CASE Restart
  <2> USE <1>15 DEF Restart, files
  <2>1. {connected', lastWrite', elapsed'} \subseteq BOOLEAN
    BY Zenon
  <2>2. queue' \in Seq(1 .. MaxSubmits)
    OBVIOUS
  <2>3. /\ req' \in Nat /\ buffered' \in Nat /\ attempted' \in Nat
        /\ overtaken' \in Nat /\ lost' \in Nat
        /\ submitted' \in 0 .. MaxSubmits /\ restarts' \in 0 .. MaxRestarts
    OBVIOUS
  <2>4. tmp' \in Contents /\ disk' \in Contents
    OBVIOUS
  <2> QED
    BY <2>1, <2>2, <2>3, <2>4 DEF TypeOK
<1>16. CASE UNCHANGED vars
  BY <1>16 DEF vars, thread, files
<1> QED
  BY <1>1, <1>2, <1>3, <1>4, <1>5, <1>6, <1>7, <1>8, <1>9, <1>10, <1>11,
     <1>12, <1>13, <1>14, <1>15, <1>16 DEF Next, Saver, Finished

(* Every step keeps the rest of the invariant.                             *)
LEMMA NextInv == IInv /\ [Next]_vars => IInv'
<1> SUFFICES ASSUME IInv, [Next]_vars PROVE IInv'
  OBVIOUS
<1>1. TypeOK'
  BY TypeStep DEF IInv
<1> USE DEF IInv, None, Writing, due
<1>2. CASE submit
  <2> USE <1>2 DEF submit, thread, files
  <2>0. /\ Len(queue') = Len(queue) + 1 /\ Len(queue) \in Nat
        /\ queue'[Len(queue')] = submitted'
        /\ \A k \in 1 .. Len(queue) : queue'[k] = queue[k]
    BY DEF TypeOK
  <2>1. QueueInv'
    <3>1. submitted' \in Nat /\ submitted' > submitted
      BY BoundsAssumption DEF TypeOK
    <3>2. ASSUME NEW k \in 1 .. Len(queue') PROVE queue'[k] <= submitted'
      <4>1. CASE k \in 1 .. Len(queue)
        <5>1. queue[k] \in 1 .. MaxSubmits
          <6>1. queue \in Seq(1 .. MaxSubmits)
            BY DEF TypeOK
          <6> QED
            BY <4>1, <6>1, ElementOfSeq
        <5>2. queue[k] <= submitted
          BY <4>1 DEF QueueInv
        <5> QED
          BY BoundsAssumption, <2>0, <3>1, <4>1, <5>1, <5>2 DEF TypeOK
      <4>2. CASE k = Len(queue')
        BY <2>0, <3>1, <4>2
      <4> QED
        BY <2>0, <4>1, <4>2
    <3>3. req' <= submitted' /\ buffered' <= submitted'
          /\ attempted' <= submitted'
      BY <3>1 DEF TypeOK, QueueInv
    <3> QED
      BY <2>0, <3>2, <3>3 DEF QueueInv
  <2>2. DueInv' /\ ExitInv' /\ FileInv' /\ HeldBehindWrite'
    BY DEF TypeOK, DueInv, ExitInv, FileInv, HeldBehindWrite
  <2> QED
    BY <1>1, <2>1, <2>2
<1>3. CASE DropSaver
  BY <1>1, <1>3 DEF DropSaver, thread, files, QueueInv, DueInv, ExitInv,
     FileInv, HeldBehindWrite
<1>4. CASE ThrottleElapses
  BY <1>1, <1>4 DEF ThrottleElapses, files, QueueInv, DueInv, ExitInv,
     FileInv, HeldBehindWrite
<1>5. CASE Receive
  <2> USE <1>5 DEF Receive, files
  <2>1. /\ Len(queue') = Len(queue) - 1
        /\ \A k \in 1 .. Len(queue') : queue'[k] = queue[k + 1]
        /\ req' = queue[1] /\ Len(queue) \in Nat \ {0}
    BY DEF TypeOK
  <2>2. QueueInv'
    <3>1. \A k \in 1 .. Len(queue') : queue'[k] <= submitted'
      BY <2>1 DEF QueueInv
    <3>2. queue' # <<>> => queue'[Len(queue')] = submitted'
      <4> SUFFICES ASSUME queue' # <<>> PROVE queue'[Len(queue')] = submitted'
        OBVIOUS
      <4>1. Len(queue') \in 1 .. Len(queue')
        BY <2>1 DEF TypeOK
      <4> QED
        BY <2>1, <4>1 DEF QueueInv
    <3> QED
      BY <2>1, <3>1, <3>2 DEF QueueInv, TypeOK
  <2>3. DueInv'
    BY <2>1 DEF TypeOK, QueueInv, DueInv
  <2>4. ExitInv' /\ FileInv' /\ HeldBehindWrite'
    BY DEF ExitInv, FileInv, HeldBehindWrite
  <2> QED
    BY <1>1, <2>2, <2>3, <2>4
<1>6. CASE Fire
  BY <1>1, <1>6 DEF TypeOK, Fire, StartWrite, files, QueueInv, DueInv,
     ExitInv, FileInv, HeldBehindWrite
<1>7. CASE HoldBack
  BY <1>1, <1>7 DEF TypeOK, HoldBack, can_fire, files, QueueInv, DueInv,
     ExitInv, FileInv, HeldBehindWrite
<1>8. CASE Timeout
  BY <1>1, <1>8 DEF TypeOK, Timeout, StartWrite, files, QueueInv, DueInv,
     ExitInv, FileInv, HeldBehindWrite
<1>9. CASE DisconnectedFlush
  BY <1>1, <1>9 DEF TypeOK, DisconnectedFlush, StartWrite, files, QueueInv,
     DueInv, ExitInv, FileInv, HeldBehindWrite
<1>10. CASE DisconnectedExit
  BY <1>1, <1>10 DEF TypeOK, DisconnectedExit, files, QueueInv, DueInv,
     ExitInv, FileInv, HeldBehindWrite
<1>11. CASE BeginTmp
  BY <1>1, <1>11 DEF TypeOK, BeginTmp, QueueInv, DueInv, ExitInv, FileInv,
     HeldBehindWrite
<1>12. CASE EndTmp
  BY <1>1, <1>12 DEF TypeOK, EndTmp, Contents, QueueInv, DueInv, ExitInv,
     FileInv, HeldBehindWrite
<1>13. CASE WriteFails
  BY <1>1, <1>13 DEF TypeOK, WriteFails, WriteReturns, files, QueueInv,
     DueInv, ExitInv, FileInv, HeldBehindWrite
<1>14. CASE Rename
  BY <1>1, <1>14 DEF TypeOK, Rename, WriteReturns, QueueInv, DueInv,
     ExitInv, FileInv, HeldBehindWrite
<1>15. CASE RenameFails
  BY <1>1, <1>15 DEF TypeOK, RenameFails, WriteReturns, QueueInv, DueInv,
     ExitInv, FileInv, HeldBehindWrite
<1>16. CASE Restart
  BY <1>1, <1>16 DEF TypeOK, Restart, files, QueueInv, DueInv, ExitInv,
     FileInv, HeldBehindWrite
<1>17. CASE UNCHANGED vars
  BY <1>1, <1>17 DEF vars, thread, files, QueueInv, DueInv, ExitInv,
     FileInv, HeldBehindWrite
<1> QED
  BY <1>2, <1>3, <1>4, <1>5, <1>6, <1>7, <1>8, <1>9, <1>10, <1>11, <1>12,
     <1>13, <1>14, <1>15, <1>16, <1>17 DEF Next, Saver, Finished

(* The inductive invariant holds in every reachable state.                 *)
LEMMA Invariance == Spec => []IInv
<1>1. Init => IInv
  BY InitInv
<1>2. IInv /\ [Next]_vars => IInv'
  BY NextInv
<1> QED
  BY <1>1, <1>2, PTL DEF Spec

(* The state always has its type.                                          *)
THEOREM TypeCorrect == Spec => []TypeOK
<1>1. IInv => TypeOK
  BY DEF IInv
<1> QED
  BY <1>1, Invariance, PTL

(* The show file is never left in a partially-written state, whatever file *)
(* operation fails and whenever the process dies (show_file::save).        *)
THEOREM FileWhole == Spec => []TargetIsWhole
<1>1. IInv => TargetIsWhole
  BY DEF IInv, FileInv, TargetIsWhole
<1> QED
  BY <1>1, Invariance, PTL

(* When the thread has returned, the show file has the snapshot that is    *)
(* due, whatever was still in the channel or held back when the Show was   *)
(* dropped, unless that one's own save failed or it died with an earlier   *)
(* process (ShowSaver::run and its Disconnected arm).                      *)
THEOREM ExitLosesNothing == Spec => []ExitFlushes
<1>1. IInv => ExitFlushes
  BY DEF IInv, ExitInv, DueInv, Writing, ExitFlushes
<1> QED
  BY <1>1, Invariance, PTL

(* A request is held back only behind a write whose time is known, so the  *)
(* loop has a deadline whenever it holds one (ShowSaver::run).             *)
THEOREM HeldHasDeadline == Spec => []HeldBehindWrite
<1>1. IInv => HeldBehindWrite
  BY DEF IInv
<1> QED
  BY <1>1, Invariance, PTL
=============================================================================

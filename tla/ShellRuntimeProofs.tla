------------------------- MODULE ShellRuntimeProofs -------------------------
(***************************************************************************)
(* What holds of ShellRuntime for every number of calls, every set of      *)
(* commands and every bound on the queues: its types, that an exit in      *)
(* progress is shown as one, that the monitor loop runs in an exam only,   *)
(* that a running exam ends by an exit, that an exited one has released    *)
(* the window, and that no kiosk is left that the shell does not know of.  *)
(*                                                                         *)
(* Two shapes of step carry the argument.  An update that is not an exit's *)
(* moves the snapshot as Moves says, and starts the monitor loop in a      *)
(* running exam only.  An exit's step may do anything to the snapshot that *)
(* still shows an exit, and stops the loop.  The kiosk needs more: what    *)
(* each request in flight will make of the core (KInv, further down).      *)
(***************************************************************************)
EXTENDS ShellRuntime, TLAPS

Consistent(s) == s \in Snapshots /\ (s.exiting => s.session \in ExitStates)
ExamOn(s) == s.session = Running /\ ~s.exiting

(* From s to t without the rights of an exit. *)
Moves(s, t) ==
    /\ Consistent(t)
    /\ s.session = Running => t.session = Running
    /\ t.exiting => s.exiting

NoTick(q) == \A i \in DOMAIN q : q[i].tag # "tick"
Quiet == ~monitor.timer /\ NoTick(inbox) /\ NoTick(outbox)

QueuesOK ==
    /\ monitor \in [timer : BOOLEAN, ticking : BOOLEAN]
    /\ inbox \in Seq(Messages)
    /\ outbox \in Seq(Answers)

MovesOn ==
    /\ Moves(snap, snap')
    /\ Quiet => Quiet' \/ ExamOn(snap')

Exits ==
    /\ Consistent(snap')
    /\ snap'.session \in ExitStates \cup {"EXITED"}
    /\ Quiet'

(* A start that the core accepted knows the session. *)
PatchKept ==
    \A c \in Calls :
        at[c] \in {"enter", "rollback", "notify1", "retry", "notify2"}
            => patch[c].session # NoState

Inv == TypeOK /\ PatchKept /\ ExitingShowsExit /\ MonitorOnlyInExam

-----------------------------------------------------------------------------
(* The governed snapshot. *)

(* What updateSnapshot makes of a patch that has none of an exit's rights. *)
LEMMA GovernedMoves ==
    ASSUME NEW s, Consistent(s), NEW p \in Snapshots, p.exiting = s.exiting,
           NEW allow \in SUBSET {"audio"}
    PROVE  Moves(s, Governed(s, p, allow))
<1> DEFINE g == Governed(s, p, allow)
<1>1. g \in Snapshots
  BY DEF Governed, Consistent, Snapshots
<1>2. s.exiting => g.exiting /\ g.session = s.session
  BY DEF Governed
<1>3. ~s.exiting => ~g.exiting
  BY DEF Governed
<1>4. s.session = Running => g.session = Running
  BY DEF Governed
<1> QED BY <1>1, <1>2, <1>3, <1>4 DEF Moves, Consistent

LEMMA MovesTrans ==
    ASSUME NEW s, NEW t, NEW u, Moves(s, t), Moves(t, u)
    PROVE  Moves(s, u)
BY DEF Moves

LEMMA ExitSteps ==
    ASSUME NEW s, Consistent(s)
    PROVE  /\ Consistent(ExitRequested(s)) /\ ExitRequested(s).session \in ExitStates
           /\ Consistent(Exiting(s)) /\ Exiting(s).session \in ExitStates
BY DEF ExitRequested, Exiting, Governed, Consistent, Snapshots, SessionStates, ExitStates

(* The three ways an exit is concluded. *)
LEMMA ExitConcluded ==
    ASSUME NEW s, Consistent(s), NEW allow \in {ExitFlow, {}}
    PROVE  LET g == Governed(Exiting(s), EndedFrom(Exiting(s)), allow)
           IN Consistent(g) /\ g.session \in ExitStates \cup {"EXITED"}
<1> DEFINE e == Exiting(s)
           g == Governed(e, EndedFrom(e), allow)
<1>1. e \in Snapshots /\ e.session \in ExitStates /\ e.session # Running
  BY ExitSteps DEF Consistent, ExitStates, Running
<1>2. /\ EndedFrom(e) \in Snapshots
      /\ EndedFrom(e).session = "EXITED"
      /\ ~EndedFrom(e).exiting
  BY <1>1 DEF EndedFrom, Unprotected, Snapshots, SessionStates
<1> HIDE DEF e
<1>3. g \in Snapshots
  BY <1>1, <1>2 DEF Governed, Snapshots
<1>4. g.session \in ExitStates \cup {"EXITED"}
  BY <1>1, <1>2 DEF Governed
<1>5. g.exiting => g.session = e.session
  BY <1>1, <1>2 DEF Governed
<1> QED BY <1>1, <1>3, <1>4, <1>5 DEF Consistent, e

(* Patches keep a snapshot one, and leave the locks of an exit alone. *)
LEMMA PatchedTyped ==
    ASSUME NEW s \in Snapshots
    PROVE  /\ \A p \in Patches : p.session # NoState =>
                Patched(s, p) \in Snapshots /\ Patched(s, p).exiting = s.exiting
           /\ \A r \in Answers :
                Reported(s, r) \in Snapshots /\ Reported(s, r).exiting = s.exiting
           /\ \A b \in BOOLEAN :
                WithAudio(s, b) \in Snapshots /\ WithAudio(s, b).exiting = s.exiting
           /\ Unprotected(s) \in Snapshots /\ Unprotected(s).exiting = s.exiting
BY DEF Patched, Reported, WithAudio, Unprotected, Snapshots, Patches, Answers,
       SessionStates, CoreStates, NoState

-----------------------------------------------------------------------------
(* The queues and the monitor loop. *)

LEMMA OutcomeTyped ==
    ASSUME TypeOK, NEW c \in Calls, NEW r \in Outcomes(c)
    PROVE  /\ r \in Answers
           /\ Unread(r) \in Seq(Answers)
           /\ NoTick(outbox) => NoTick(Unread(r))
<1>1. CASE r = NoAnswer
  BY <1>1 DEF NoAnswer, Answers, NoCall, Requests, CoreStates, Unread, TypeOK
<1>2. CASE r # NoAnswer
  <2>1. outbox \in Seq(Answers) /\ 1 \in DOMAIN outbox /\ r = outbox[1]
    BY <1>2 DEF Outcomes, TypeOK
  <2>2. outbox # <<>>
    BY <2>1
  <2>3. Tail(outbox) \in Seq(Answers)
    BY <2>1, <2>2
  <2>4. NoTick(outbox) => NoTick(Tail(outbox))
    BY <2>1, <2>2 DEF NoTick
  <2> QED BY <1>2, <2>1, <2>3, <2>4 DEF Unread
<1> QED BY <1>1, <1>2

LEMMA SentTyped ==
    ASSUME NEW q \in Seq(Messages), NEW c \in Calls, NEW tag \in Requests
    PROVE  Sent(q, c, tag) \in Seq(Messages) /\ (NoTick(q) => NoTick(Sent(q, c, tag)))
<1> DEFINE m == [call |-> c, tag |-> tag]
<1>1. m \in Messages /\ m.tag # "tick"
  BY DEF Messages, Requests, RestoreRequests
<1>2. Append(q, m) \in Seq(Messages)
  BY <1>1
<1>3. NoTick(q) => NoTick(Append(q, m))
  BY <1>1 DEF NoTick
<1> QED BY <1>2, <1>3 DEF Sent

(* Moving on the generation leaves no tick that counts. *)
LEMMA OutdatedTyped ==
    /\ \A q \in Seq(Messages) : Outdated(q) \in Seq(Messages) /\ NoTick(Outdated(q))
    /\ \A q \in Seq(Answers) : Outdated(q) \in Seq(Answers) /\ NoTick(Outdated(q))
<1>1. ASSUME NEW q \in Seq(Messages)
      PROVE  Outdated(q) \in Seq(Messages) /\ NoTick(Outdated(q))
  <2>1. DOMAIN q = 1 .. Len(q) /\ Len(q) \in Nat
    OBVIOUS
  <2>2. ASSUME NEW i \in DOMAIN q
        PROVE  Outdated(q)[i] \in Messages /\ Outdated(q)[i].tag # "tick"
    <3>1. q[i] \in Messages
      BY <2>2, <2>1
    <3>2. q[i].tag = "tick" => [q[i] EXCEPT !.tag = "old tick"] \in Messages
      BY <3>1 DEF Messages
    <3> QED BY <3>1, <3>2, <2>2 DEF Outdated, Messages
  <2>3. Outdated(q) \in [1 .. Len(q) -> Messages]
    BY <2>1, <2>2 DEF Outdated
  <2>4. Outdated(q) \in Seq(Messages)
    BY <2>1, <2>3
  <2>5. DOMAIN Outdated(q) = DOMAIN q
    BY DEF Outdated
  <2> QED BY <2>2, <2>4, <2>5 DEF NoTick
<1>2. ASSUME NEW q \in Seq(Answers)
      PROVE  Outdated(q) \in Seq(Answers) /\ NoTick(Outdated(q))
  <2>1. DOMAIN q = 1 .. Len(q) /\ Len(q) \in Nat
    OBVIOUS
  <2>2. ASSUME NEW i \in DOMAIN q
        PROVE  Outdated(q)[i] \in Answers /\ Outdated(q)[i].tag # "tick"
    <3>1. q[i] \in Answers
      BY <2>2, <2>1
    <3>2. q[i].tag = "tick" => [q[i] EXCEPT !.tag = "old tick"] \in Answers
      BY <3>1 DEF Answers
    <3> QED BY <3>1, <3>2, <2>2 DEF Outdated, Answers
  <2>3. Outdated(q) \in [1 .. Len(q) -> Answers]
    BY <2>1, <2>2 DEF Outdated
  <2>4. Outdated(q) \in Seq(Answers)
    BY <2>1, <2>3
  <2>5. DOMAIN Outdated(q) = DOMAIN q
    BY DEF Outdated
  <2> QED BY <2>2, <2>4, <2>5 DEF NoTick
<1> QED BY <1>1, <1>2

LEMMA Keeps ==
    ASSUME TypeOK, NEW in \in Seq(Messages), NEW out \in Seq(Answers),
           NoTick(inbox) => NoTick(in), NoTick(outbox) => NoTick(out),
           KeepMonitor(in, out)
    PROVE  QueuesOK' /\ (Quiet => Quiet')
BY DEF KeepMonitor, QueuesOK, Quiet, NoTick, TypeOK

LEMMA Stops ==
    ASSUME NEW in \in Seq(Messages), NEW out \in Seq(Answers), StopMonitor(in, out)
    PROVE  QueuesOK' /\ Quiet'
BY OutdatedTyped DEF StopMonitor, MonitorOff, QueuesOK, Quiet, NoTick

(* The loop is started where the snapshot says that the exam runs. *)
LEMMA Starts ==
    ASSUME TypeOK, NEW s, NEW out \in Seq(Answers),
           NoTick(outbox) => NoTick(out), StartMonitor(s, inbox, out)
    PROVE  QueuesOK' /\ (Quiet => Quiet' \/ s.session = Running)
<1>1. CASE KeepMonitor(inbox, out)
  BY <1>1, Keeps DEF TypeOK
<1>2. CASE StopMonitor(inbox, out)
  BY <1>2, Stops DEF TypeOK
<1>3. CASE /\ s.session = Running
           /\ monitor' = [timer |-> TRUE, ticking |-> TRUE]
           /\ inbox' = Sent(inbox, NoCall, "tick")
           /\ outbox' = out
  <2>1. [call |-> NoCall, tag |-> "tick"] \in Messages
    BY DEF Messages
  <2>2. Sent(inbox, NoCall, "tick") \in Seq(Messages)
    BY <2>1 DEF Sent, TypeOK
  <2> QED BY <1>3, <2>2 DEF QueuesOK
<1> QED BY <1>1, <1>2, <1>3 DEF StartMonitor

-----------------------------------------------------------------------------
(* Every step moves the snapshot on, or is an exit's. *)

LEMMA Snap == Inv => snap \in Snapshots /\ Consistent(snap) /\ Moves(snap, snap)
BY DEF Inv, TypeOK, ExitingShowsExit, Consistent, Moves

(* A patch that only touches the audio lock. *)
LEMMA AudioMoves ==
    ASSUME NEW s, Consistent(s), NEW b \in BOOLEAN
    PROVE  Moves(s, Governed(s, WithAudio(s, b), {"audio"}))
BY GovernedMoves, PatchedTyped DEF Consistent

LEMMA AcceptedMoves == Inv => Moves(snap, Accepted)
BY Snap, AudioMoves DEF Accepted

(* A patch of a start, and the answers of the core. *)
LEMMA PatchMoves ==
    ASSUME NEW s, Consistent(s), NEW p \in Patches, p.session # NoState,
           NEW b \in BOOLEAN
    PROVE  /\ Moves(s, Governed(s, WithAudio(Patched(s, p), b), {"audio"}))
           /\ Moves(s, Governed(s, WithAudio(Patched(s, p), b), {}))
           /\ Moves(s, Governed(s, WithAudio(Unprotected(Patched(s, p)), b), {"audio"}))
<1>1. Patched(s, p) \in Snapshots /\ Patched(s, p).exiting = s.exiting
  BY PatchedTyped DEF Consistent
<1>2. /\ Unprotected(Patched(s, p)) \in Snapshots
      /\ Unprotected(Patched(s, p)).exiting = s.exiting
  BY <1>1, PatchedTyped
<1>3. /\ WithAudio(Patched(s, p), b) \in Snapshots
      /\ WithAudio(Patched(s, p), b).exiting = s.exiting
  BY <1>1, PatchedTyped
<1>4. /\ WithAudio(Unprotected(Patched(s, p)), b) \in Snapshots
      /\ WithAudio(Unprotected(Patched(s, p)), b).exiting = s.exiting
  BY <1>2, PatchedTyped
<1> QED BY <1>3, <1>4, GovernedMoves

LEMMA ReportMoves ==
    ASSUME NEW s, Consistent(s), NEW r \in Answers
    PROVE  /\ Moves(s, Governed(s, Reported(s, r), {}))
           /\ Moves(s, Governed(s, WithAudio(Reported(s, r), TRUE), {"audio"}))
           /\ \A b \in BOOLEAN :
                Moves(s, Governed(s, [Reported(s, r) EXCEPT !.kiosk = b], {}))
<1>1. Reported(s, r) \in Snapshots /\ Reported(s, r).exiting = s.exiting
  BY PatchedTyped DEF Consistent
<1>2. /\ WithAudio(Reported(s, r), TRUE) \in Snapshots
      /\ WithAudio(Reported(s, r), TRUE).exiting = s.exiting
  BY <1>1, PatchedTyped
<1>3. ASSUME NEW b \in BOOLEAN
      PROVE  /\ [Reported(s, r) EXCEPT !.kiosk = b] \in Snapshots
             /\ [Reported(s, r) EXCEPT !.kiosk = b].exiting = s.exiting
  BY <1>1 DEF Snapshots
<1> QED BY <1>1, <1>2, <1>3, GovernedMoves

(* A step that keeps the loop and moves the snapshot. *)
LEMMA KeepsAndMoves ==
    ASSUME Inv, Moves(snap, snap'), QueuesOK' /\ (Quiet => Quiet')
    PROVE  QueuesOK' /\ (MovesOn \/ Exits)
BY DEF MovesOn

LEMMA ForcedExits ==
    ASSUME Inv, NEW out \in Seq(Answers), ForceExitCleanup(out)
    PROVE  QueuesOK' /\ Exits
BY Snap, Stops, ExitConcluded DEF ForceExitCleanup, Exits, Inv, TypeOK

LEMMA CallSteps ==
    ASSUME Inv, NEW c \in Calls, Call(c)
    PROVE  QueuesOK' /\ (MovesOn \/ Exits)
<1> USE DEF Inv
<1>1. /\ inbox \in Seq(Messages) /\ outbox \in Seq(Answers)
      /\ \A tag \in Requests :
           /\ Sent(inbox, c, tag) \in Seq(Messages)
           /\ NoTick(inbox) => NoTick(Sent(inbox, c, tag))
  BY SentTyped DEF TypeOK
<1>2. CASE snap' = snap /\ \E tag \in Requests : KeepMonitor(Sent(inbox, c, tag), outbox)
  BY <1>1, <1>2, Keeps, Snap, KeepsAndMoves
<1>3. ASSUME NEW cmd \in {"start", "dry", "demo"}, StartExam(c, cmd)
      PROVE  snap' = snap /\ \E tag \in Requests : KeepMonitor(Sent(inbox, c, tag), outbox)
  BY <1>3 DEF StartExam, Requests
<1>4. CASE RestoreDesktop(c)
  BY <1>2, <1>4 DEF RestoreDesktop, Requests, RestoreRequests
<1>5. CASE GetStatus(c)
  BY <1>2, <1>5 DEF GetStatus, Requests
<1>6. CASE Poll(c)
  BY <1>2, <1>6 DEF Poll, Requests
<1>7. CASE ExitExam(c)
  <2>1. QueuesOK' /\ Quiet'
    BY <1>1, <1>7, Stops DEF ExitExam, Requests, RestoreRequests
  <2> QED BY <1>7, <2>1, Snap, ExitSteps DEF ExitExam, Exits
<1> QED BY <1>2, <1>3, <1>4, <1>5, <1>6, <1>7 DEF Call

LEMMA ContinueSteps ==
    ASSUME Inv, NEW c \in Calls, Continue(c)
    PROVE  QueuesOK' /\ (MovesOn \/ Exits)
<1> USE DEF Inv
<1>1. SUFFICES ASSUME NEW r \in Outcomes(c),
                      \/ StartRefused(c, r) \/ DryStarted(c, r) \/ StartAccepted(c, r)
                      \/ StartThrows(c, r) \/ EnterRefused(c, r) \/ RolledBack(c, r)
                      \/ Abandoned(c, r) \/ KioskEntered(c, r) \/ DemoEntered(c, r)
                      \/ HandoffConfirmed(c, r) \/ HandoffFailed(c, r) \/ HandoffGivenUp(c, r)
                      \/ ExitAcknowledged(c, r) \/ ExitUnacknowledged(c, r)
                      \/ RestoreAcknowledged(c, r) \/ RestoreFailed(c, r)
                      \/ StatusAnswered(c, r) \/ PollAnswered(c, r)
                      \/ DemoConfirmed(c) \/ HandoffRetried(c)
               PROVE  QueuesOK' /\ (MovesOn \/ Exits)
  BY DEF Continue, Outcomes
<1>2. /\ inbox \in Seq(Messages) /\ outbox \in Seq(Answers)
      /\ Unread(r) \in Seq(Answers) /\ (NoTick(outbox) => NoTick(Unread(r)))
      /\ r \in Answers
  BY OutcomeTyped DEF TypeOK
<1>3. \A tag \in Requests : /\ Sent(inbox, c, tag) \in Seq(Messages)
                            /\ NoTick(inbox) => NoTick(Sent(inbox, c, tag))
  BY SentTyped, <1>2
<1>4. \A tag \in Requests :
        KeepMonitor(Sent(inbox, c, tag), Unread(r)) \/ KeepMonitor(Sent(inbox, c, tag), outbox)
            => QueuesOK' /\ (Quiet => Quiet')
  BY <1>2, <1>3, Keeps
<1>5. KeepMonitor(inbox, Unread(r)) => QueuesOK' /\ (Quiet => Quiet')
  BY <1>2, Keeps
<1>6. StopMonitor(inbox, Unread(r)) => QueuesOK' /\ Quiet'
  BY <1>2, Stops
<1>7. Moves(snap, snap) /\ Consistent(snap) /\ snap \in Snapshots
  BY Snap
<1>8. CASE \/ StartRefused(c, r) \/ EnterRefused(c, r) \/ Abandoned(c, r)
           \/ KioskEntered(c, r) \/ HandoffFailed(c, r) \/ HandoffRetried(c)
           \/ RestoreFailed(c, r)
  BY <1>4, <1>5, <1>7, <1>8, KeepsAndMoves
     DEF StartRefused, EnterRefused, Abandoned, KioskEntered, HandoffFailed, HandoffRetried,
         RestoreFailed, Requests, RestoreRequests
<1>9. CASE DryStarted(c, r)
  <2>1. Moves(snap, snap')
    BY <1>2, <1>9, AcceptedMoves, ReportMoves, MovesTrans DEF DryStarted, Moves
  <2> QED BY <1>5, <1>9, <2>1, KeepsAndMoves DEF DryStarted
<1>10. CASE StartAccepted(c, r)
  BY <1>4, <1>10, AcceptedMoves, KeepsAndMoves DEF StartAccepted, Requests
<1>11. CASE StartThrows(c, r)
  <2>1. Moves(snap, snap')
    BY <1>7, <1>11, AcceptedMoves, AudioMoves, MovesTrans DEF StartThrows, Moves
  <2>2. QueuesOK' /\ Quiet'
    BY <1>2, <1>3, <1>11, Stops DEF StartThrows, Requests, RestoreRequests
  <2> QED BY <2>1, <2>2 DEF MovesOn
<1>12. CASE RolledBack(c, r)
  <2>1. patch[c] \in Patches /\ patch[c].session # NoState
    BY <1>12 DEF RolledBack, TypeOK, PatchKept
  <2>2. Moves(snap, snap')
    BY <1>7, <1>12, <2>1, PatchMoves DEF RolledBack
  <2> QED BY <1>5, <1>12, <2>2, KeepsAndMoves DEF RolledBack
<1>13. CASE DemoEntered(c, r)
  <2>1. [patch'[c] EXCEPT !.session = "ENTERING_KIOSK"] \in Patches
    BY <1>2, <1>13 DEF DemoEntered, Guarded, TypeOK, Patches, Answers, CoreStates
  <2>2. [patch'[c] EXCEPT !.session = "ENTERING_KIOSK"].session # NoState
    BY <2>1 DEF Patches, NoState
  <2>3. Moves(snap, snap')
    BY <1>7, <1>13, <2>1, <2>2, PatchMoves DEF DemoEntered
  <2> QED BY <1>5, <1>13, <2>3, KeepsAndMoves DEF DemoEntered
<1>14. CASE DemoConfirmed(c)
  <2>1. DemoPatch \in Patches /\ DemoPatch.session # NoState
    BY DEF DemoPatch, Patches, CoreStates, Running, NoState
  <2>2. Moves(snap, snap')
    BY <1>7, <1>14, <2>1, PatchMoves DEF DemoConfirmed
  <2>3. KeepMonitor(inbox, outbox)
    BY <1>14 DEF DemoConfirmed, KeepMonitor
  <2> QED BY <1>2, <2>2, <2>3, Keeps, KeepsAndMoves
<1>15. ASSUME NEW p \in Patches, p.session # NoState, Settles(c, p, r)
       PROVE  QueuesOK' /\ MovesOn
  <2> DEFINE settled == Governed(snap, WithAudio(Patched(snap, p), TRUE), {})
  <2>1. Moves(snap, settled)
    BY <1>7, <1>15, PatchMoves
  <2>2. Moves(settled, snap')
    BY <2>1, <1>15, PatchMoves DEF Settles, Moves
  <2>3. Moves(snap, snap')
    BY <2>1, <2>2, MovesTrans
  <2>4. QueuesOK' /\ (Quiet => Quiet' \/ settled.session = Running)
    BY <1>2, <1>15, Starts DEF Settles
  <2>5. settled.session = Running => ExamOn(snap')
    <3> HIDE DEF settled
    <3>1. settled.session = Running => snap'.session = Running
      BY <2>2 DEF Moves
    <3> QED BY <3>1, <2>2 DEF Moves, Consistent, ExamOn, ExitStates, Running
  <2> QED BY <2>3, <2>4, <2>5 DEF MovesOn
<1>16. CASE HandoffConfirmed(c, r)
  <2>1. [session |-> r.session, kiosk |-> r.kiosk, exam |-> r.kiosk] \in Patches
    BY <1>2 DEF Answers, Patches
  <2>2. r.session # NoState
    BY <1>2 DEF Answers, CoreStates, NoState
  <2> QED BY <1>15, <1>16, <2>1, <2>2 DEF HandoffConfirmed
<1>17. CASE HandoffGivenUp(c, r)
  <2>1. patch[c] \in Patches /\ patch[c].session # NoState
    BY <1>17 DEF HandoffGivenUp, TypeOK, PatchKept
  <2> QED BY <1>15, <1>17, <2>1 DEF HandoffGivenUp
<1>18. CASE ExitAcknowledged(c, r) \/ RestoreAcknowledged(c, r)
  BY <1>6, <1>7, <1>18, ExitConcluded DEF ExitAcknowledged, RestoreAcknowledged, Exits
<1>19. CASE ExitUnacknowledged(c, r)
  BY <1>2, <1>5, <1>7, <1>19, ForcedExits, KeepsAndMoves DEF ExitUnacknowledged
<1>20. CASE StatusAnswered(c, r)
  BY <1>2, <1>5, <1>7, <1>20, ReportMoves, KeepsAndMoves DEF StatusAnswered
<1>21. CASE PollAnswered(c, r)
  <2> DEFINE polled == Governed(snap, [Reported(snap, r) EXCEPT !.kiosk = window], {})
  <2>1. Moves(snap, polled)
    BY <1>2, <1>7, ReportMoves DEF TypeOK
  <2>2. CASE ~r.ok
    BY <1>5, <1>7, <1>21, <2>2, KeepsAndMoves DEF PollAnswered
  <2>3. CASE r.ok
    <3>1. snap' = polled
      BY <1>21, <2>3 DEF PollAnswered
    <3>2. \/ polled.session = Running /\ StartMonitor(polled, inbox, Unread(r))
          \/ StopMonitor(inbox, Unread(r))
      BY <1>21, <2>3 DEF PollAnswered
    <3> HIDE DEF polled
    <3>3. polled.session = Running => ExamOn(snap')
      BY <2>1, <3>1 DEF Moves, Consistent, ExamOn, ExitStates, Running
    <3>4. QueuesOK' /\ (Quiet => Quiet' \/ ExamOn(snap'))
      BY <1>2, <1>6, <3>2, <3>3, Starts
    <3> QED BY <2>1, <3>1, <3>4 DEF MovesOn
  <2> QED BY <2>2, <2>3
<1> QED BY <1>1, <1>8, <1>9, <1>10, <1>11, <1>12, <1>13, <1>14, <1>16, <1>17, <1>18, <1>19,
           <1>20, <1>21

LEMMA ConfirmationSteps ==
    ASSUME Inv, BeginConfirmation \/ CancelConfirmation \/ DemoPoll
    PROVE  QueuesOK' /\ (MovesOn \/ Exits)
<1> USE DEF Inv
<1>1. QueuesOK' /\ (Quiet => Quiet')
  <2>1. KeepMonitor(inbox, outbox)
    BY DEF BeginConfirmation, CancelConfirmation, DemoPoll, KeepMonitor
  <2> QED BY <2>1, Keeps DEF TypeOK
<1>2. CASE BeginConfirmation
  BY <1>1, <1>2, Snap, KeepsAndMoves DEF BeginConfirmation
<1>3. CASE CancelConfirmation
  <2> DEFINE previous == IF prior = NoState THEN snap.session ELSE prior
             p == [snap EXCEPT !.session = previous, !.exiting = FALSE]
             g == Governed(snap, p, {"exit"})
  <2>1. snap \in Snapshots /\ previous \in SessionStates
    BY DEF TypeOK, Snapshots
  <2>2. p \in Snapshots /\ ~p.exiting
    BY <2>1 DEF Snapshots
  <2>3. snap' = g
    BY <1>3 DEF CancelConfirmation
  <2> HIDE DEF p
  <2>4. g \in Snapshots /\ ~g.exiting
    BY <2>1, <2>2 DEF Governed, Snapshots
  <2>5. snap.session = Running => g.session = Running
    BY DEF Governed
  <2> HIDE DEF g
  <2>6. Moves(snap, snap')
    BY <2>3, <2>4, <2>5 DEF Moves, Consistent
  <2> QED BY <1>1, <2>6, KeepsAndMoves
<1>4. CASE DemoPoll
  <2>1. DemoPatch \in Patches /\ DemoPatch.session # NoState
    BY DEF DemoPatch, Patches, CoreStates, Running, NoState
  <2>2. Moves(snap, snap')
    BY <1>4, <2>1, Snap, PatchMoves DEF DemoPoll
  <2> QED BY <1>1, <2>2, KeepsAndMoves
<1> QED BY <1>2, <1>3, <1>4

LEMMA TimerSteps ==
    ASSUME Inv, Timers
    PROVE  QueuesOK' /\ (MovesOn \/ Exits)
<1> USE DEF Inv
<1>1. /\ inbox \in Seq(Messages) /\ outbox \in Seq(Answers)
      /\ monitor \in [timer : BOOLEAN, ticking : BOOLEAN]
      /\ Consistent(snap) /\ Moves(snap, snap)
  BY Snap DEF TypeOK
<1>2. UNCHANGED <<monitor, inbox, outbox>> => QueuesOK' /\ (Quiet => Quiet')
  BY <1>1, Keeps DEF KeepMonitor
<1>3. outbox # <<>> => Tail(outbox) \in Seq(Answers) /\ (NoTick(outbox) => NoTick(Tail(outbox)))
  BY <1>1 DEF NoTick
<1>4. CASE ExitCleanupDue
  BY <1>1, <1>2, <1>4, ForcedExits, KeepsAndMoves DEF ExitCleanupDue
<1>5. CASE ExitAudioDue
  <2>1. Moves(snap, snap')
    BY <1>1, <1>5, AudioMoves DEF ExitAudioDue
  <2> QED BY <1>2, <1>5, <2>1, KeepsAndMoves DEF ExitAudioDue
<1>6. CASE Tick
  <2>1. [call |-> NoCall, tag |-> "tick"] \in Messages
    BY DEF Messages
  <2>2. Sent(inbox, NoCall, "tick") \in Seq(Messages)
    BY <1>1, <2>1 DEF Sent
  <2>3. inbox' = Sent(inbox, NoCall, "tick") /\ outbox' = outbox /\ snap' = snap
    BY <1>6 DEF Tick
  <2>4. monitor' \in [timer : BOOLEAN, ticking : BOOLEAN] /\ ~Quiet
    BY <1>1, <1>6 DEF Tick, Quiet
  <2>5. QueuesOK'
    BY <1>1, <2>2, <2>3, <2>4 DEF QueuesOK
  <2> QED BY <1>1, <2>3, <2>4, <2>5 DEF MovesOn
<1>7. CASE TickAnswered
  <2>1. Head(outbox) \in Answers
    BY <1>1, <1>7 DEF TickAnswered
  <2>2. Moves(snap, snap')
    BY <1>1, <1>7, <2>1, ReportMoves DEF TickAnswered
  <2>3. QueuesOK' /\ (Quiet => Quiet')
    BY <1>1, <1>3, <1>7 DEF TickAnswered, QueuesOK, Quiet, NoTick
  <2> QED BY <2>2, <2>3, KeepsAndMoves
<1>8. CASE TickFails
  <2>1. QueuesOK' /\ (Quiet => Quiet')
    BY <1>1, <1>8, OutdatedTyped DEF TickFails, QueuesOK, Quiet, NoTick
  <2> QED BY <1>1, <1>8, <2>1, KeepsAndMoves DEF TickFails
<1>9. CASE AnswerDropped
  <2>1. QueuesOK' /\ (Quiet => Quiet')
    BY <1>1, <1>3, <1>9 DEF AnswerDropped, QueuesOK, Quiet, NoTick
  <2> QED BY <1>1, <1>9, <2>1, KeepsAndMoves DEF AnswerDropped
<1> QED BY <1>4, <1>5, <1>6, <1>7, <1>8, <1>9 DEF Timers

Cores == [session : CoreStates, active : Calls \cup {NoCall}, kiosk : BOOLEAN]

(* What the core's answer carries is well typed, and a tick's only if it was asked. *)
LEMMA CoreDoesTyped ==
    ASSUME Inv, NEW m, NEW after \in Cores, NEW ok \in BOOLEAN, CoreDoes(m, after, ok)
    PROVE  QueuesOK' /\ MovesOn
<1> USE DEF Inv
<1>1. inbox \in Seq(Messages) /\ outbox \in Seq(Answers) /\ inbox # <<>>
  BY DEF TypeOK, CoreDoes
<1>2. m = inbox[1] /\ m \in Messages /\ Tail(inbox) \in Seq(Messages)
  BY <1>1 DEF CoreDoes
<1>3. NoTick(inbox) => m.tag # "tick" /\ NoTick(Tail(inbox))
  BY <1>1, <1>2 DEF NoTick
<1> DEFINE a == [call |-> m.call, tag |-> m.tag, ok |-> ok,
                 session |-> after.session, kiosk |-> after.kiosk]
<1>4. a \in Answers /\ a.tag = m.tag
  BY <1>2 DEF Answers, Messages, Cores
<1>5. outbox' = Append(outbox, a) /\ inbox' = Tail(inbox) /\ UNCHANGED <<snap, monitor>>
  BY DEF CoreDoes
<1> HIDE DEF a
<1>6. QueuesOK'
  BY <1>1, <1>2, <1>4, <1>5 DEF QueuesOK, TypeOK
<1>7. Quiet => Quiet'
  <2>1. NoTick(outbox) /\ a.tag # "tick" => NoTick(Append(outbox, a))
    BY <1>1, <1>4 DEF NoTick
  <2> QED BY <1>3, <1>4, <1>5, <2>1 DEF Quiet, NoTick
<1> QED BY <1>5, <1>6, <1>7, Snap DEF MovesOn

Serves(m) ==
    \/ CoreStarts(m) \/ CoreEntersKiosk(m) \/ CoreConfirms(m)
    \/ CoreRestores(m) \/ CoreReports(m) \/ CoreRefuses(m)

(* Whatever request the core serves, it ends with a session state of its own. *)
LEMMA CoreRequests ==
    ASSUME Inv, NEW m \in {inbox[i] : i \in DOMAIN inbox \cap {1}}, Serves(m)
    PROVE  \E after \in Cores, ok \in BOOLEAN : CoreDoes(m, after, ok)
<1> USE DEF Cores
<1>1. core \in Cores /\ m \in Messages
  BY DEF Inv, TypeOK
<1>2. CoreIdle \in Cores
  BY DEF CoreIdle, CoreStates, NoCall
<1>3. CASE CoreStarts(m)
  <2>1. m.call \in Calls \cup {NoCall}
    BY <1>1 DEF Messages
  <2>2. [session |-> IF m.tag = "dry" THEN Running ELSE "STARTING_EXAM_SESSION",
         active |-> m.call, kiosk |-> FALSE] \in Cores
    BY <2>1 DEF CoreStates, Running
  <2> QED BY <1>3, <2>2 DEF CoreStarts
<1>4. CASE CoreEntersKiosk(m)
  <2>1. [core EXCEPT !.session = "ENTERING_KIOSK", !.kiosk = TRUE] \in Cores
    BY <1>1 DEF CoreStates
  <2> QED BY <1>2, <1>4, <2>1 DEF CoreEntersKiosk
<1>5. CASE CoreConfirms(m)
  <2>1. [core EXCEPT !.session = Running] \in Cores
    BY <1>1 DEF CoreStates, Running
  <2> QED BY <1>5, <2>1 DEF CoreConfirms
<1>6. CASE CoreRestores(m) \/ CoreReports(m) \/ CoreRefuses(m)
  BY <1>1, <1>2, <1>6 DEF CoreRestores, CoreReports, CoreRefuses
<1> QED BY <1>3, <1>4, <1>5, <1>6 DEF Serves

LEMMA CoreSteps ==
    ASSUME Inv, Core
    PROVE  QueuesOK' /\ (MovesOn \/ Exits)
<1> USE DEF Inv
<1>1. CASE CoreDies
  <2>1. KeepMonitor(inbox, outbox)
    BY <1>1 DEF CoreDies, KeepMonitor
  <2> QED BY <1>1, <2>1, Keeps, Snap, KeepsAndMoves DEF CoreDies, TypeOK
<1>2. ASSUME NEW grace \in BOOLEAN, CoreExitSeen(grace)
      PROVE  QueuesOK' /\ MovesOn
  <2>1. QueuesOK' /\ Quiet'
    BY <1>2 DEF CoreExitSeen, QueuesOK, Quiet, NoTick, MonitorOff
  <2>2. /\ [Unprotected(snap) EXCEPT !.session = "INIT"] \in Snapshots
        /\ [Unprotected(snap) EXCEPT !.session = "INIT"].exiting = snap.exiting
    BY Snap DEF Unprotected, Snapshots, SessionStates
  <2>3. Moves(snap, snap')
    BY <1>2, <2>2, Snap, GovernedMoves DEF CoreExitSeen
  <2> QED BY <2>1, <2>3 DEF MovesOn
<1> QED BY <1>1, <1>2, CoreRequests, CoreDoesTyped DEF Core, Serves, Cores

LEMMA Steps ==
    ASSUME Inv, Next
    PROVE  QueuesOK' /\ (MovesOn \/ Exits)
BY CallSteps, ContinueSteps, ConfirmationSteps, TimerSteps, CoreSteps DEF Next

-----------------------------------------------------------------------------
(* The other variables keep their types, and an accepted start its session. *)

RestOK ==
    /\ at \in [Calls -> Waits \cup {"unused", "done"}]
    /\ patch \in [Calls -> Patches]
    /\ prior \in SessionStates \cup {NoState}
    /\ demo \in BOOLEAN
    /\ audioTimer \in {"off", "set", "old"}
    /\ cleanupTimer \in BOOLEAN
    /\ window \in BOOLEAN
    /\ input \in BOOLEAN
    /\ connected \in BOOLEAN
    /\ alive \in BOOLEAN
    /\ core \in Cores
    /\ refused \in BOOLEAN
    /\ PatchKept

LEMMA CallTypes ==
    ASSUME Inv, NEW c \in Calls, Call(c)
    PROVE  RestOK'
<1> USE DEF Inv, TypeOK, PatchKept, RestOK, Cores, Opens, KeepMonitor, shellVars, timerVars,
            desktopVars, coreVars, Waits, Requests, RestoreRequests
<1>1. ASSUME NEW cmd \in {"start", "dry", "demo"}, StartExam(c, cmd)
      PROVE  RestOK'
  BY <1>1 DEF StartExam
<1>2. CASE ExitExam(c)
  BY <1>2 DEF ExitExam
<1>3. CASE RestoreDesktop(c)
  BY <1>3 DEF RestoreDesktop
<1>4. CASE GetStatus(c)
  BY <1>4 DEF GetStatus
<1>5. CASE Poll(c)
  BY <1>5 DEF Poll
<1> QED BY <1>1, <1>2, <1>3, <1>4, <1>5 DEF Call

LEMMA EnteredTypes ==
    ASSUME Inv, NEW c \in Calls, NEW r \in Outcomes(c),
           KioskEntered(c, r) \/ DemoEntered(c, r)
    PROVE  RestOK'
<1> DEFINE p == [session |-> r.session, kiosk |-> window, exam |-> TRUE]
<1>1. p \in Patches /\ p.session # NoState
  <2>1. r \in Answers
    BY OutcomeTyped DEF Inv
  <2>2. r.session \in CoreStates /\ r.session # NoState
    BY <2>1 DEF Answers, CoreStates, NoState
  <2>3. window \in BOOLEAN
    BY DEF Inv, TypeOK
  <2> QED BY <2>2, <2>3 DEF Patches
<1>2. patch' = [patch EXCEPT ![c] = p] /\ input' \in {input, TRUE}
  BY DEF KioskEntered, DemoEntered, Guarded
<1>3. PICK step \in {"notify1", "confirm"} : at' = [at EXCEPT ![c] = step]
  BY DEF KioskEntered, DemoEntered, GoesTo
<1>4. UNCHANGED <<prior, demo, audioTimer, cleanupTimer, window, connected, alive, core, refused>>
  BY DEF KioskEntered, DemoEntered, shellVars, timerVars, coreVars
<1>5. at' \in [Calls -> Waits \cup {"unused", "done"}]
  BY <1>3 DEF Inv, TypeOK, Waits, Requests
<1>6. patch' \in [Calls -> Patches]
  BY <1>1, <1>2 DEF Inv, TypeOK
<1>7. PatchKept'
  <2> SUFFICES ASSUME NEW d \in Calls,
                      at'[d] \in {"enter", "rollback", "notify1", "retry", "notify2"}
               PROVE  patch'[d].session # NoState
    BY DEF PatchKept
  <2>1. CASE d = c
    BY <1>1, <1>2, <2>1 DEF Inv, TypeOK
  <2>2. CASE d # c
    <3>1. at'[d] = at[d] /\ patch'[d] = patch[d]
      BY <1>2, <1>3, <2>2 DEF Inv, TypeOK
    <3> QED BY <3>1 DEF Inv, PatchKept
  <2> QED BY <2>1, <2>2
<1>8. input' \in BOOLEAN
  BY <1>2 DEF Inv, TypeOK
<1> HIDE DEF p
<1> QED BY <1>4, <1>5, <1>6, <1>7, <1>8 DEF RestOK, Inv, TypeOK, Cores

LEMMA ContinueTypes ==
    ASSUME Inv, NEW c \in Calls, Continue(c)
    PROVE  RestOK'
<1>1. NoPatch \in Patches
  BY DEF NoPatch, Patches
<1>2. ASSUME NEW r \in Outcomes(c)
      PROVE  /\ r \in Answers
             /\ r.session \in CoreStates /\ r.session # NoState
             /\ \A k \in BOOLEAN, e \in BOOLEAN :
                  [session |-> r.session, kiosk |-> k, exam |-> e] \in Patches
  <2>1. r \in Answers
    BY OutcomeTyped DEF Inv
  <2>2. r.session \in CoreStates /\ r.session # NoState
    BY <2>1 DEF Answers, CoreStates, NoState
  <2> QED BY <2>1, <2>2 DEF Patches
<1> USE DEF Inv, TypeOK, PatchKept, RestOK, Cores, GoesTo, Done, LeavesDesktop, shellVars,
            timerVars, desktopVars, coreVars, Waits, Requests, RestoreRequests
<1>3. ASSUME NEW r \in Outcomes(c), StartRefused(c, r)
      PROVE  RestOK'
  BY <1>1, <1>2, <1>3 DEF StartRefused
<1>4. ASSUME NEW r \in Outcomes(c), DryStarted(c, r)
      PROVE  RestOK'
  BY <1>1, <1>2, <1>4 DEF DryStarted
<1>5. ASSUME NEW r \in Outcomes(c), StartAccepted(c, r)
      PROVE  RestOK'
  BY <1>1, <1>2, <1>5 DEF StartAccepted
<1>6. ASSUME NEW r \in Outcomes(c), StartThrows(c, r)
      PROVE  RestOK'
  BY <1>1, <1>2, <1>6 DEF StartThrows
<1>7. ASSUME NEW r \in Outcomes(c), EnterRefused(c, r)
      PROVE  RestOK'
  BY <1>1, <1>2, <1>7 DEF EnterRefused
<1>8. ASSUME NEW r \in Outcomes(c), RolledBack(c, r)
      PROVE  RestOK'
  BY <1>1, <1>2, <1>8 DEF RolledBack
<1>9. ASSUME NEW r \in Outcomes(c), Abandoned(c, r)
      PROVE  RestOK'
  BY <1>1, <1>2, <1>9 DEF Abandoned
<1>10. ASSUME NEW r \in Outcomes(c), KioskEntered(c, r)
      PROVE  RestOK'
  BY <1>10, EnteredTypes
<1>11. ASSUME NEW r \in Outcomes(c), DemoEntered(c, r)
      PROVE  RestOK'
  BY <1>11, EnteredTypes
<1>12. ASSUME NEW r \in Outcomes(c), HandoffFailed(c, r)
      PROVE  RestOK'
  BY <1>1, <1>2, <1>12 DEF HandoffFailed
<1>13. ASSUME NEW r \in Outcomes(c), ExitAcknowledged(c, r)
      PROVE  RestOK'
  BY <1>1, <1>2, <1>13 DEF ExitAcknowledged
<1>14. ASSUME NEW r \in Outcomes(c), ExitUnacknowledged(c, r)
      PROVE  RestOK'
  BY <1>1, <1>2, <1>14 DEF ForceExitCleanup, ExitUnacknowledged
<1>15. ASSUME NEW r \in Outcomes(c), RestoreAcknowledged(c, r)
      PROVE  RestOK'
  BY <1>1, <1>2, <1>15 DEF RestoreAcknowledged
<1>16. ASSUME NEW r \in Outcomes(c), RestoreFailed(c, r)
      PROVE  RestOK'
  BY <1>1, <1>2, <1>16 DEF RestoreFailed
<1>17. ASSUME NEW r \in Outcomes(c), StatusAnswered(c, r)
      PROVE  RestOK'
  BY <1>1, <1>2, <1>17 DEF StatusAnswered
<1>18. ASSUME NEW r \in Outcomes(c), PollAnswered(c, r)
      PROVE  RestOK'
  BY <1>1, <1>2, <1>18 DEF PollAnswered
<1>19. ASSUME NEW r \in Outcomes(c), HandoffConfirmed(c, r) \/ HandoffGivenUp(c, r)
      PROVE  RestOK'
  <2>1. PICK p : Settles(c, p, r)
    BY <1>19 DEF HandoffConfirmed, HandoffGivenUp
  <2>2. Done(c) /\ UNCHANGED <<shellVars, timerVars, desktopVars, connected, coreVars>>
    BY <2>1 DEF Settles
  <2> QED BY <1>1, <2>2
<1>20. CASE DemoConfirmed(c)
  BY <1>1, <1>20 DEF DemoConfirmed
<1>21. CASE HandoffRetried(c)
  BY <1>1, <1>21 DEF HandoffRetried
<1> QED BY <1>3, <1>4, <1>5, <1>6, <1>7, <1>8, <1>9, <1>10, <1>11, <1>12,
           <1>13, <1>14, <1>15, <1>16, <1>17, <1>18, <1>19, <1>20, <1>21 DEF Continue

LEMMA OtherTypes ==
    ASSUME Inv,
           BeginConfirmation \/ CancelConfirmation \/ DemoPoll \/ Timers \/ Core
    PROVE  RestOK'
<1> USE DEF Inv, TypeOK, PatchKept, RestOK, Cores, LeavesDesktop, shellVars, timerVars,
            desktopVars, coreVars
<1>1. CASE BeginConfirmation
  <2>1. snap.session \in SessionStates
    BY DEF Snapshots
  <2> QED BY <1>1, <2>1 DEF BeginConfirmation
<1>2. CASE CancelConfirmation
  BY <1>2 DEF CancelConfirmation
<1>3. CASE DemoPoll
  BY <1>3 DEF DemoPoll
<1>4. CASE Timers
  <2>1. CASE ExitCleanupDue
    BY <2>1 DEF ExitCleanupDue, ForceExitCleanup
  <2>2. CASE ExitAudioDue
    BY <2>2 DEF ExitAudioDue
  <2>3. CASE Tick \/ TickAnswered \/ TickFails \/ AnswerDropped
    <3>1. UNCHANGED <<at, patch, prior, demo, timerVars, desktopVars, connected, coreVars>>
      BY <2>3 DEF Tick, TickAnswered, TickFails, AnswerDropped
    <3> QED BY <3>1
  <2> QED BY <1>4, <2>1, <2>2, <2>3 DEF Timers
<1>5. CASE CoreDies \/ \E grace \in BOOLEAN : CoreExitSeen(grace)
  <2>1. CASE CoreDies
    BY <2>1 DEF CoreDies, CoreIdle, CoreStates
  <2>2. ASSUME NEW grace \in BOOLEAN, CoreExitSeen(grace)
        PROVE  RestOK'
    <3>1. /\ UNCHANGED <<at, patch, prior, demo, timerVars, coreVars>>
          /\ connected' = FALSE
          /\ UNCHANGED <<window, input>> \/ (window' = FALSE /\ input' = FALSE)
      BY <2>2 DEF CoreExitSeen
    <3> QED BY <3>1
  <2> QED BY <1>5, <2>1, <2>2
<1>6. ASSUME NEW m \in {inbox[i] : i \in DOMAIN inbox \cap {1}}, Serves(m)
      PROVE  RestOK'
  <2>1. PICK after \in Cores, ok \in BOOLEAN : CoreDoes(m, after, ok)
    BY <1>6, CoreRequests
  <2> QED BY <2>1 DEF CoreDoes
<1> QED BY <1>1, <1>2, <1>3, <1>4, <1>5, <1>6 DEF Core, Serves

\* Only the cancel of an exit dialog can have undone anything.
LEMMA RevertedKept ==
    ASSUME Next, ~ CancelConfirmation
    PROVE  UNCHANGED reverted
<1> USE DEF shellVars
<1>1. ASSUME NEW c \in Calls, Call(c) PROVE UNCHANGED reverted
  BY <1>1 DEF Call, StartExam, ExitExam, RestoreDesktop, GetStatus, Poll
<1>2. ASSUME NEW c \in Calls, Continue(c) PROVE UNCHANGED reverted
  <2>1. ASSUME NEW r \in Outcomes(c),
               \/ StartRefused(c, r) \/ DryStarted(c, r) \/ StartAccepted(c, r)
               \/ StartThrows(c, r) \/ EnterRefused(c, r) \/ RolledBack(c, r)
               \/ Abandoned(c, r) \/ KioskEntered(c, r) \/ DemoEntered(c, r)
        PROVE  UNCHANGED reverted
    BY <2>1 DEF StartRefused, DryStarted, StartAccepted, StartThrows, EnterRefused,
                RolledBack, Abandoned, KioskEntered, DemoEntered
  <2>2. ASSUME NEW r \in Outcomes(c),
               \/ HandoffConfirmed(c, r) \/ HandoffFailed(c, r) \/ HandoffGivenUp(c, r)
               \/ ExitAcknowledged(c, r) \/ ExitUnacknowledged(c, r)
               \/ RestoreAcknowledged(c, r) \/ RestoreFailed(c, r)
               \/ StatusAnswered(c, r) \/ PollAnswered(c, r)
        PROVE  UNCHANGED reverted
    BY <2>2 DEF HandoffConfirmed, HandoffFailed, HandoffGivenUp, Settles, ExitAcknowledged,
                ExitUnacknowledged, ForceExitCleanup, RestoreAcknowledged, RestoreFailed,
                StatusAnswered, PollAnswered
  <2> QED BY <1>2, <2>1, <2>2 DEF Continue, DemoConfirmed, HandoffRetried
<1>3. CASE BeginConfirmation \/ DemoPoll
  BY <1>3 DEF BeginConfirmation, DemoPoll
<1>4. CASE Timers
  BY <1>4 DEF Timers, ExitCleanupDue, ForceExitCleanup, ExitAudioDue, Tick, TickAnswered,
              TickFails, AnswerDropped
<1>5. CASE Core
  BY <1>5 DEF Core, CoreStarts, CoreEntersKiosk, CoreConfirms, CoreRestores, CoreReports,
              CoreRefuses, CoreDoes, CoreDies, CoreExitSeen
<1> QED BY <1>1, <1>2, <1>3, <1>4, <1>5 DEF Next

LEMMA RevertedTyped ==
    ASSUME Inv, Next
    PROVE  reverted' \in BOOLEAN
<1>1. reverted \in BOOLEAN
  BY DEF Inv, TypeOK
<1>2. CASE CancelConfirmation
  BY <1>2 DEF CancelConfirmation
<1>3. CASE ~ CancelConfirmation
  BY <1>1, <1>3, RevertedKept
<1> QED BY <1>2, <1>3

-----------------------------------------------------------------------------
(* The invariant and what follows from it. *)

LEMMA InvInit == Init => Inv
<1> SUFFICES ASSUME Init PROVE Inv
  OBVIOUS
<1>1. TypeOK
  <2>1. snap \in Snapshots
    BY DEF Init, Snapshots, SessionStates, CoreStates
  <2>2. at \in [Calls -> Waits \cup {"unused", "done"}] /\ patch \in [Calls -> Patches]
    BY DEF Init, NoPatch, Patches
  <2>3. /\ monitor \in [timer : BOOLEAN, ticking : BOOLEAN]
        /\ core \in [session : CoreStates, active : Calls \cup {NoCall}, kiosk : BOOLEAN]
    BY DEF Init, MonitorOff, CoreIdle, CoreStates
  <2>4. inbox \in Seq(Messages) /\ outbox \in Seq(Answers)
    BY DEF Init
  <2> QED BY <2>1, <2>2, <2>3, <2>4 DEF Init, TypeOK
<1>2. PatchKept /\ ExitingShowsExit /\ MonitorOnlyInExam
  BY DEF Init, PatchKept, ExitingShowsExit, MonitorOnlyInExam, MonitorOff
<1> QED BY <1>1, <1>2 DEF Inv

LEMMA InvNext == Inv /\ [Next]_vars => Inv'
<1> SUFFICES ASSUME Inv, [Next]_vars PROVE Inv'
  OBVIOUS
<1>1. CASE Next
  <2>1. QueuesOK' /\ (MovesOn \/ Exits)
    BY <1>1, Steps
  <2>2. RestOK'
    BY <1>1, CallTypes, ContinueTypes, OtherTypes DEF Next
  <2>8. reverted' \in BOOLEAN
    BY <1>1, RevertedTyped
  <2>3. Consistent(snap')
    BY <2>1 DEF MovesOn, Moves, Exits
  <2>4. TypeOK' /\ PatchKept'
    BY <2>1, <2>2, <2>3, <2>8 DEF TypeOK, QueuesOK, RestOK, Consistent, Cores
  <2>5. ExitingShowsExit'
    BY <2>3 DEF Consistent, ExitingShowsExit
  <2>6. Quiet' \/ ExamOn(snap')
    <3>1. Quiet \/ ExamOn(snap)
      BY DEF Inv, MonitorOnlyInExam, Quiet, NoTick, ExamOn
    <3> QED BY <2>1, <3>1 DEF MovesOn, Moves, Exits, ExamOn
  <2>7. MonitorOnlyInExam'
    BY <2>6 DEF MonitorOnlyInExam, Quiet, NoTick, ExamOn
  <2> QED BY <2>4, <2>5, <2>7 DEF Inv
<1>2. CASE UNCHANGED vars
  BY <1>2 DEF vars, shellVars, timerVars, desktopVars, coreVars, Inv, TypeOK, PatchKept,
              ExitingShowsExit, MonitorOnlyInExam
<1> QED BY <1>1, <1>2

LEMMA Invariance == Spec => []Inv
BY InvInit, InvNext, PTL DEF Spec

(* Every variable of the shell's model keeps its type. *)
THEOREM ShellTypes == Spec => []TypeOK
<1>1. Inv => TypeOK
  BY DEF Inv
<1> QED BY <1>1, Invariance, PTL

(* While exitInProgress holds, no call, tick or poll shows anything but an exit. *)
THEOREM ExitIsShown == Spec => []ExitingShowsExit
<1>1. Inv => ExitingShowsExit
  BY DEF Inv
<1> QED BY <1>1, Invariance, PTL

(* The runtime monitor is on, or one of its ticks still counts, in an exam only. *)
THEOREM MonitorInExam == Spec => []MonitorOnlyInExam
<1>1. Inv => MonitorOnlyInExam
  BY DEF Inv
<1> QED BY <1>1, Invariance, PTL

(* Only an exit takes the shell out of a running exam. *)
THEOREM RunningLocked == Spec => RunningEndsByExit
<1> DEFINE Ends == snap.session = Running /\ snap'.session # Running
                     => snap'.session \in ExitStates \cup {"EXITED"}
<1>1. Inv /\ [Next]_vars => [Ends]_vars
  BY Steps DEF MovesOn, Moves, Exits
<1> QED BY <1>1, Invariance, PTL DEF Spec, RunningEndsByExit

-----------------------------------------------------------------------------
(***************************************************************************)
(* The desktop after an exam.  A start that is past the core's acceptance  *)
(* may take window and input after the exit; when it leaves these states,  *)
(* it has let go of them or the shell no longer shows an exam that exited. *)
(* A confirmation that is cancelled can bring back EXITED over such a      *)
(* start, and then it has changed the session that was shown: `reverted`.  *)
(***************************************************************************)

Holders == {"enter", "notify1", "retry", "notify2", "confirm"}

Released ==
    snap.session = "EXITED" /\ (window \/ input) /\ ~reverted
        => \E b \in Calls : at[b] \in Holders

LEMMA GovernedEnded ==
    ASSUME NEW s, Consistent(s), NEW p, NEW allow
    PROVE  /\ p.session # "EXITED" => Governed(s, p, allow).session # "EXITED"
           /\ p.session = s.session => Governed(s, p, allow).session = s.session
BY DEF Governed, Consistent, ExitStates, Running

LEMMA ReleasedByLeaving == LeavesDesktop => Released'
BY DEF LeavesDesktop, Released

LEMMA ReleasedByHolding ==
    ASSUME NEW c \in Calls, at'[c] \in Holders
    PROVE  Released'
BY DEF Released

(* The desktop is left alone, and no start leaves its states. *)
LEMMA ReleasedByWaiting ==
    ASSUME Released, UNCHANGED <<window, input>>,
           reverted => reverted',
           snap'.session = "EXITED" => snap.session = "EXITED",
           \A b \in Calls : at[b] \in Holders => at'[b] = at[b]
    PROVE  Released'
BY DEF Released

LEMMA ReleasedByCall ==
    ASSUME Inv, Released, NEW c \in Calls, Call(c), reverted' = reverted
    PROVE  Released'
<1>1. ASSUME NEW step, Opens(c, step)
      PROVE  \A b \in Calls : at[b] \in Holders => at'[b] = at[b]
  BY <1>1 DEF Opens, Holders, Inv, TypeOK
<1>2. CASE ExitExam(c)
  <2>1. snap'.session \in ExitStates
    BY <1>2, Snap, ExitSteps DEF ExitExam
  <2> QED BY <2>1 DEF Released, ExitStates
<1>3. ASSUME NEW cmd \in {"start", "dry", "demo"}, StartExam(c, cmd)
      PROVE  Released'
  BY <1>1, <1>3, ReleasedByWaiting DEF StartExam, desktopVars
<1>4. CASE RestoreDesktop(c)
  BY <1>1, <1>4, ReleasedByWaiting DEF RestoreDesktop, desktopVars
<1>5. CASE GetStatus(c)
  BY <1>1, <1>5, ReleasedByWaiting DEF GetStatus, desktopVars
<1>6. CASE Poll(c)
  BY <1>1, <1>6, ReleasedByWaiting DEF Poll, desktopVars
<1> QED BY <1>2, <1>3, <1>4, <1>5, <1>6 DEF Call

LEMMA ReleasedByContinue ==
    ASSUME Inv, Released, NEW c \in Calls, Continue(c), reverted' = reverted
    PROVE  Released'
<1>1. Consistent(snap) /\ at \in [Calls -> Waits \cup {"unused", "done"}]
  BY Snap DEF Inv, TypeOK
<1>2. ASSUME GoesTo(c, "done") \/ Done(c), at[c] \notin Holders
      PROVE  \A b \in Calls : at[b] \in Holders => at'[b] = at[b]
  BY <1>1, <1>2 DEF GoesTo, Done
<1>3. snap'.session # "EXITED" => Released'
  BY DEF Released
<1>4. ASSUME NEW step \in Holders, GoesTo(c, step)
      PROVE  Released'
  BY <1>1, <1>4, ReleasedByHolding DEF GoesTo
<1>5. ASSUME NEW r \in Outcomes(c),
             \/ StartThrows(c, r) \/ EnterRefused(c, r)
             \/ ExitAcknowledged(c, r) \/ RestoreAcknowledged(c, r)
      PROVE  Released'
  BY <1>5, ReleasedByLeaving
     DEF StartThrows, EnterRefused, ExitAcknowledged, RestoreAcknowledged
<1>6. ASSUME NEW r \in Outcomes(c),
             \/ StartAccepted(c, r) \/ KioskEntered(c, r) \/ DemoEntered(c, r)
             \/ HandoffFailed(c, r) \/ HandoffRetried(c)
      PROVE  Released'
  BY <1>4, <1>6
     DEF StartAccepted, KioskEntered, DemoEntered, HandoffFailed, HandoffRetried, Holders
<1>7. ASSUME NEW r \in Outcomes(c),
             StartRefused(c, r) \/ Abandoned(c, r) \/ RestoreFailed(c, r)
      PROVE  Released'
  <2>1. Done(c) /\ at[c] \notin Holders /\ UNCHANGED <<snap, window, input>>
    BY <1>7 DEF StartRefused, Abandoned, RestoreFailed, Holders, desktopVars
  <2> QED BY <1>2, <2>1, ReleasedByWaiting
<1>8. ASSUME NEW r \in Outcomes(c), ExitUnacknowledged(c, r)
      PROVE  Released'
  <2>1. CASE snap.exiting
    BY <1>8, <2>1, ReleasedByLeaving DEF ExitUnacknowledged, ForceExitCleanup
  <2>2. CASE ~snap.exiting
    <3>1. Done(c) /\ at[c] \notin Holders /\ UNCHANGED <<snap, window, input>>
      BY <1>8, <2>2 DEF ExitUnacknowledged, Holders, desktopVars
    <3> QED BY <1>2, <3>1, ReleasedByWaiting
  <2> QED BY <2>1, <2>2
<1>9. ASSUME NEW r \in Outcomes(c)
      PROVE  /\ r \in Answers
             /\ Reported(snap, r).session # "EXITED"
             /\ [Reported(snap, r) EXCEPT !.kiosk = window].session # "EXITED"
  <2>1. r \in Answers
    BY OutcomeTyped DEF Inv
  <2>2. Reported(snap, r) \in Snapshots /\ Reported(snap, r).session = r.session
    BY <1>1, <2>1, PatchedTyped DEF Reported, Patched, Consistent, Snapshots
  <2> QED BY <2>1, <2>2 DEF Answers, CoreStates, Snapshots
<1>10. ASSUME NEW r \in Outcomes(c), StatusAnswered(c, r) \/ PollAnswered(c, r)
       PROVE  Released'
  <2>1. CASE r.ok
    <3>1. \/ snap' = Governed(snap, Reported(snap, r), {})
          \/ snap' = Governed(snap, [Reported(snap, r) EXCEPT !.kiosk = window], {})
      BY <1>10, <2>1 DEF StatusAnswered, PollAnswered
    <3>2. /\ Governed(snap, Reported(snap, r), {}).session # "EXITED"
          /\ Governed(snap, [Reported(snap, r) EXCEPT !.kiosk = window], {}).session # "EXITED"
      BY <1>1, <1>9, GovernedEnded
    <3> QED BY <1>3, <3>1, <3>2
  <2>2. CASE ~r.ok
    <3>1. Done(c) /\ at[c] \notin Holders /\ UNCHANGED <<snap, window, input>>
      BY <1>10, <2>2 DEF StatusAnswered, PollAnswered, Holders, desktopVars
    <3> QED BY <1>2, <3>1, ReleasedByWaiting
  <2> QED BY <2>1, <2>2
<1>11. ASSUME NEW s, Consistent(s), NEW p \in Patches,
              p.session \notin {NoState, "EXITED"}, NEW b \in BOOLEAN, NEW allow
       PROVE  /\ Governed(s, WithAudio(Patched(s, p), b), allow).session # "EXITED"
              /\ Governed(s, WithAudio(Unprotected(Patched(s, p)), b), allow).session # "EXITED"
  <2>1. /\ WithAudio(Patched(s, p), b).session # "EXITED"
        /\ WithAudio(Unprotected(Patched(s, p)), b).session # "EXITED"
    BY <1>11 DEF WithAudio, Patched, Unprotected, Consistent, Snapshots
  <2> QED BY <1>11, <2>1, GovernedEnded
<1>12. ASSUME NEW p \in Patches
       PROVE  p.session # "EXITED"
  BY <1>12 DEF Patches, CoreStates, NoState
<1>13. ASSUME NEW r \in Outcomes(c), DryStarted(c, r)
       PROVE  Released'
  <2>1. Consistent(Accepted)
    BY AcceptedMoves DEF Moves
  <2>2. WithAudio(Reported(Accepted, r), TRUE).session # "EXITED"
    BY <1>9, <2>1 DEF WithAudio, Reported, Patched, Consistent, Snapshots, Answers, CoreStates
  <2>3. snap'.session # "EXITED"
    BY <1>13, <2>1, <2>2, GovernedEnded DEF DryStarted
  <2> QED BY <1>3, <2>3
<1>14. ASSUME NEW r \in Outcomes(c), RolledBack(c, r)
       PROVE  Released'
  <2>1. patch[c] \in Patches /\ patch[c].session # NoState
    BY <1>14 DEF RolledBack, Inv, TypeOK, PatchKept
  <2> QED BY <1>1, <1>3, <1>11, <1>12, <1>14, <2>1 DEF RolledBack
<1>15. CASE DemoConfirmed(c)
  <2>1. DemoPatch \in Patches /\ DemoPatch.session # NoState
    BY DEF DemoPatch, Patches, CoreStates, Running, NoState
  <2> QED BY <1>1, <1>3, <1>11, <1>12, <1>15, <2>1 DEF DemoConfirmed
<1>16. ASSUME NEW r, NEW p \in Patches, p.session # NoState, Settles(c, p, r)
       PROVE  Released'
  <2> DEFINE settled == Governed(snap, WithAudio(Patched(snap, p), TRUE), {})
  <2>1. Consistent(settled)
    BY <1>1, <1>16, PatchMoves DEF Moves
  <2>2. snap' = Governed(settled, WithAudio(Patched(settled, p), TRUE), {"audio"})
    BY <1>16 DEF Settles
  <2> HIDE DEF settled
  <2> QED BY <1>3, <1>11, <1>12, <1>16, <2>1, <2>2
<1>17. ASSUME NEW r \in Outcomes(c), HandoffConfirmed(c, r)
       PROVE  Released'
  <2>1. [session |-> r.session, kiosk |-> r.kiosk, exam |-> r.kiosk] \in Patches
    BY <1>9 DEF Answers, Patches
  <2>2. r.session # NoState
    BY <1>9 DEF Answers, CoreStates, NoState
  <2> QED BY <1>16, <1>17, <2>1, <2>2 DEF HandoffConfirmed
<1>18. ASSUME NEW r \in Outcomes(c), HandoffGivenUp(c, r)
       PROVE  Released'
  <2>1. patch[c] \in Patches /\ patch[c].session # NoState
    BY <1>18 DEF HandoffGivenUp, Inv, TypeOK, PatchKept
  <2> QED BY <1>16, <1>18, <2>1 DEF HandoffGivenUp
<1>19. NoAnswer \in Outcomes(c)
  BY DEF Outcomes
<1> QED BY <1>5, <1>6, <1>7, <1>8, <1>10, <1>13, <1>14, <1>15, <1>17, <1>18, <1>19 DEF Continue

LEMMA ReleasedByOthers ==
    ASSUME Inv, Released, DemoPoll \/ Timers \/ Core, reverted' = reverted
    PROVE  Released'
<1>1. Consistent(snap)
  BY Snap
<1>2. CASE UNCHANGED <<at, window, input>> /\ snap'.session = snap.session
  BY <1>2, ReleasedByWaiting
<1>3. CASE DemoPoll
  <2>1. WithAudio(Patched(snap, DemoPatch), TRUE).session # "EXITED"
    BY <1>1 DEF WithAudio, Patched, DemoPatch, Consistent, Snapshots, Running
  <2>2. snap'.session # "EXITED"
    BY <1>1, <1>3, <2>1, GovernedEnded DEF DemoPoll
  <2> QED BY <2>2 DEF Released
<1>4. CASE ExitCleanupDue
  BY <1>2, <1>4, ReleasedByLeaving DEF ExitCleanupDue, ForceExitCleanup, desktopVars
<1>5. CASE ExitAudioDue
  <2>1. WithAudio(snap, FALSE).session = snap.session
    BY <1>1 DEF WithAudio, Consistent, Snapshots
  <2> QED BY <1>1, <1>2, <1>5, <2>1, GovernedEnded DEF ExitAudioDue, desktopVars
<1>6. CASE Tick \/ TickFails \/ AnswerDropped \/ CoreDies
  BY <1>2, <1>6 DEF Tick, TickFails, AnswerDropped, CoreDies, desktopVars
<1>7. CASE TickAnswered
  <2>1. Head(outbox) \in Answers
    BY <1>7 DEF TickAnswered, Inv, TypeOK
  <2>2. Reported(snap, Head(outbox)).session # "EXITED"
    BY <1>1, <2>1 DEF Reported, Patched, Consistent, Snapshots, Answers, CoreStates
  <2>3. snap'.session # "EXITED" \/ snap' = snap
    BY <1>1, <1>7, <2>2, GovernedEnded DEF TickAnswered
  <2>4. UNCHANGED <<at, window, input>>
    BY <1>7 DEF TickAnswered, desktopVars
  <2> QED BY <1>2, <2>3, <2>4 DEF Released
<1>8. ASSUME NEW grace \in BOOLEAN, CoreExitSeen(grace)
      PROVE  Released'
  <2>1. LeavesDesktop \/ UNCHANGED <<snap, window, input>>
    BY <1>8 DEF CoreExitSeen, desktopVars
  <2>2. at' = at
    BY <1>8 DEF CoreExitSeen
  <2> QED BY <1>2, <2>1, <2>2, ReleasedByLeaving
<1>9. ASSUME NEW m \in {inbox[i] : i \in DOMAIN inbox \cap {1}}, Serves(m)
      PROVE  Released'
  <2>1. PICK after \in Cores, ok \in BOOLEAN : CoreDoes(m, after, ok)
    BY <1>9, CoreRequests
  <2> QED BY <1>2, <2>1 DEF CoreDoes, desktopVars
<1> QED BY <1>3, <1>4, <1>5, <1>6, <1>7, <1>8, <1>9 DEF Timers, Core, Serves

(* Either dialog step keeps it: a cancelled one that has not reverted anything *)
(* shows the session it found.                                                 *)
LEMMA ReleasedByConfirmation ==
    ASSUME Inv, Released, BeginConfirmation \/ CancelConfirmation
    PROVE  Released'
<1>1. CASE BeginConfirmation
  BY <1>1 DEF BeginConfirmation, desktopVars, Released
<1>2. CASE CancelConfirmation
  <2> DEFINE previous == IF prior = NoState THEN snap.session ELSE prior
             p == [snap EXCEPT !.session = previous, !.exiting = FALSE]
  <2>1. snap' = Governed(snap, p, {"exit"}) /\ UNCHANGED <<at, window, input>>
    BY <1>2 DEF CancelConfirmation, desktopVars
  <2>2. reverted' = (reverted \/ (prior # NoState /\ prior # snap.session))
    BY <1>2 DEF CancelConfirmation
  <2>3. CASE reverted'
    BY <2>3 DEF Released
  <2>4. CASE ~reverted'
    <3>1. previous = snap.session /\ ~reverted
      BY <2>2, <2>4, Zenon
    <3>2. p.session = snap.session
      BY <3>1, Snap DEF Consistent, Snapshots
    <3>3. Governed(snap, p, {"exit"}).session = snap.session
      <4> HIDE DEF p
      <4> QED BY <3>2, Snap, GovernedEnded
    <3> QED BY <2>1, <3>1, <3>3 DEF Released
  <2> QED BY <2>3, <2>4
<1> QED BY <1>1, <1>2

(***************************************************************************)
(* A shell that shows an exam as exited and has no call left has let go of *)
(* the window and the input guards: forceExitCleanup and the acknowledged  *)
(* exit do so, and a start that is overtaken by them on its own way out.   *)
(***************************************************************************)
THEOREM ExamReleases == Spec => []EndedReleased
<1>1. Init => Released
  BY DEF Init, Released
<1>2. Inv /\ Released /\ [Next]_vars => Released'
  <2> SUFFICES ASSUME Inv, Released, [Next]_vars PROVE Released'
    OBVIOUS
  <2>1. CASE Next
    <3>1. CASE BeginConfirmation \/ CancelConfirmation
      BY <3>1, ReleasedByConfirmation
    <3>2. CASE ~(BeginConfirmation \/ CancelConfirmation)
      <4>1. reverted' = reverted
        BY <2>1, <3>2, RevertedKept
      <4> QED BY <2>1, <3>2, <4>1, ReleasedByCall, ReleasedByContinue, ReleasedByOthers DEF Next
    <3> QED BY <3>1, <3>2
  <2>2. CASE UNCHANGED vars
    BY <2>2 DEF vars, shellVars, desktopVars, Released
  <2> QED BY <2>1, <2>2
<1>3. Released => EndedReleased
  BY DEF Released, EndedReleased, Holders
<1> QED BY <1>1, <1>2, <1>3, Invariance, PTL DEF Spec

-----------------------------------------------------------------------------
(***************************************************************************)
(* The kiosk.  KioskKnown speaks of a shell and a core with nothing left   *)
(* to exchange; the invariant behind it says where the trace of a kiosk is *)
(* before that: a restore is on its way to the core, or the start that     *)
(* asked for the kiosk still waits for the answer, or everything that the  *)
(* shell has yet to read comes from a core in its kiosk, so that no answer *)
(* can take the sign of it away.  For that the requests must be known to   *)
(* be sent once and answered in order.                                     *)
(***************************************************************************)

(* A snapshot that shows a kiosk: what KioskKnown asks for. *)
Shows(s) ==
    \/ s.session \in {"ENTERING_KIOSK", Running} \cup ExitStates
    \/ s.kiosk
    \/ s.exam

In(q, c, tag) == \E i \in DOMAIN q : q[i].call = c /\ q[i].tag = tag
RestoreIn(q) == \E i \in DOMAIN q : q[i].tag \in RestoreRequests

(* An answer given by a core in its kiosk. *)
FromKiosk(r) == r.kiosk /\ r.session \in {"ENTERING_KIOSK", Running}
OnlyFromKiosk == \A i \in DOMAIN outbox : FromKiosk(outbox[i])

CoreShape ==
    /\ core.kiosk => core.active \in Calls /\ core.session \in {"ENTERING_KIOSK", Running}
    /\ ~alive => core = CoreIdle
    /\ ~connected => ~alive /\ inbox = <<>>
    /\ \A i \in DOMAIN inbox : inbox[i].tag \in Requests => inbox[i].call \in Calls

(* The cleanup timer of an exit is set while the exit waits, and no longer. *)
CleanupWaits == cleanupTimer => snap.exiting /\ \E c \in Calls : at[c] = "exit"

(* A restore that is waited for is on its way to the core, or its answer is here. *)
RestoreAsked ==
    connected =>
        \A c \in Calls : at[c] \in RestoreRequests =>
            In(inbox, c, at[c]) \/ In(outbox, c, at[c])

(* A call starts the exam once, and enters the kiosk once, in this order; a dry run does neither. *)
SentOnce ==
    \A c \in Calls :
        /\ \A tag \in {"start", "enter"} :
             /\ In(inbox, c, tag) => ~In(outbox, c, tag)
             /\ at[c] = "unused" => ~In(inbox, c, tag) /\ ~In(outbox, c, tag)
             /\ \A i, j \in DOMAIN inbox :
                  /\ inbox[i].call = c /\ inbox[i].tag = tag
                  /\ inbox[j].call = c /\ inbox[j].tag = tag
                  => i = j
        /\ at[c] = "start" => ~In(inbox, c, "enter") /\ ~In(outbox, c, "enter")
        /\ In(inbox, c, "start") => ~In(inbox, c, "enter")
        /\ at[c] \in {"unused", "start"} => ~In(inbox, c, "dry")
        /\ In(inbox, c, "dry") =>
             \A tag \in {"start", "enter"} : ~In(inbox, c, tag) /\ ~In(outbox, c, tag)

(* A start that no longer waits for the kiosk it asked for has it restored. *)
EnterFollowed ==
    \A i \in DOMAIN inbox :
        inbox[i].tag = "enter" /\ inbox[i].call \in Calls =>
            \/ at[inbox[i].call] = "enter"
            \/ \E j \in DOMAIN inbox : j > i /\ inbox[j].tag \in RestoreRequests

(* What the core answers after it entered the kiosk says so. *)
AnsweredSince ==
    core.kiosk =>
        \A i, j \in DOMAIN outbox :
            i < j /\ outbox[i].call = core.active /\ outbox[i].tag = "enter"
                => FromKiosk(outbox[j])

(***************************************************************************)
(* While the answer to a restore that was done is unread, the core has no  *)
(* kiosk and is not about to have one: a start it accepted since then      *)
(* waits behind that answer.                                               *)
(***************************************************************************)
RestoredFirst ==
    ~refused =>
        /\ RestoreIn(outbox) =>
             ~core.kiosk /\ (core.active \in Calls => ~In(inbox, core.active, "enter"))
        /\ \A i, j \in DOMAIN outbox :
             /\ i < j
             /\ outbox[i].call = core.active /\ core.active \in Calls
             /\ outbox[i].tag = "start"
             => outbox[j].tag \notin RestoreRequests

AnswersRight ==
    \A i \in DOMAIN outbox :
        outbox[i].ok /\ outbox[i].tag \in {"dry", "notify1", "notify2"}
            => outbox[i].session = Running

Notifying == {"notify1", "retry", "notify2"}

PatchShows == \A c \in Calls : at[c] \in Notifying => patch[c].exam

KioskTraced ==
    core.kiosk /\ ~refused =>
        \/ RestoreIn(inbox)
        \/ at[core.active] = "enter"
        \/ /\ OnlyFromKiosk
           /\ at[core.active] \in Notifying \/ reverted \/ Shows(snap)

KInv ==
    /\ CoreShape
    /\ CleanupWaits
    /\ RestoreAsked
    /\ SentOnce
    /\ EnterFollowed
    /\ AnsweredSince
    /\ RestoredFirst
    /\ AnswersRight
    /\ PatchShows
    /\ KioskTraced

-----------------------------------------------------------------------------
(* What a step of the shell does to the queues. *)

(* A tick may become one of an old generation, which nothing else becomes. *)
AlikeTags(tag, tag1) == tag1 = tag \/ (tag = "tick" /\ tag1 = "old tick")

(* At most one message, of the set ms, has been sent. *)
Extends(q, q1, ms) ==
    /\ Len(q1) \in {Len(q), Len(q) + 1}
    /\ \A i \in 1 .. Len(q) : q1[i].call = q[i].call /\ AlikeTags(q[i].tag, q1[i].tag)
    /\ Len(q1) = Len(q) + 1 => q1[Len(q) + 1] \in ms

(* The first k answers have been read, 0 or 1. *)
Reads(q, q1, k) ==
    /\ k \in {0, 1}
    /\ k <= Len(q)
    /\ Len(q1) = Len(q) - k
    /\ \A i \in 1 .. Len(q1) :
         /\ q1[i].call = q[i + k].call /\ AlikeTags(q[i + k].tag, q1[i].tag)
         /\ q1[i].ok = q[i + k].ok
         /\ q1[i].session = q[i + k].session /\ q1[i].kiosk = q[i + k].kiosk

TickMessage == [call |-> NoCall, tag |-> "tick"]
Request(c, tag) == [call |-> c, tag |-> tag]
Grew == Len(inbox') = Len(inbox) + 1

QueuesTyped ==
    /\ inbox \in Seq(Messages) /\ outbox \in Seq(Answers)
    /\ inbox' \in Seq(Messages) /\ outbox' \in Seq(Answers)

LEMMA NextQueues == Inv /\ Next => QueuesTyped
BY Steps DEF Inv, TypeOK, QueuesOK, QueuesTyped

LEMMA OutdatedAlike ==
    ASSUME NEW S, NEW q \in Seq(S)
    PROVE  /\ Len(Outdated(q)) = Len(q)
           /\ DOMAIN Outdated(q) = 1 .. Len(q)
           /\ \A i \in 1 .. Len(q) :
                Outdated(q)[i] = IF q[i].tag = "tick" THEN [q[i] EXCEPT !.tag = "old tick"]
                                                      ELSE q[i]
<1>1. DOMAIN q = 1 .. Len(q) /\ Len(q) \in Nat
  OBVIOUS
<1>2. DOMAIN Outdated(q) = 1 .. Len(q)
  BY <1>1 DEF Outdated
<1>3. Outdated(q) \in [1 .. Len(q) -> {Outdated(q)[i] : i \in 1 .. Len(q)}]
  BY <1>1 DEF Outdated
<1>4. Outdated(q) \in Seq({Outdated(q)[i] : i \in 1 .. Len(q)})
  BY <1>1, <1>3
<1>5. Len(Outdated(q)) = Len(q)
  BY <1>1, <1>2, <1>4
<1> QED BY <1>1, <1>2, <1>5 DEF Outdated

LEMMA OldTick ==
    /\ \A m \in Messages : LET n == [m EXCEPT !.tag = "old tick"] IN
         n.call = m.call /\ n.tag = "old tick"
    /\ \A m \in Answers : LET n == [m EXCEPT !.tag = "old tick"] IN
         /\ n.call = m.call /\ n.tag = "old tick"
         /\ n.ok = m.ok /\ n.session = m.session /\ n.kiosk = m.kiosk
BY DEF Messages, Answers

LEMMA OutdatedExtends ==
    ASSUME NEW q \in Seq(Messages), NEW q1 \in Seq(Messages), NEW ms, Extends(q, q1, ms),
           \A m \in ms : m.tag # "tick"
    PROVE  Extends(q, Outdated(q1), ms)
<1>1. /\ Len(Outdated(q1)) = Len(q1)
      /\ \A i \in 1 .. Len(q1) :
           Outdated(q1)[i] = IF q1[i].tag = "tick" THEN [q1[i] EXCEPT !.tag = "old tick"]
                                                   ELSE q1[i]
  BY OutdatedAlike
<1>2. Len(q) \in Nat /\ Len(q1) \in Nat /\ Len(q) <= Len(q1)
  BY DEF Extends
<1>3. \A i \in 1 .. Len(q1) : q1[i] \in Messages
  OBVIOUS
<1>4. ASSUME NEW i \in 1 .. Len(q1)
      PROVE  /\ Outdated(q1)[i].call = q1[i].call
             /\ AlikeTags(q1[i].tag, Outdated(q1)[i].tag)
             /\ q1[i].tag # "tick" => Outdated(q1)[i] = q1[i]
  <2>1. CASE q1[i].tag = "tick"
    <3>1. Outdated(q1)[i] = [q1[i] EXCEPT !.tag = "old tick"]
      BY <1>1, <2>1
    <3>4. Outdated(q1)[i].call = q1[i].call /\ Outdated(q1)[i].tag = "old tick"
      BY <1>3, <3>1, OldTick
    <3> QED BY <2>1, <3>4 DEF AlikeTags
  <2>2. CASE q1[i].tag # "tick"
    <3>1. Outdated(q1)[i] = q1[i]
      BY <1>1, <2>2
    <3> QED BY <3>1 DEF AlikeTags
  <2> QED BY <2>1, <2>2
<1>5. \A i \in 1 .. Len(q) : i \in 1 .. Len(q1)
  BY <1>2
<1>6. Len(q1) = Len(q) + 1 => Len(q) + 1 \in 1 .. Len(q1)
  BY <1>2
<1> QED BY <1>1, <1>4, <1>5, <1>6 DEF Extends, AlikeTags

LEMMA OutdatedReads ==
    ASSUME NEW q \in Seq(Answers), NEW q1 \in Seq(Answers), NEW k, Reads(q, q1, k)
    PROVE  Reads(q, Outdated(q1), k)
<1>1. /\ Len(Outdated(q1)) = Len(q1)
      /\ \A i \in 1 .. Len(q1) :
           Outdated(q1)[i] = IF q1[i].tag = "tick" THEN [q1[i] EXCEPT !.tag = "old tick"]
                                                   ELSE q1[i]
  BY OutdatedAlike
<1>2. \A i \in 1 .. Len(q1) : q1[i] \in Answers
  OBVIOUS
<1>3. ASSUME NEW i \in 1 .. Len(q1)
      PROVE  /\ Outdated(q1)[i].call = q1[i].call
             /\ AlikeTags(q1[i].tag, Outdated(q1)[i].tag)
             /\ Outdated(q1)[i].ok = q1[i].ok
             /\ Outdated(q1)[i].session = q1[i].session
             /\ Outdated(q1)[i].kiosk = q1[i].kiosk
  <2>1. CASE q1[i].tag = "tick"
    <3>1. Outdated(q1)[i] = [q1[i] EXCEPT !.tag = "old tick"]
      BY <1>1, <2>1
    <3>2. /\ Outdated(q1)[i].call = q1[i].call /\ Outdated(q1)[i].tag = "old tick"
          /\ Outdated(q1)[i].ok = q1[i].ok
          /\ Outdated(q1)[i].session = q1[i].session
          /\ Outdated(q1)[i].kiosk = q1[i].kiosk
      BY <1>2, <3>1, OldTick
    <3> QED BY <2>1, <3>2 DEF AlikeTags
  <2>2. CASE q1[i].tag # "tick"
    <3>1. Outdated(q1)[i] = q1[i]
      BY <1>1, <2>2
    <3> QED BY <3>1 DEF AlikeTags
  <2> QED BY <2>1, <2>2
<1>5. ASSUME NEW i \in 1 .. Len(q1)
      PROVE  AlikeTags(q[i + k].tag, Outdated(q1)[i].tag)
  <2>1. AlikeTags(q[i + k].tag, q1[i].tag) /\ AlikeTags(q1[i].tag, Outdated(q1)[i].tag)
    BY <1>3 DEF Reads
  <2> QED BY <2>1 DEF AlikeTags
<1>6. ASSUME NEW i \in 1 .. Len(q1)
      PROVE  /\ Outdated(q1)[i].call = q[i + k].call
             /\ Outdated(q1)[i].ok = q[i + k].ok
             /\ Outdated(q1)[i].session = q[i + k].session
             /\ Outdated(q1)[i].kiosk = q[i + k].kiosk
  BY <1>3 DEF Reads
<1> QED BY <1>1, <1>5, <1>6 DEF Reads

LEMMA SentExtends ==
    ASSUME NEW q \in Seq(Messages), NEW m \in Messages
    PROVE  /\ Extends(q, q, {m})
           /\ Extends(q, Append(q, m), {m}) /\ Len(Append(q, m)) = Len(q) + 1
           /\ Append(q, m) \in Seq(Messages)
<1>1. /\ Len(q) \in Nat
      /\ Len(Append(q, m)) = Len(q) + 1 /\ Append(q, m)[Len(q) + 1] = m
      /\ \A i \in 1 .. Len(q) : Append(q, m)[i] = q[i]
  OBVIOUS
<1>2. Append(q, m) \in Seq(Messages)
  OBVIOUS
<1>3. Extends(q, q, {m})
  BY <1>1 DEF Extends, AlikeTags
<1>4. Extends(q, Append(q, m), {m})
  BY <1>1 DEF Extends, AlikeTags
<1> QED BY <1>1, <1>2, <1>3, <1>4

LEMMA NothingRead ==
    ASSUME NEW q \in Seq(Answers)
    PROVE  Reads(q, q, 0)
<1>1. Len(q) \in Nat /\ 0 <= Len(q) /\ Len(q) = Len(q) - 0
  OBVIOUS
<1>2. ASSUME NEW i \in 1 .. Len(q)
      PROVE  q[i + 0] = q[i]
  <2>1. i + 0 = i
    BY <1>2
  <2> QED BY <2>1
<1> QED BY <1>1, <1>2 DEF Reads, AlikeTags

LEMMA TailReads ==
    ASSUME NEW q \in Seq(Answers), q # <<>>
    PROVE  Reads(q, Tail(q), 1)
<1>1. /\ Len(q) \in Nat /\ Len(q) >= 1 /\ Len(Tail(q)) = Len(q) - 1
      /\ \A i \in 1 .. Len(Tail(q)) : Tail(q)[i] = q[i + 1]
  OBVIOUS
<1> QED BY <1>1 DEF Reads, AlikeTags

(* What is left of the answers once a call has its own. *)
LEMMA UnreadReads ==
    ASSUME TypeOK, NEW c \in Calls, NEW r \in Outcomes(c)
    PROVE  /\ r.ok => r # NoAnswer
           /\ r = NoAnswer => Reads(outbox, Unread(r), 0)
           /\ r # NoAnswer => /\ Reads(outbox, Unread(r), 1)
                              /\ r = outbox[1] /\ r.call = c /\ r.tag = at[c]
           /\ Unread(r) \in Seq(Answers)
<1>1. outbox \in Seq(Answers) /\ Unread(r) \in Seq(Answers)
  BY OutcomeTyped DEF TypeOK
<1>2. r.ok => r # NoAnswer
  BY DEF NoAnswer
<1>3. r = NoAnswer => Reads(outbox, Unread(r), 0)
  BY <1>1, NothingRead DEF Unread
<1>4. ASSUME r # NoAnswer
      PROVE  /\ Reads(outbox, Unread(r), 1)
             /\ r = outbox[1] /\ r.call = c /\ r.tag = at[c]
  <2>1. 1 \in DOMAIN outbox /\ r = outbox[1] /\ r.call = c /\ r.tag = at[c]
    BY <1>4 DEF Outcomes
  <2>2. outbox # <<>> /\ Unread(r) = Tail(outbox)
    BY <1>1, <1>4, <2>1 DEF Unread
  <2>3. Reads(outbox, Tail(outbox), 1)
    BY <1>1, <2>2, TailReads
  <2> QED BY <2>1, <2>2, <2>3
<1> QED BY <1>1, <1>2, <1>3, <1>4

-----------------------------------------------------------------------------
(* The steps of the shell, as the requests and answers see them. *)

SentNow(c, tag) == Grew /\ inbox'[Len(inbox) + 1] = Request(c, tag)
Read(c, tag, k) == k = 1 /\ outbox[1].call = c /\ outbox[1].tag = tag

(* A call that goes on sends what it then waits for.  It goes on to enter the *)
(* kiosk with the answer to its start only, and from there with the answer or *)
(* with a restore.                                                            *)
Turns(c, k) ==
    \/ /\ at'[c] = at[c]
       /\ \A tag \in Requests : ~SentNow(c, tag)
       /\ ~Read(c, at[c], k)
    \/ /\ at'[c] # at[c] /\ at'[c] # "unused"
       /\ at'[c] \in {"start", "dry"} => at[c] = "unused"
       /\ at'[c] = "enter" => at[c] = "start" /\ Read(c, "start", k)
       /\ at[c] = "enter" => Read(c, "enter", k) \/ at'[c] \in RestoreRequests
       /\ \A tag \in Requests : SentNow(c, tag) => tag = at'[c]
       /\ connected /\ at'[c] \in Requests => SentNow(c, at'[c])

ShellTurn(k) ==
    /\ UNCHANGED <<connected, alive, core, refused>>
    /\ Reads(outbox, outbox', k)
    /\ Extends(inbox, inbox', [call : Calls, tag : Requests] \cup {TickMessage})
    /\ ~connected => ~Grew
    /\ \A c \in Calls : Turns(c, k)

LEMMA TagsKept ==
    ASSUME NEW tag, NEW tag1, AlikeTags(tag, tag1)
    PROVE  \A t \in Requests : tag1 = t <=> tag = t
BY DEF AlikeTags, Requests, RestoreRequests

LEMMA UpTo == \A n \in Nat : \A i \in 1 .. n : i \in Nat /\ i < n + 1
OBVIOUS

(* Old requests keep their place; a new one is the last. *)
LEMMA Places ==
    ASSUME QueuesTyped, NEW k, ShellTurn(k)
    PROVE  /\ Len(inbox) \in Nat /\ Len(inbox') \in {Len(inbox), Len(inbox) + 1}
           /\ DOMAIN inbox = 1 .. Len(inbox) /\ DOMAIN inbox' = 1 .. Len(inbox')
           /\ \A i \in DOMAIN inbox :
                /\ i \in DOMAIN inbox' /\ i < Len(inbox) + 1
                /\ inbox'[i].call = inbox[i].call
                /\ \A t \in Requests : inbox'[i].tag = t <=> inbox[i].tag = t
           /\ \A i \in DOMAIN inbox' : i \in DOMAIN inbox \/ (Grew /\ i = Len(inbox) + 1)
           /\ Grew => Len(inbox) + 1 \in DOMAIN inbox'
<1>1. Len(inbox) \in Nat /\ Len(inbox') \in {Len(inbox), Len(inbox) + 1}
  BY DEF QueuesTyped, ShellTurn, Extends
<1>2. DOMAIN inbox = 1 .. Len(inbox) /\ DOMAIN inbox' = 1 .. Len(inbox')
  BY DEF QueuesTyped
<1>3. ASSUME NEW i \in DOMAIN inbox
      PROVE  /\ i \in DOMAIN inbox' /\ i < Len(inbox) + 1
             /\ inbox'[i].call = inbox[i].call
             /\ \A t \in Requests : inbox'[i].tag = t <=> inbox[i].tag = t
  <2>1. inbox'[i].call = inbox[i].call /\ AlikeTags(inbox[i].tag, inbox'[i].tag)
    BY <1>2 DEF ShellTurn, Extends
  <2>2. \A t \in Requests : inbox'[i].tag = t <=> inbox[i].tag = t
    BY <2>1, TagsKept
  <2>3. i \in 1 .. Len(inbox) /\ i < Len(inbox) + 1
    BY <1>1, <1>2, UpTo
  <2>4. i \in 1 .. Len(inbox')
    BY <1>1, <2>3
  <2> QED BY <1>2, <2>1, <2>2, <2>3, <2>4
<1>4. ASSUME NEW i \in DOMAIN inbox'
      PROVE  i \in DOMAIN inbox \/ (Grew /\ i = Len(inbox) + 1)
  <2>1. CASE Len(inbox') = Len(inbox)
    BY <1>2, <2>1
  <2>2. CASE Len(inbox') = Len(inbox) + 1
    <3>1. i \in 1 .. (Len(inbox) + 1)
      BY <1>2, <2>2
    <3>2. i \in 1 .. Len(inbox) \/ i = Len(inbox) + 1
      BY <1>1, <3>1
    <3> QED BY <1>2, <2>2, <3>2 DEF Grew
  <2> QED BY <1>1, <2>1, <2>2
<1>5. Grew => Len(inbox) + 1 \in DOMAIN inbox'
  BY <1>1, <1>2 DEF Grew
<1> QED BY <1>1, <1>2, <1>3, <1>4, <1>5

(* Answers move up by the one read. *)
LEMMA AnswerPlaces ==
    ASSUME QueuesTyped, NEW k, ShellTurn(k)
    PROVE  /\ k \in {0, 1} /\ Len(outbox) \in Nat
           /\ \A i \in DOMAIN outbox' :
                /\ i \in Nat /\ i >= 1
                /\ i + k \in DOMAIN outbox
                /\ outbox'[i].call = outbox[i + k].call
                /\ \A t \in Requests : outbox'[i].tag = t <=> outbox[i + k].tag = t
                /\ outbox'[i].ok = outbox[i + k].ok
                /\ outbox'[i].session = outbox[i + k].session
                /\ outbox'[i].kiosk = outbox[i + k].kiosk
           /\ \A i \in DOMAIN outbox : (k = 1 /\ i = 1) \/ i - k \in DOMAIN outbox'
<1>1. k \in {0, 1} /\ Len(outbox) \in Nat /\ Len(outbox') = Len(outbox) - k
  BY DEF QueuesTyped, ShellTurn, Reads
<1>2. DOMAIN outbox = 1 .. Len(outbox) /\ DOMAIN outbox' = 1 .. Len(outbox')
  BY DEF QueuesTyped
<1>3. ASSUME NEW i \in DOMAIN outbox'
      PROVE  /\ i \in Nat /\ i >= 1
             /\ i + k \in DOMAIN outbox
             /\ outbox'[i].call = outbox[i + k].call
             /\ \A t \in Requests : outbox'[i].tag = t <=> outbox[i + k].tag = t
             /\ outbox'[i].ok = outbox[i + k].ok
             /\ outbox'[i].session = outbox[i + k].session
             /\ outbox'[i].kiosk = outbox[i + k].kiosk
  <2>1. /\ outbox'[i].call = outbox[i + k].call
        /\ AlikeTags(outbox[i + k].tag, outbox'[i].tag)
        /\ outbox'[i].ok = outbox[i + k].ok
        /\ outbox'[i].session = outbox[i + k].session
        /\ outbox'[i].kiosk = outbox[i + k].kiosk
    BY <1>2 DEF ShellTurn, Reads
  <2>2. i \in Nat /\ i >= 1 /\ i + k \in DOMAIN outbox
    BY <1>1, <1>2
  <2> QED BY <2>1, <2>2, TagsKept
<1>4. ASSUME NEW i \in DOMAIN outbox
      PROVE  (k = 1 /\ i = 1) \/ i - k \in DOMAIN outbox'
  BY <1>1, <1>2
<1> QED BY <1>1, <1>3, <1>4

(* What is in the queues after a step. *)
LEMMA Contents ==
    ASSUME QueuesTyped, NEW k, ShellTurn(k)
    PROVE  /\ \A c \in Calls, tag \in Requests :
                /\ In(inbox', c, tag) <=> In(inbox, c, tag) \/ SentNow(c, tag)
                /\ In(outbox', c, tag) => In(outbox, c, tag)
                /\ In(outbox, c, tag) /\ ~Read(c, tag, k) => In(outbox', c, tag)
           /\ RestoreIn(inbox) => RestoreIn(inbox')
           /\ RestoreIn(outbox') => RestoreIn(outbox)
<1>1. RestoreRequests \subseteq Requests
  BY DEF Requests
<1>2. ASSUME NEW c \in Calls, NEW tag \in Requests
      PROVE  In(inbox', c, tag) <=> In(inbox, c, tag) \/ SentNow(c, tag)
  <2>1. ASSUME In(inbox, c, tag)
        PROVE  In(inbox', c, tag)
    BY <2>1, Places DEF In
  <2>2. ASSUME SentNow(c, tag)
        PROVE  In(inbox', c, tag)
    <3>1. Len(inbox) + 1 \in DOMAIN inbox' /\ inbox'[Len(inbox) + 1] = Request(c, tag)
      BY <2>2, Places DEF SentNow
    <3>2. Request(c, tag).call = c /\ Request(c, tag).tag = tag
      BY DEF Request
    <3> QED BY <3>1, <3>2 DEF In
  <2>3. ASSUME In(inbox', c, tag), ~In(inbox, c, tag)
        PROVE  SentNow(c, tag)
    <3>1. PICK i \in DOMAIN inbox' : inbox'[i].call = c /\ inbox'[i].tag = tag
      BY <2>3 DEF In
    <3>2. i \notin DOMAIN inbox
      BY <2>3, <3>1, Places DEF In
    <3>3. Grew /\ i = Len(inbox) + 1
      BY <3>2, Places
    <3>4. inbox'[i] \in [call : Calls, tag : Requests] \cup {TickMessage}
      BY <3>3 DEF ShellTurn, Extends, Grew
    <3>5. inbox'[i] # TickMessage
      BY <3>1 DEF TickMessage, Requests, RestoreRequests
    <3>6. inbox'[i] = Request(c, tag)
      BY <3>1, <3>4, <3>5 DEF Request
    <3> QED BY <3>3, <3>6 DEF SentNow
  <2> QED BY <2>1, <2>2, <2>3
<1>3. ASSUME NEW c \in Calls, NEW tag \in Requests, In(outbox', c, tag)
      PROVE  In(outbox, c, tag)
  BY <1>3, AnswerPlaces DEF In
<1>4. ASSUME NEW c \in Calls, NEW tag \in Requests, In(outbox, c, tag), ~Read(c, tag, k)
      PROVE  In(outbox', c, tag)
  <2>1. PICK i \in DOMAIN outbox : outbox[i].call = c /\ outbox[i].tag = tag
    BY <1>4 DEF In
  <2>2. i - k \in DOMAIN outbox'
    BY <1>4, <2>1, AnswerPlaces DEF Read
  <2>3. i - k + k = i
    BY AnswerPlaces, <2>1 DEF QueuesTyped
  <2>4. outbox'[i - k].call = c /\ outbox'[i - k].tag = tag
    BY <2>1, <2>2, <2>3, AnswerPlaces
  <2> QED BY <2>2, <2>4 DEF In
<1>5. RestoreIn(inbox) => RestoreIn(inbox')
  BY <1>1, Places DEF RestoreIn
<1>6. RestoreIn(outbox') => RestoreIn(outbox)
  BY <1>1, AnswerPlaces DEF RestoreIn
<1> QED BY <1>2, <1>3, <1>4, <1>5, <1>6

-----------------------------------------------------------------------------
(* What holds of the queues survives the steps of the shell. *)

(* A request that was not there was sent by a call. *)
LEMMA NewPlace ==
    ASSUME QueuesTyped, NEW k, ShellTurn(k),
           NEW i \in DOMAIN inbox', i \notin DOMAIN inbox, inbox'[i].tag \in Requests
    PROVE  /\ i = Len(inbox) + 1
           /\ inbox'[i].call \in Calls /\ SentNow(inbox'[i].call, inbox'[i].tag)
<1>1. Grew /\ i = Len(inbox) + 1
  BY Places
<1>2. inbox'[i] \in [call : Calls, tag : Requests] \cup {TickMessage}
  BY <1>1 DEF ShellTurn, Extends, Grew
<1>3. inbox'[i] # TickMessage
  BY DEF TickMessage, Requests, RestoreRequests
<1>4. inbox'[i] \in [call : Calls, tag : Requests]
  BY <1>2, <1>3
<1>5. inbox'[i] = Request(inbox'[i].call, inbox'[i].tag)
  BY <1>4 DEF Request
<1> QED BY <1>1, <1>4, <1>5 DEF SentNow

(* The answer that is read was in the queue. *)
LEMMA ReadIn ==
    ASSUME QueuesTyped, NEW k, ShellTurn(k), NEW c, NEW tag, Read(c, tag, k)
    PROVE  1 \in DOMAIN outbox /\ In(outbox, c, tag)
<1>1. k = 1 /\ 1 <= Len(outbox) /\ Len(outbox) \in Nat
  BY DEF QueuesTyped, ShellTurn, Reads, Read
<1>2. 1 \in DOMAIN outbox
  BY <1>1 DEF QueuesTyped
<1> QED BY <1>2 DEF In, Read

LEMMA SentFrom ==
    ASSUME NEW k, ShellTurn(k), NEW c \in Calls, NEW tag \in Requests, SentNow(c, tag)
    PROVE  /\ at'[c] = tag /\ at[c] # tag
           /\ tag \in {"start", "dry"} => at[c] = "unused"
           /\ tag = "enter" => at[c] = "start" /\ Read(c, "start", k)
BY DEF ShellTurn, Turns

LEMMA TurnCoreShape ==
    ASSUME QueuesTyped, NEW k, ShellTurn(k), CoreShape
    PROVE  CoreShape'
<1>1. ASSUME ~connected
      PROVE  inbox' = <<>>
  <2>1. Len(inbox) = 0 /\ ~Grew
    BY <1>1 DEF CoreShape, ShellTurn
  <2>2. Len(inbox') = 0
    BY <2>1, Places DEF Grew
  <2> QED BY <2>2 DEF QueuesTyped
<1>2. ASSUME NEW i \in DOMAIN inbox', inbox'[i].tag \in Requests
      PROVE  inbox'[i].call \in Calls
  <2>1. CASE i \in DOMAIN inbox
    BY <1>2, <2>1, Places DEF CoreShape
  <2>2. CASE i \notin DOMAIN inbox
    BY <1>2, <2>2, NewPlace
  <2> QED BY <2>1, <2>2
<1>3. UNCHANGED <<connected, alive, core>>
  BY DEF ShellTurn
<1> QED BY <1>1, <1>2, <1>3 DEF CoreShape, CoreIdle

LEMMA TurnRestoreAsked ==
    ASSUME QueuesTyped, NEW k, ShellTurn(k), RestoreAsked
    PROVE  RestoreAsked'
<1> SUFFICES ASSUME connected, NEW c \in Calls, at'[c] \in RestoreRequests
             PROVE  In(inbox', c, at'[c]) \/ In(outbox', c, at'[c])
  BY DEF RestoreAsked, ShellTurn
<1>1. at'[c] \in Requests
  BY DEF Requests
<1>2. Turns(c, k)
  BY DEF ShellTurn
<1>3. CASE at'[c] = at[c]
  <2>1. ~Read(c, at[c], k)
    BY <1>2, <1>3 DEF Turns
  <2>2. In(inbox, c, at[c]) \/ In(outbox, c, at[c])
    BY <1>3 DEF RestoreAsked
  <2> QED BY <1>1, <1>3, <2>1, <2>2, Contents
<1>4. CASE at'[c] # at[c]
  <2>1. SentNow(c, at'[c])
    BY <1>1, <1>2, <1>4 DEF Turns
  <2> QED BY <1>1, <2>1, Contents
<1> QED BY <1>3, <1>4

LEMMA TurnSentOnce ==
    ASSUME QueuesTyped, NEW k, ShellTurn(k), SentOnce
    PROVE  SentOnce'
<1> SUFFICES ASSUME NEW c \in Calls
             PROVE  /\ \A tag \in {"start", "enter"} :
                         /\ In(inbox', c, tag) => ~In(outbox', c, tag)
                         /\ at'[c] = "unused" => ~In(inbox', c, tag) /\ ~In(outbox', c, tag)
                         /\ \A i, j \in DOMAIN inbox' :
                              /\ inbox'[i].call = c /\ inbox'[i].tag = tag
                              /\ inbox'[j].call = c /\ inbox'[j].tag = tag
                              => i = j
                    /\ at'[c] = "start" => ~In(inbox', c, "enter") /\ ~In(outbox', c, "enter")
                    /\ In(inbox', c, "start") => ~In(inbox', c, "enter")
                    /\ at'[c] \in {"unused", "start"} => ~In(inbox', c, "dry")
                    /\ In(inbox', c, "dry") =>
                         \A tag \in {"start", "enter"} :
                            ~In(inbox', c, tag) /\ ~In(outbox', c, tag)
  BY DEF SentOnce, In
<1>1. "start" \in Requests /\ "enter" \in Requests /\ "dry" \in Requests
  BY DEF Requests
<1>2. ASSUME NEW tag \in {"start", "enter"}, SentNow(c, tag)
      PROVE  ~In(inbox, c, tag) /\ ~In(outbox, c, tag)
  BY <1>1, <1>2, SentFrom DEF SentOnce
<1>3. ASSUME NEW tag \in {"start", "enter"}, In(inbox', c, tag)
      PROVE  ~In(outbox', c, tag)
  BY <1>1, <1>2, <1>3, Contents DEF SentOnce
<1>4. ASSUME NEW tag \in {"start", "enter"}, at'[c] = "unused"
      PROVE  ~In(inbox', c, tag) /\ ~In(outbox', c, tag)
  <2>1. at[c] = "unused" /\ ~SentNow(c, tag)
    BY <1>1, <1>4 DEF ShellTurn, Turns
  <2> QED BY <1>1, <2>1, Contents DEF SentOnce
<1>5. ASSUME NEW tag \in {"start", "enter"}, NEW i \in DOMAIN inbox', NEW j \in DOMAIN inbox',
             inbox'[i].call = c /\ inbox'[i].tag = tag,
             inbox'[j].call = c /\ inbox'[j].tag = tag
      PROVE  i = j
  <2>1. CASE i \in DOMAIN inbox /\ j \in DOMAIN inbox
    BY <1>1, <1>5, <2>1, Places DEF SentOnce
  <2>2. CASE i \notin DOMAIN inbox /\ j \notin DOMAIN inbox
    BY <1>1, <1>5, <2>2, NewPlace
  <2>3. ASSUME NEW m \in DOMAIN inbox', NEW n \in DOMAIN inbox', m \in DOMAIN inbox,
               n \notin DOMAIN inbox, inbox'[m].call = c, inbox'[m].tag = tag,
               inbox'[n].call = c, inbox'[n].tag = tag
        PROVE  FALSE
    <3>1. In(inbox, c, tag)
      BY <1>1, <2>3, Places DEF In
    <3>2. SentNow(c, tag)
      BY <1>1, <2>3, NewPlace
    <3> QED BY <1>2, <3>1, <3>2
  <2> QED BY <1>5, <2>1, <2>2, <2>3
<1>6. ASSUME at'[c] = "start"
      PROVE  ~In(inbox', c, "enter") /\ ~In(outbox', c, "enter")
  <2>1. at[c] \in {"start", "unused"} /\ ~SentNow(c, "enter")
    BY <1>1, <1>6 DEF ShellTurn, Turns
  <2> QED BY <1>1, <2>1, Contents DEF SentOnce
<1>7. ASSUME In(inbox', c, "start"), In(inbox', c, "enter")
      PROVE  FALSE
  <2>1. CASE SentNow(c, "start")
    <3>1. at[c] = "unused" /\ at'[c] = "start" /\ ~In(inbox, c, "enter")
      BY <1>1, <2>1, SentFrom DEF SentOnce
    <3>2. ~SentNow(c, "enter")
      BY <1>1, <3>1, SentFrom
    <3> QED BY <1>1, <1>7, <3>1, <3>2, Contents
  <2>2. CASE ~SentNow(c, "start")
    <3>1. In(inbox, c, "start") /\ ~In(inbox, c, "enter") /\ ~In(outbox, c, "start")
      BY <1>1, <1>7, <2>2, Contents DEF SentOnce
    <3>2. SentNow(c, "enter")
      BY <1>1, <1>7, <3>1, Contents
    <3> QED BY <1>1, <3>1, <3>2, SentFrom, ReadIn
  <2> QED BY <2>1, <2>2
<1>8. ASSUME at'[c] \in {"unused", "start"}
      PROVE  ~In(inbox', c, "dry")
  <2>1. at[c] \in {"unused", "start"} /\ ~SentNow(c, "dry")
    BY <1>1, <1>8 DEF ShellTurn, Turns
  <2> QED BY <1>1, <2>1, Contents DEF SentOnce
<1>9. ASSUME In(inbox', c, "dry"), NEW tag \in {"start", "enter"}
      PROVE  ~In(inbox', c, tag) /\ ~In(outbox', c, tag)
  <2>1. CASE SentNow(c, "dry")
    <3>1. at[c] = "unused" /\ ~In(inbox, c, tag) /\ ~In(outbox, c, tag) /\ ~SentNow(c, tag)
      BY <1>1, <2>1, SentFrom DEF SentOnce
    <3> QED BY <1>1, <3>1, Contents
  <2>2. CASE ~SentNow(c, "dry")
    <3>1. In(inbox, c, "dry")
      BY <1>1, <1>9, <2>2, Contents
    <3>2. at[c] \notin {"unused", "start"} /\ ~In(inbox, c, tag) /\ ~In(outbox, c, tag)
      BY <3>1 DEF SentOnce
    <3>3. ~SentNow(c, tag)
      BY <1>1, <3>2, SentFrom
    <3> QED BY <1>1, <3>2, <3>3, Contents
  <2> QED BY <2>1, <2>2
<1> QED BY <1>3, <1>4, <1>5, <1>6, <1>7, <1>8, <1>9

LEMMA TurnEnterFollowed ==
    ASSUME QueuesTyped, NEW k, ShellTurn(k), CoreShape, SentOnce, EnterFollowed
    PROVE  EnterFollowed'
<1> SUFFICES ASSUME NEW i \in DOMAIN inbox', inbox'[i].tag = "enter", inbox'[i].call \in Calls
             PROVE  \/ at'[inbox'[i].call] = "enter"
                    \/ \E j \in DOMAIN inbox' : j > i /\ inbox'[j].tag \in RestoreRequests
  BY DEF EnterFollowed
<1> DEFINE c == inbox'[i].call
<1>1. "enter" \in Requests /\ RestoreRequests \subseteq Requests
  BY DEF Requests
<1>2. CASE i \notin DOMAIN inbox
  BY <1>1, <1>2, NewPlace, SentFrom
<1>3. CASE i \in DOMAIN inbox
  <2>1. inbox[i].call = c /\ inbox[i].tag = "enter" /\ c \in Calls /\ i < Len(inbox) + 1
    BY <1>1, <1>3, Places
  <2>2. CASE \E j \in DOMAIN inbox : j > i /\ inbox[j].tag \in RestoreRequests
    BY <1>1, <2>2, Places
  <2>3. CASE at[c] = "enter" /\ at'[c] # "enter"
    <3>1. ~Read(c, "enter", k)
      BY <1>3, <2>1, ReadIn DEF SentOnce, In
    <3>2. at'[c] \in RestoreRequests
      BY <2>1, <2>3, <3>1 DEF ShellTurn, Turns
    <3>3. connected
      BY <1>3 DEF CoreShape
    <3>4. SentNow(c, at'[c])
      BY <1>1, <2>1, <2>3, <3>2, <3>3 DEF ShellTurn, Turns
    <3>5. Len(inbox) + 1 \in DOMAIN inbox' /\ inbox'[Len(inbox) + 1].tag = at'[c]
      BY <3>4, Places DEF SentNow, Request
    <3>6. Len(inbox) + 1 > i
      BY <1>3, <2>1, Places
    <3> QED BY <3>2, <3>5, <3>6
  <2> QED BY <1>3, <2>1, <2>2, <2>3 DEF EnterFollowed
<1> QED BY <1>2, <1>3

LEMMA TurnAnswers ==
    ASSUME QueuesTyped, NEW k, ShellTurn(k), AnsweredSince, AnswersRight
    PROVE  AnsweredSince' /\ AnswersRight' /\ (OnlyFromKiosk => OnlyFromKiosk')
<1>1. ASSUME NEW j \in DOMAIN outbox', FromKiosk(outbox[j + k])
      PROVE  FromKiosk(outbox'[j])
  BY <1>1, AnswerPlaces DEF FromKiosk
<1>2. OnlyFromKiosk => OnlyFromKiosk'
  BY <1>1, AnswerPlaces DEF OnlyFromKiosk, FromKiosk
<1>3. ASSUME core.kiosk, NEW i \in DOMAIN outbox', NEW j \in DOMAIN outbox', i < j,
             outbox'[i].call = core.active, outbox'[i].tag = "enter"
      PROVE  FromKiosk(outbox'[j])
  <2>1. /\ i + k \in DOMAIN outbox /\ j + k \in DOMAIN outbox
        /\ i \in Nat /\ j \in Nat /\ k \in {0, 1}
        /\ outbox[i + k].call = core.active /\ outbox[i + k].tag = "enter"
    BY <1>3, AnswerPlaces DEF Requests
  <2>2. i + k < j + k
    BY <1>3, <2>1
  <2> QED BY <1>1, <1>3, <2>1, <2>2 DEF AnsweredSince
<1>4. AnsweredSince'
  BY <1>3 DEF AnsweredSince, ShellTurn, FromKiosk
<1>5. {"dry", "notify1", "notify2"} \subseteq Requests
  BY DEF Requests
<1>6. AnswersRight'
  BY <1>5, AnswerPlaces DEF AnswersRight
<1> QED BY <1>2, <1>4, <1>6

LEMMA TurnRestoredFirst ==
    ASSUME QueuesTyped, NEW k, ShellTurn(k), RestoredFirst
    PROVE  RestoredFirst'
<1>1. UNCHANGED <<core, refused>>
  BY DEF ShellTurn
<1>2. "enter" \in Requests /\ "start" \in Requests /\ RestoreRequests \subseteq Requests
  BY DEF Requests
<1>3. ASSUME ~refused, RestoreIn(outbox')
      PROVE  ~core.kiosk /\ (core.active \in Calls => ~In(inbox', core.active, "enter"))
  <2>1. ~core.kiosk /\ (core.active \in Calls => ~In(inbox, core.active, "enter"))
    BY <1>3, Contents DEF RestoredFirst
  <2>2. ASSUME core.active \in Calls, SentNow(core.active, "enter")
        PROVE  FALSE
    <3>1. Read(core.active, "start", k)
      BY <1>2, <2>2, SentFrom
    <3>2. PICK i \in DOMAIN outbox' : outbox'[i].tag \in RestoreRequests
      BY <1>3 DEF RestoreIn
    <3>3. k = 1 /\ i \in Nat /\ i >= 1 /\ i + 1 \in DOMAIN outbox
      BY <3>1, AnswerPlaces DEF Read
    <3>4. outbox[i + 1].tag \in RestoreRequests
      BY <1>2, <3>2, <3>3, AnswerPlaces
    <3>5. 1 \in DOMAIN outbox /\ 1 < i + 1
      BY <3>1, <3>3, ReadIn
    <3> QED BY <1>3, <2>2, <3>1, <3>3, <3>4, <3>5 DEF RestoredFirst, Read
  <2> QED BY <1>2, <2>1, <2>2, Contents
<1>4. ASSUME ~refused, NEW i \in DOMAIN outbox', NEW j \in DOMAIN outbox', i < j,
             outbox'[i].call = core.active, core.active \in Calls, outbox'[i].tag = "start"
      PROVE  outbox'[j].tag \notin RestoreRequests
  <2>1. /\ i + k \in DOMAIN outbox /\ j + k \in DOMAIN outbox
        /\ i \in Nat /\ j \in Nat /\ k \in {0, 1}
        /\ outbox[i + k].call = core.active /\ outbox[i + k].tag = "start"
    BY <1>2, <1>4, AnswerPlaces
  <2>2. i + k < j + k
    BY <1>4, <2>1
  <2>3. outbox[j + k].tag \notin RestoreRequests
    BY <1>4, <2>1, <2>2 DEF RestoredFirst
  <2> QED BY <1>2, <2>3, AnswerPlaces
<1> QED BY <1>1, <1>3, <1>4 DEF RestoredFirst, RestoreIn, In

-----------------------------------------------------------------------------
(* The trace of a kiosk survives the steps that leave a sign of it. *)

SignLeft(k) ==
    /\ OnlyFromKiosk /\ Shows(snap) /\ ~reverted' =>
         Shows(snap') \/ \E b \in Calls : at[b] \in RestoreRequests
    /\ \A b \in Calls :
         /\ at[b] \in Notifying /\ at'[b] \notin Notifying => Shows(snap')
         /\ at[b] = "enter" /\ at'[b] # "enter" =>
              \/ RestoreIn(inbox')
              \/ ~connected
              \/ Read(b, "enter", k) /\ (at'[b] \in Notifying \/ Shows(snap'))
    /\ reverted => reverted'

LEMMA TurnKioskTraced ==
    ASSUME QueuesTyped, NEW k, ShellTurn(k), SignLeft(k), KInv
    PROVE  KioskTraced'
<1> SUFFICES ASSUME core.kiosk, ~refused
             PROVE  \/ RestoreIn(inbox')
                    \/ at'[core.active] = "enter"
                    \/ /\ OnlyFromKiosk'
                       /\ at'[core.active] \in Notifying \/ reverted' \/ Shows(snap')
  BY DEF KioskTraced, ShellTurn
<1> DEFINE a == core.active
<1>1. a \in Calls /\ connected
  BY DEF KInv, CoreShape, CoreIdle
<1>2. OnlyFromKiosk => OnlyFromKiosk'
  BY TurnAnswers DEF KInv
<1>3. CASE RestoreIn(inbox)
  BY <1>3, Contents
<1>4. CASE at[a] = "enter" /\ at'[a] # "enter" /\ ~RestoreIn(inbox')
  <2>1. Read(a, "enter", k) /\ (at'[a] \in Notifying \/ Shows(snap'))
    BY <1>1, <1>4 DEF SignLeft
  <2>2. 1 \in DOMAIN outbox
    BY <2>1, ReadIn
  <2>3. ASSUME NEW j \in DOMAIN outbox'
        PROVE  FromKiosk(outbox'[j])
    <3>1. j + 1 \in DOMAIN outbox /\ j \in Nat /\ j >= 1 /\ k = 1
      BY <2>1, AnswerPlaces DEF Read
    <3>2. 1 < j + 1
      BY <3>1
    <3>3. FromKiosk(outbox[j + 1])
      BY <2>1, <2>2, <3>1, <3>2 DEF KInv, AnsweredSince, Read
    <3> QED BY <3>1, <3>3, AnswerPlaces DEF FromKiosk
  <2>4. OnlyFromKiosk'
    BY <2>3 DEF OnlyFromKiosk, FromKiosk
  <2> QED BY <2>1, <2>4
<1>5. CASE OnlyFromKiosk /\ (at[a] \in Notifying \/ reverted \/ Shows(snap))
  <2>1. CASE at[a] \in Notifying
    BY <1>1, <1>2, <1>5, <2>1 DEF SignLeft
  <2>2. CASE reverted
    BY <1>2, <1>5, <2>2 DEF SignLeft
  <2>3. CASE Shows(snap) /\ ~reverted' /\ ~Shows(snap')
    <3>1. PICK b \in Calls : at[b] \in RestoreRequests
      BY <1>5, <2>3 DEF SignLeft
    <3>2. In(inbox, b, at[b]) \/ In(outbox, b, at[b])
      BY <1>1, <3>1 DEF KInv, RestoreAsked
    <3>3. ~RestoreIn(outbox)
      BY DEF KInv, RestoredFirst
    <3>4. RestoreIn(inbox)
      BY <3>1, <3>2, <3>3 DEF In, RestoreIn
    <3> QED BY <3>4, Contents
  <2> QED BY <1>2, <1>5, <2>1, <2>2, <2>3
<1> QED BY <1>3, <1>4, <1>5 DEF KInv, KioskTraced

(* A step of the shell needs no more than this. *)
LEMMA TurnKept ==
    ASSUME QueuesTyped, NEW k, ShellTurn(k), SignLeft(k), KInv, CleanupWaits', PatchShows'
    PROVE  KInv'
BY TurnCoreShape, TurnRestoreAsked, TurnSentOnce, TurnEnterFollowed, TurnAnswers,
   TurnRestoredFirst, TurnKioskTraced DEF KInv

-----------------------------------------------------------------------------
(* The steps of a call, and those that are of no call. *)

CoreLeft == UNCHANGED <<connected, alive, core, refused>>

(* What the first k answers are of: nothing, or the answer the call waits for. *)
Awaited(c, k) == k = 0 \/ (k = 1 /\ outbox[1].call = c /\ outbox[1].tag = at[c])

LEMMA CallTurn ==
    ASSUME TypeOK, NEW c \in Calls, NEW k \in {0, 1}, Awaited(c, k),
           NEW step, GoesTo(c, step), at[c] # step, step # "unused",
           step \in {"start", "dry"} => at[c] = "unused",
           step = "enter" => at[c] = "start" /\ k = 1,
           at[c] = "enter" => k = 1 \/ step \in RestoreRequests,
           CoreLeft, Reads(outbox, outbox', k),
           \/ /\ step \in Requests
              /\ Extends(inbox, inbox', {Request(c, step)})
              /\ connected => Grew
              /\ ~connected => ~Grew
           \/ /\ step \notin Requests
              /\ Extends(inbox, inbox', {TickMessage})
              /\ ~connected => ~Grew
    PROVE  ShellTurn(k)
<1>1. at'[c] = step /\ \A b \in Calls : b # c => at'[b] = at[b]
  BY DEF GoesTo, TypeOK
<1>2. \A b \in Calls, tag \in Requests : SentNow(b, tag) => b = c /\ tag = step
  BY DEF SentNow, Grew, Extends, Request, TickMessage, Requests, RestoreRequests
<1>3. step \in Requests /\ connected => SentNow(c, step)
  BY DEF SentNow, Grew, Extends
<1>4. ASSUME NEW b \in Calls, b # c
      PROVE  Turns(b, k)
  BY <1>1, <1>2, <1>4 DEF Turns, Awaited, Read
<1>5. Turns(c, k)
  BY <1>1, <1>2, <1>3 DEF Turns, Awaited, Read
<1>6. Extends(inbox, inbox', [call : Calls, tag : Requests] \cup {TickMessage})
  BY DEF Extends, Request
<1> QED BY <1>4, <1>5, <1>6 DEF ShellTurn, CoreLeft

LEMMA IdleTurn ==
    ASSUME TypeOK, NEW k \in {0, 1}, at' = at, \A b \in Calls : ~Read(b, at[b], k),
           CoreLeft, Reads(outbox, outbox', k),
           Extends(inbox, inbox', {TickMessage}), ~connected => ~Grew
    PROVE  ShellTurn(k)
<1>1. \A b \in Calls, tag \in Requests : ~SentNow(b, tag)
  BY DEF SentNow, Grew, Extends, Request, TickMessage, Requests, RestoreRequests
<1>2. Extends(inbox, inbox', [call : Calls, tag : Requests] \cup {TickMessage})
  BY DEF Extends
<1> QED BY <1>1, <1>2 DEF ShellTurn, CoreLeft, Turns

(* The queues after a step that keeps or stops the loop. *)
LEMMA LeftQueues ==
    ASSUME NEW in \in Seq(Messages), NEW out \in Seq(Answers), NEW k, NEW ms,
           Extends(inbox, in, ms), \A m \in ms : m.tag # "tick",
           inbox \in Seq(Messages), outbox \in Seq(Answers),
           Reads(outbox, out, k), KeepMonitor(in, out) \/ StopMonitor(in, out)
    PROVE  /\ Extends(inbox, inbox', ms) /\ Reads(outbox, outbox', k)
           /\ Len(inbox') = Len(in)
<1>1. CASE KeepMonitor(in, out)
  BY <1>1 DEF KeepMonitor
<1>2. CASE StopMonitor(in, out)
  <2>1. inbox' = Outdated(in) /\ outbox' = Outdated(out)
    BY <1>2 DEF StopMonitor
  <2> QED BY <2>1, OutdatedExtends, OutdatedReads, OutdatedAlike
<1> QED BY <1>1, <1>2

(* A call sends the request it then waits for. *)
LEMMA SendingTurn ==
    ASSUME TypeOK, NEW c \in Calls, NEW step \in Requests, NEW k \in {0, 1},
           NEW out \in Seq(Answers), Reads(outbox, out, k),
           KeepMonitor(Sent(inbox, c, step), out) \/ StopMonitor(Sent(inbox, c, step), out)
    PROVE  /\ Extends(inbox, inbox', {Request(c, step)}) /\ Reads(outbox, outbox', k)
           /\ connected => Grew
           /\ ~connected => ~Grew
           /\ connected /\ step \in RestoreRequests => RestoreIn(inbox')
<1> DEFINE in == Sent(inbox, c, step)
<1>1. inbox \in Seq(Messages) /\ outbox \in Seq(Answers) /\ Len(inbox) \in Nat
  BY DEF TypeOK
<1>2. Request(c, step) \in Messages /\ Request(c, step).tag # "tick"
  BY DEF Request, Messages, Requests, RestoreRequests
<1>3. /\ in = IF connected THEN Append(inbox, Request(c, step)) ELSE inbox
      /\ in \in Seq(Messages) /\ Extends(inbox, in, {Request(c, step)})
      /\ Len(in) = IF connected THEN Len(inbox) + 1 ELSE Len(inbox)
  BY <1>1, <1>2, SentExtends DEF Sent, Request
<1> HIDE DEF in
<1>4. /\ Extends(inbox, inbox', {Request(c, step)}) /\ Reads(outbox, outbox', k)
      /\ Len(inbox') = Len(in)
  <2>1. KeepMonitor(in, out) \/ StopMonitor(in, out)
    BY DEF in
  <2> DEFINE ms == {Request(c, step)}
  <2>2. \A m \in ms : m.tag # "tick"
    BY <1>2
  <2>3. Extends(inbox, in, ms)
    BY <1>3
  <2> HIDE DEF ms
  <2>4. /\ Extends(inbox, inbox', ms) /\ Reads(outbox, outbox', k)
        /\ Len(inbox') = Len(in)
    BY <1>1, <1>3, <2>1, <2>2, <2>3, LeftQueues
  <2> QED BY <2>4 DEF ms
<1>5. Grew <=> connected
  BY <1>1, <1>3, <1>4 DEF Grew
<1>6. ASSUME connected, step \in RestoreRequests
      PROVE  RestoreIn(inbox')
  <2>1. inbox'[Len(inbox) + 1] = Request(c, step)
    BY <1>4, <1>5, <1>6 DEF Extends, Grew
  <2>2. Len(inbox) + 1 \in DOMAIN inbox'
    <3>1. inbox' \in Seq(Messages)
      BY <1>3, OutdatedTyped DEF KeepMonitor, StopMonitor, in
    <3> QED BY <1>1, <1>5, <1>6, <3>1 DEF Grew
  <2> QED BY <1>6, <2>1, <2>2 DEF RestoreIn, Request
<1> QED BY <1>4, <1>5, <1>6

(* A step that sends no request keeps, stops or starts the loop. *)
LEMMA SilentTurn ==
    ASSUME TypeOK, NEW k \in {0, 1}, NEW out \in Seq(Answers), Reads(outbox, out, k),
           \/ KeepMonitor(inbox, out)
           \/ StopMonitor(inbox, out)
           \/ \E s : StartMonitor(s, inbox, out)
    PROVE  /\ Extends(inbox, inbox', {TickMessage}) /\ Reads(outbox, outbox', k)
           /\ ~connected => ~Grew
<1>1. inbox \in Seq(Messages) /\ outbox \in Seq(Answers) /\ Len(inbox) \in Nat
  BY DEF TypeOK
<1>2. TickMessage \in Messages
  BY DEF TickMessage, Messages
<1>3. Extends(inbox, inbox, {}) /\ (\A ms : Extends(inbox, inbox, ms))
  BY <1>1 DEF Extends, AlikeTags
<1>4. CASE KeepMonitor(inbox, out) \/ StopMonitor(inbox, out)
  <2>1. Extends(inbox, inbox', {}) /\ Reads(outbox, outbox', k) /\ Len(inbox') = Len(inbox)
    BY <1>1, <1>3, <1>4, LeftQueues
  <2> QED BY <1>1, <2>1 DEF Extends, Grew
<1>5. ASSUME connected, inbox' = Sent(inbox, NoCall, "tick"), outbox' = out
      PROVE  Extends(inbox, inbox', {TickMessage}) /\ Reads(outbox, outbox', k)
  BY <1>1, <1>2, <1>5, SentExtends DEF Sent, TickMessage
<1>6. \/ KeepMonitor(inbox, out) \/ StopMonitor(inbox, out)
      \/ connected /\ inbox' = Sent(inbox, NoCall, "tick") /\ outbox' = out
  BY DEF StartMonitor
<1> QED BY <1>4, <1>5, <1>6

-----------------------------------------------------------------------------
(* The signs of a kiosk in the snapshot, and the steps of the calls. *)

(* An update that shows a kiosk is let through, or the lock that keeps it out shows one. *)
LEMMA GovernedSigns ==
    ASSUME NEW s, Consistent(s), NEW p, NEW allow
    PROVE  /\ Shows(p) => Shows(Governed(s, p, allow))
           /\ "exit" \notin allow /\ s.exiting => Governed(s, p, allow).exiting
BY DEF Governed, Consistent, Snapshots, Shows

LEMMA AudioSigns ==
    ASSUME NEW s, Consistent(s), NEW b \in BOOLEAN, NEW allow
    PROVE  LET t == Governed(s, WithAudio(s, b), allow)
           IN (Shows(s) => Shows(t)) /\ ("exit" \notin allow /\ s.exiting => t.exiting)
<1>1. Shows(s) => Shows(WithAudio(s, b))
  BY DEF Shows, WithAudio, Consistent, Snapshots
<1> QED BY <1>1, GovernedSigns

LEMMA PatchSigns ==
    ASSUME NEW s \in Snapshots, NEW b \in BOOLEAN
    PROVE  \A p : p.exam \/ p.session = Running =>
             Shows(Patched(s, p)) /\ Shows(WithAudio(Patched(s, p), b))
BY DEF Patched, WithAudio, Snapshots, Shows

LEMMA ReportSigns ==
    ASSUME NEW s \in Snapshots, NEW b \in BOOLEAN, NEW r, r.kiosk \/ r.session = Running
    PROVE  /\ Shows(Reported(s, r)) /\ Shows(WithAudio(Reported(s, r), b))
           /\ Shows([Reported(s, r) EXCEPT !.kiosk = b])
BY DEF Reported, Patched, WithAudio, Snapshots, Shows

(* What the step of a call to its next wait leaves of the rest. *)
Leaves(c, step, k) ==
    /\ CoreLeft
    /\ reverted' = reverted
    /\ OnlyFromKiosk /\ Shows(snap) => Shows(snap') \/ at[c] \in RestoreRequests
    /\ at[c] \in Notifying => step \in Notifying \/ Shows(snap')
    /\ at[c] = "enter" =>
         step \in RestoreRequests \/ (k = 1 /\ (step \in Notifying \/ Shows(snap')))
    /\ \/ ~cleanupTimer'
       \/ step = "exit" /\ snap'.exiting
       \/ cleanupTimer' = cleanupTimer /\ at[c] # "exit" /\ (snap.exiting => snap'.exiting)
    /\ \A b \in Calls : b # c => patch'[b] = patch[b]
    /\ step \in Notifying => patch'[c].exam

LEMMA LeavesTraced ==
    ASSUME Inv, KInv, QueuesTyped, NEW c \in Calls, NEW k \in {0, 1}, NEW step,
           GoesTo(c, step), Awaited(c, k), ShellTurn(k), Leaves(c, step, k),
           step \in RestoreRequests => RestoreIn(inbox') \/ ~connected
    PROVE  KInv'
<1>1. at'[c] = step /\ \A b \in Calls : b # c => at'[b] = at[b]
  BY DEF GoesTo, Inv, TypeOK
<1>2. SignLeft(k)
  BY <1>1 DEF SignLeft, Leaves, Awaited, Read
<1>3. CleanupWaits'
  BY <1>1 DEF KInv, CleanupWaits, Leaves
<1>4. PatchShows'
  BY <1>1 DEF KInv, PatchShows, Leaves
<1> QED BY <1>2, <1>3, <1>4, TurnKept

LEMMA SendTraced ==
    ASSUME Inv, KInv, QueuesTyped, NEW c \in Calls, NEW k \in {0, 1}, NEW step \in Requests,
           NEW out \in Seq(Answers), Reads(outbox, out, k), Awaited(c, k),
           GoesTo(c, step), at[c] # step, Leaves(c, step, k),
           KeepMonitor(Sent(inbox, c, step), out) \/ StopMonitor(Sent(inbox, c, step), out),
           step \in {"start", "dry"} => at[c] = "unused",
           step = "enter" => at[c] = "start" /\ k = 1
    PROVE  KInv'
<1>1. /\ Extends(inbox, inbox', {Request(c, step)}) /\ Reads(outbox, outbox', k)
      /\ connected => Grew
      /\ ~connected => ~Grew
      /\ connected /\ step \in RestoreRequests => RestoreIn(inbox')
  BY SendingTurn DEF Inv
<1>2. step # "unused"
  BY DEF Requests, RestoreRequests
<1>3. ShellTurn(k)
  BY <1>1, <1>2, CallTurn DEF Inv, Leaves
<1> QED BY <1>1, <1>3, LeavesTraced

LEMMA SilentTraced ==
    ASSUME Inv, KInv, QueuesTyped, NEW c \in Calls, NEW k \in {0, 1},
           NEW step \in {"done", "retry", "confirm"},
           NEW out \in Seq(Answers), Reads(outbox, out, k), Awaited(c, k),
           GoesTo(c, step), at[c] # step, Leaves(c, step, k),
           \/ KeepMonitor(inbox, out)
           \/ StopMonitor(inbox, out)
           \/ \E s : StartMonitor(s, inbox, out)
    PROVE  KInv'
<1>1. /\ Extends(inbox, inbox', {TickMessage}) /\ Reads(outbox, outbox', k)
      /\ ~connected => ~Grew
  BY SilentTurn DEF Inv
<1>2. step \notin Requests /\ step \notin RestoreRequests /\ step # "unused"
  BY DEF Requests, RestoreRequests
<1>3. ShellTurn(k)
  BY <1>1, <1>2, CallTurn DEF Inv, Leaves
<1> QED BY <1>2, <1>3, LeavesTraced

LEMMA CallTraced ==
    ASSUME Inv, KInv, QueuesTyped, NEW c \in Calls, Call(c)
    PROVE  KInv'
<1>1. outbox \in Seq(Answers) /\ Reads(outbox, outbox, 0) /\ Awaited(c, 0)
  BY NothingRead DEF Inv, TypeOK, Awaited
<1>2. ASSUME NEW step \in {"start", "dry", "exit", "restore", "status", "poll"},
             Opens(c, step), CoreLeft, reverted' = reverted, patch' = patch,
             Shows(snap) => Shows(snap'),
             \/ step = "exit" /\ snap'.exiting
             \/ cleanupTimer' = cleanupTimer /\ snap' = snap,
             KeepMonitor(Sent(inbox, c, step), outbox)
               \/ StopMonitor(Sent(inbox, c, step), outbox)
      PROVE  KInv'
  <2>1. at[c] = "unused" /\ GoesTo(c, step)
    BY <1>2 DEF Opens, GoesTo
  <2>2. step \in Requests /\ step \notin Notifying /\ step # "enter"
    BY DEF Requests, RestoreRequests, Notifying
  <2>3. Leaves(c, step, 0)
    BY <1>2, <2>1, <2>2 DEF Leaves, Notifying, RestoreRequests
  <2> QED BY <1>1, <1>2, <2>1, <2>2, <2>3, SendTraced
<1>3. ASSUME NEW cmd \in {"start", "dry", "demo"}, StartExam(c, cmd)
      PROVE  KInv'
  BY <1>2, <1>3 DEF StartExam, CoreLeft, coreVars, shellVars, timerVars
<1>4. CASE ExitExam(c)
  <2>1. snap'.session \in ExitStates /\ snap'.exiting
    BY <1>4, Snap, ExitSteps DEF ExitExam, ExitRequested, Governed
  <2>2. Shows(snap')
    BY <2>1 DEF Shows
  <2> QED BY <1>2, <1>4, <2>1, <2>2 DEF ExitExam, CoreLeft, coreVars, shellVars
<1>5. CASE RestoreDesktop(c)
  BY <1>2, <1>5 DEF RestoreDesktop, CoreLeft, coreVars, shellVars, timerVars
<1>6. CASE GetStatus(c)
  BY <1>2, <1>6 DEF GetStatus, CoreLeft, coreVars, shellVars, timerVars
<1>7. CASE Poll(c)
  BY <1>2, <1>7 DEF Poll, CoreLeft, coreVars, shellVars, timerVars
<1> QED BY <1>3, <1>4, <1>5, <1>6, <1>7 DEF Call

(* How much of the answers the wait of a call takes. *)
Taken(r) == IF r = NoAnswer THEN 0 ELSE 1

LEMMA AnswerTaken ==
    ASSUME Inv, NEW c \in Calls, NEW r \in Outcomes(c)
    PROVE  /\ Taken(r) \in {0, 1} /\ Awaited(c, Taken(r))
           /\ Reads(outbox, Unread(r), Taken(r)) /\ Unread(r) \in Seq(Answers)
           /\ r \in Answers
           /\ r.ok => Taken(r) = 1 /\ 1 \in DOMAIN outbox /\ r = outbox[1] /\ r.tag = at[c]
<1>1. TypeOK
  BY DEF Inv
<1>2. r # NoAnswer => 1 \in DOMAIN outbox
  BY DEF Outcomes
<1>3. Taken(r) = IF r = NoAnswer THEN 0 ELSE 1
  BY DEF Taken
<1>4. r \in Answers
  BY <1>1, OutcomeTyped
<1> QED BY <1>1, <1>2, <1>3, <1>4, UnreadReads DEF Awaited

(* Updates of the snapshot that give no lock of an exit away. *)
Signed(t) == Shows(t) /\ (snap.exiting => t.exiting)
SignKept(t) == (Shows(snap) => Shows(t)) /\ (snap.exiting => t.exiting)

LEMMA AcceptedSigns ==
    ASSUME Inv
    PROVE  /\ Consistent(Accepted) /\ SignKept(Accepted)
           /\ \A b \in BOOLEAN :
                /\ SignKept(Governed(Accepted, WithAudio(Accepted, b), {"audio"}))
                /\ SignKept(Governed(snap, WithAudio(snap, b), {"audio"}))
<1>1. Consistent(snap)
  BY Snap
<1>2. Consistent(Accepted)
  BY AcceptedMoves DEF Moves
<1>3. \A s : Consistent(s) => \A b \in BOOLEAN :
        LET t == Governed(s, WithAudio(s, b), {"audio"})
        IN (Shows(s) => Shows(t)) /\ (s.exiting => t.exiting)
  BY AudioSigns
<1>4. SignKept(Accepted)
  BY <1>1, <1>3 DEF SignKept, Accepted
<1> QED BY <1>1, <1>2, <1>3, <1>4 DEF SignKept

LEMMA SettlesSigned ==
    ASSUME Inv, NEW c \in Calls, NEW p \in Patches, p.session # NoState,
           p.exam \/ p.session = Running, NEW r, Settles(c, p, r)
    PROVE  Signed(snap')
<1> DEFINE settled == Governed(snap, WithAudio(Patched(snap, p), TRUE), {})
<1>1. snap \in Snapshots /\ Consistent(snap)
  BY Snap
<1>2. Moves(snap, settled)
  BY <1>1, PatchMoves DEF Inv
<1>3. Consistent(settled) /\ settled \in Snapshots
  BY <1>2 DEF Moves, Consistent
<1>4. snap.exiting => settled.exiting
  BY <1>1, GovernedSigns
<1>5. snap' = Governed(settled, WithAudio(Patched(settled, p), TRUE), {"audio"})
  BY DEF Settles
<1> HIDE DEF settled
<1>6. Shows(WithAudio(Patched(settled, p), TRUE))
  BY <1>3, PatchSigns
<1>7. Shows(snap') /\ (settled.exiting => snap'.exiting)
  BY <1>3, <1>5, <1>6, GovernedSigns
<1> QED BY <1>4, <1>7 DEF Signed

(* An answer that counts brings no sign of a kiosk away, if it comes from one. *)
LEMMA ReportKeepsSign ==
    ASSUME Inv, NEW r \in Answers, NEW b \in BOOLEAN, 1 \in DOMAIN outbox, r = outbox[1]
    PROVE  /\ OnlyFromKiosk => Shows(Governed(snap, Reported(snap, r), {}))
           /\ OnlyFromKiosk => Shows(Governed(snap, [Reported(snap, r) EXCEPT !.kiosk = b], {}))
           /\ snap.exiting => Governed(snap, Reported(snap, r), {}).exiting
           /\ snap.exiting => Governed(snap, [Reported(snap, r) EXCEPT !.kiosk = b], {}).exiting
<1>1. snap \in Snapshots /\ Consistent(snap)
  BY Snap
<1>2. OnlyFromKiosk => r.kiosk
  BY DEF OnlyFromKiosk, FromKiosk
<1> QED BY <1>1, <1>2, ReportSigns, GovernedSigns

LEMMA PatchOthers ==
    ASSUME Inv, NEW c \in Calls, NEW p, patch' = [patch EXCEPT ![c] = p]
    PROVE  patch'[c] = p /\ \A b \in Calls : b # c => patch'[b] = patch[b]
BY DEF Inv, TypeOK

(* The steps of a call that leave the snapshot and the cleanup timer alone. *)
LEMMA PlainLeaves ==
    ASSUME Inv, KInv, NEW c \in Calls, NEW step, NEW k,
           UNCHANGED <<snap, connected, coreVars, shellVars, timerVars>>,
           at[c] # "exit", \A b \in Calls : b # c => patch'[b] = patch[b],
           at[c] \in Notifying => step \in Notifying,
           at[c] = "enter" => step \in RestoreRequests \/ (k = 1 /\ step \in Notifying),
           step \in Notifying => patch'[c].exam
    PROVE  Leaves(c, step, k)
BY DEF Leaves, CoreLeft, coreVars, shellVars, timerVars

LEMMA StartTraced ==
    ASSUME Inv, KInv, QueuesTyped, NEW c \in Calls, NEW r \in Outcomes(c),
           \/ StartRefused(c, r) \/ DryStarted(c, r) \/ StartAccepted(c, r)
           \/ StartThrows(c, r) \/ EnterRefused(c, r) \/ RolledBack(c, r) \/ Abandoned(c, r)
    PROVE  KInv'
<1> DEFINE k == Taken(r)
<1>1. /\ k \in {0, 1} /\ Awaited(c, k)
      /\ Reads(outbox, Unread(r), k) /\ Unread(r) \in Seq(Answers) /\ r \in Answers
      /\ r.ok => k = 1 /\ 1 \in DOMAIN outbox /\ r = outbox[1] /\ r.tag = at[c]
  BY AnswerTaken
<1> HIDE DEF k
<1>2. Done(c) => GoesTo(c, "done") /\ \A b \in Calls : b # c => patch'[b] = patch[b]
  BY PatchOthers DEF Done
<1>3. snap \in Snapshots /\ Consistent(snap)
  BY Snap
<1>4. "done" \notin Notifying /\ "enter" \notin Notifying /\ "abandon" \notin Notifying
      /\ "rollback" \notin Notifying /\ {"enter", "abandon", "rollback"} \subseteq Requests
      /\ {"abandon", "rollback"} \subseteq RestoreRequests
  BY DEF Notifying, Requests, RestoreRequests
<1>5. CASE StartRefused(c, r)
  <2>1. Leaves(c, "done", k)
    BY <1>2, <1>4, <1>5, PlainLeaves DEF StartRefused, Notifying
  <2> QED BY <1>1, <1>2, <1>5, <2>1, SilentTraced DEF StartRefused
<1>6. CASE DryStarted(c, r)
  <2>1. r.session = Running
    BY <1>1, <1>6 DEF DryStarted, KInv, AnswersRight
  <2>2. Consistent(Accepted) /\ Accepted \in Snapshots /\ SignKept(Accepted)
    BY AcceptedSigns DEF Consistent
  <2>3. Shows(WithAudio(Reported(Accepted, r), TRUE))
    BY <2>1, <2>2, ReportSigns
  <2>4. Signed(snap')
    BY <1>6, <2>2, <2>3, GovernedSigns DEF DryStarted, SignKept, Signed
  <2>5. Leaves(c, "done", k)
    BY <1>2, <1>6, <2>4
       DEF DryStarted, Leaves, CoreLeft, coreVars, shellVars, timerVars, Signed, Notifying
  <2> QED BY <1>1, <1>2, <1>6, <2>5, SilentTraced DEF DryStarted
<1>7. CASE StartAccepted(c, r)
  <2>1. SignKept(snap') /\ \A b \in Calls : b # c => patch'[b] = patch[b]
    BY <1>7, AcceptedSigns, PatchOthers DEF StartAccepted
  <2>2. Leaves(c, "enter", k)
    BY <1>7, <2>1
       DEF StartAccepted, Leaves, CoreLeft, coreVars, shellVars, timerVars, SignKept, Notifying
  <2> QED BY <1>1, <1>4, <1>7, <2>2, SendTraced DEF StartAccepted
<1>8. CASE StartThrows(c, r)
  <2>1. SignKept(snap') /\ \A b \in Calls : b # c => patch'[b] = patch[b]
    BY <1>8, AcceptedSigns, PatchOthers DEF StartThrows
  <2>2. Leaves(c, "abandon", k)
    BY <1>4, <1>8, <2>1
       DEF StartThrows, Leaves, CoreLeft, coreVars, shellVars, timerVars, SignKept, Notifying
  <2> QED BY <1>1, <1>4, <1>8, <2>2, SendTraced DEF StartThrows
<1>9. CASE EnterRefused(c, r)
  <2>1. Leaves(c, "rollback", k)
    BY <1>4, <1>9, PlainLeaves DEF EnterRefused, Notifying
  <2> QED BY <1>1, <1>4, <1>9, <2>1, SendTraced DEF EnterRefused
<1>10. CASE RolledBack(c, r)
  <2>1. snap.exiting => snap'.exiting
    BY <1>3, <1>10, GovernedSigns DEF RolledBack
  <2>2. Leaves(c, "done", k)
    BY <1>2, <1>4, <1>10, <2>1
       DEF RolledBack, Leaves, CoreLeft, coreVars, shellVars, timerVars, Notifying
  <2> QED BY <1>1, <1>2, <1>10, <2>2, SilentTraced DEF RolledBack
<1>11. CASE Abandoned(c, r)
  <2>1. Leaves(c, "done", k)
    BY <1>2, <1>4, <1>11, PlainLeaves DEF Abandoned, Notifying
  <2> QED BY <1>1, <1>2, <1>11, <2>1, SilentTraced DEF Abandoned
<1> QED BY <1>5, <1>6, <1>7, <1>8, <1>9, <1>10, <1>11

LEMMA GuardedPatch ==
    ASSUME Inv, NEW c \in Calls, NEW r, Guarded(c, r)
    PROVE  patch'[c].exam /\ \A b \in Calls : b # c => patch'[b] = patch[b]
<1> DEFINE p == [session |-> r.session, kiosk |-> window, exam |-> TRUE]
<1>1. patch' = [patch EXCEPT ![c] = p]
  BY DEF Guarded
<1>2. p.exam
  OBVIOUS
<1> HIDE DEF p
<1> QED BY <1>1, <1>2, PatchOthers

LEMMA HandoffTraced ==
    ASSUME Inv, KInv, QueuesTyped, NEW c \in Calls, NEW r \in Outcomes(c),
           \/ KioskEntered(c, r) \/ DemoEntered(c, r) \/ DemoConfirmed(c)
           \/ HandoffConfirmed(c, r) \/ HandoffFailed(c, r) \/ HandoffRetried(c)
           \/ HandoffGivenUp(c, r)
    PROVE  KInv'
<1> DEFINE k == Taken(r)
<1>1. /\ k \in {0, 1} /\ Awaited(c, k)
      /\ Reads(outbox, Unread(r), k) /\ Unread(r) \in Seq(Answers) /\ r \in Answers
      /\ r.ok => k = 1 /\ 1 \in DOMAIN outbox /\ r = outbox[1] /\ r.tag = at[c]
  BY AnswerTaken
<1> HIDE DEF k
<1>2. Done(c) => GoesTo(c, "done") /\ \A b \in Calls : b # c => patch'[b] = patch[b]
  BY PatchOthers DEF Done
<1>3. snap \in Snapshots /\ Consistent(snap)
  BY Snap
<1>4. {"notify1", "notify2"} \subseteq Requests /\ Notifying = {"notify1", "retry", "notify2"}
  BY DEF Notifying, Requests
<1>5. Reads(outbox, outbox, 0) /\ Awaited(c, 0) /\ outbox \in Seq(Answers)
  BY NothingRead DEF Inv, TypeOK, Awaited
<1>6. CASE KioskEntered(c, r)
  <2>1. /\ patch'[c].exam /\ \A b \in Calls : b # c => patch'[b] = patch[b]
        /\ at[c] = "enter" /\ r.ok
    BY <1>6, GuardedPatch DEF KioskEntered, Guarded
  <2>2. Leaves(c, "notify1", k)
    BY <1>1, <1>4, <1>6, <2>1, PlainLeaves DEF KioskEntered
  <2> QED BY <1>1, <1>4, <1>6, <2>1, <2>2, SendTraced DEF KioskEntered
<1>7. CASE DemoEntered(c, r)
  <2>1. /\ patch'[c].exam /\ \A b \in Calls : b # c => patch'[b] = patch[b]
        /\ at[c] = "enter" /\ r.ok
    BY <1>7, GuardedPatch DEF DemoEntered, Guarded
  <2> DEFINE p == [patch'[c] EXCEPT !.session = "ENTERING_KIOSK"]
  <2>2. p.exam
    BY <1>7, <2>1, PatchOthers DEF DemoEntered, Guarded
  <2>3. snap' = Governed(snap, WithAudio(Patched(snap, p), TRUE), {"audio"})
    BY <1>7 DEF DemoEntered
  <2> HIDE DEF p
  <2>4. Shows(WithAudio(Patched(snap, p), TRUE))
    BY <1>3, <2>2, PatchSigns
  <2>5. Signed(snap')
    BY <1>3, <2>3, <2>4, GovernedSigns DEF Signed
  <2>6. Leaves(c, "confirm", k)
    BY <1>1, <1>4, <1>7, <2>1, <2>5
       DEF DemoEntered, Leaves, CoreLeft, coreVars, shellVars, timerVars, Signed
  <2> QED BY <1>1, <1>7, <2>1, <2>6, SilentTraced DEF DemoEntered
<1>8. CASE DemoConfirmed(c)
  <2>1. DemoPatch.exam
    BY DEF DemoPatch
  <2>2. Shows(WithAudio(Patched(snap, DemoPatch), TRUE))
    BY <1>3, <2>1, PatchSigns
  <2>3. Signed(snap')
    BY <1>3, <1>8, <2>2, GovernedSigns DEF DemoConfirmed, Signed
  <2>4. Leaves(c, "done", 0)
    BY <1>2, <1>4, <1>8, <2>3
       DEF DemoConfirmed, Leaves, CoreLeft, coreVars, shellVars, timerVars, Signed
  <2>5. KeepMonitor(inbox, outbox)
    BY <1>8 DEF DemoConfirmed, KeepMonitor
  <2> QED BY <1>2, <1>5, <1>8, <2>4, <2>5, SilentTraced DEF DemoConfirmed
<1>9. ASSUME NEW p \in Patches, p.session # NoState, p.exam \/ p.session = Running,
             Settles(c, p, r), at[c] \in {"notify1", "notify2"}
      PROVE  KInv'
  <2>1. Signed(snap')
    BY <1>9, SettlesSigned
  <2>2. Leaves(c, "done", k)
    BY <1>2, <1>4, <1>9, <2>1
       DEF Settles, Leaves, CoreLeft, coreVars, shellVars, timerVars, Signed
  <2>3. \E s : StartMonitor(s, inbox, Unread(r))
    BY <1>9 DEF Settles
  <2>4. Done(c)
    BY <1>9 DEF Settles
  <2> QED BY <1>1, <1>2, <1>9, <2>2, <2>3, <2>4, SilentTraced
<1>10. CASE HandoffConfirmed(c, r)
  <2> DEFINE p == [session |-> r.session, kiosk |-> r.kiosk, exam |-> r.kiosk]
  <2>1. p \in Patches
    BY <1>1 DEF Answers, Patches
  <2>2. r.session = Running
    BY <1>1, <1>10 DEF HandoffConfirmed, KInv, AnswersRight
  <2>3. p.session = Running /\ p.session # NoState
    BY <2>2 DEF Running, NoState
  <2>4. Settles(c, p, r) /\ at[c] \in {"notify1", "notify2"}
    BY <1>10 DEF HandoffConfirmed
  <2> QED BY <1>9, <2>1, <2>3, <2>4
<1>11. CASE HandoffFailed(c, r)
  <2>1. patch'[c].exam
    BY <1>4, <1>11 DEF HandoffFailed, KInv, PatchShows
  <2>2. Leaves(c, "retry", k)
    BY <1>4, <1>11, <2>1, PlainLeaves DEF HandoffFailed
  <2> QED BY <1>1, <1>11, <2>2, SilentTraced DEF HandoffFailed
<1>12. CASE HandoffRetried(c)
  <2>1. patch'[c].exam
    BY <1>4, <1>12 DEF HandoffRetried, KInv, PatchShows
  <2>2. Leaves(c, "notify2", 0)
    BY <1>4, <1>12, <2>1, PlainLeaves DEF HandoffRetried
  <2> QED BY <1>4, <1>5, <1>12, <2>2, SendTraced DEF HandoffRetried
<1>13. CASE HandoffGivenUp(c, r)
  <2>1. patch[c] \in Patches /\ patch[c].session # NoState
    BY <1>13 DEF HandoffGivenUp, Inv, TypeOK, PatchKept
  <2>2. patch[c].exam
    BY <1>4, <1>13 DEF HandoffGivenUp, KInv, PatchShows
  <2> QED BY <1>9, <1>13, <2>1, <2>2 DEF HandoffGivenUp
<1> QED BY <1>6, <1>7, <1>8, <1>10, <1>11, <1>12, <1>13

LEMMA ExitTraced ==
    ASSUME Inv, KInv, QueuesTyped, NEW c \in Calls, NEW r \in Outcomes(c),
           \/ ExitAcknowledged(c, r) \/ ExitUnacknowledged(c, r)
           \/ RestoreAcknowledged(c, r) \/ RestoreFailed(c, r)
    PROVE  KInv'
<1> DEFINE k == Taken(r)
<1>1. /\ k \in {0, 1} /\ Awaited(c, k)
      /\ Reads(outbox, Unread(r), k) /\ Unread(r) \in Seq(Answers)
  BY AnswerTaken
<1> HIDE DEF k
<1>2. Done(c) => GoesTo(c, "done") /\ \A b \in Calls : b # c => patch'[b] = patch[b]
  BY PatchOthers DEF Done
<1>3. snap \in Snapshots /\ Consistent(snap)
  BY Snap
<1>4. ASSUME Done(c), CoreLeft, reverted' = reverted, at[c] \in {"exit", "restore"},
             \/ ~cleanupTimer'
             \/ cleanupTimer' = cleanupTimer /\ at[c] # "exit" /\ (snap.exiting => snap'.exiting),
             KeepMonitor(inbox, Unread(r)) \/ StopMonitor(inbox, Unread(r))
      PROVE  KInv'
  <2>1. Leaves(c, "done", k)
    BY <1>2, <1>4 DEF Leaves, RestoreRequests, Notifying
  <2> QED BY <1>1, <1>2, <1>4, <2>1, SilentTraced
<1>5. CASE ExitAcknowledged(c, r)
  BY <1>4, <1>5 DEF ExitAcknowledged, CoreLeft, coreVars
<1>6. CASE ExitUnacknowledged(c, r)
  <2>1. CASE snap.exiting
    BY <1>4, <1>6, <2>1 DEF ExitUnacknowledged, ForceExitCleanup, CoreLeft, coreVars
  <2>2. CASE ~snap.exiting
    <3>1. ~cleanupTimer
      BY <2>2 DEF KInv, CleanupWaits
    <3> QED BY <1>4, <1>6, <2>2, <3>1
            DEF ExitUnacknowledged, CoreLeft, coreVars, shellVars, timerVars
  <2> QED BY <2>1, <2>2
<1>7. CASE RestoreAcknowledged(c, r)
  <2>1. Consistent(Exiting(snap)) /\ Exiting(snap).exiting
    BY <1>3, ExitSteps DEF Exiting, Governed
  <2>2. snap'.exiting
    BY <1>7, <2>1, GovernedSigns DEF RestoreAcknowledged
  <2> QED BY <1>4, <1>7, <2>2 DEF RestoreAcknowledged, CoreLeft, coreVars
<1>8. CASE RestoreFailed(c, r)
  BY <1>4, <1>8 DEF RestoreFailed, CoreLeft, coreVars, shellVars, timerVars
<1> QED BY <1>5, <1>6, <1>7, <1>8

LEMMA ReportTraced ==
    ASSUME Inv, KInv, QueuesTyped, NEW c \in Calls, NEW r \in Outcomes(c),
           StatusAnswered(c, r) \/ PollAnswered(c, r)
    PROVE  KInv'
<1> DEFINE k == Taken(r)
<1>1. /\ k \in {0, 1} /\ Awaited(c, k)
      /\ Reads(outbox, Unread(r), k) /\ Unread(r) \in Seq(Answers) /\ r \in Answers
      /\ r.ok => k = 1 /\ 1 \in DOMAIN outbox /\ r = outbox[1] /\ r.tag = at[c]
  BY AnswerTaken
<1> HIDE DEF k
<1>2. Done(c) => GoesTo(c, "done") /\ \A b \in Calls : b # c => patch'[b] = patch[b]
  BY PatchOthers DEF Done
<1>3. window \in BOOLEAN
  BY DEF Inv, TypeOK
<1>4. Done(c) /\ at[c] \in {"status", "poll"}
  BY DEF StatusAnswered, PollAnswered
<1>5. \/ snap' = snap
      \/ r.ok /\ snap' = Governed(snap, Reported(snap, r), {})
      \/ r.ok /\ snap' = Governed(snap, [Reported(snap, r) EXCEPT !.kiosk = window], {})
  BY DEF StatusAnswered, PollAnswered
<1>6. (OnlyFromKiosk /\ Shows(snap) => Shows(snap')) /\ (snap.exiting => snap'.exiting)
  BY <1>1, <1>3, <1>5, ReportKeepsSign
<1>7. Leaves(c, "done", k)
  BY <1>2, <1>4, <1>6
     DEF StatusAnswered, PollAnswered, Leaves, CoreLeft, coreVars, shellVars, timerVars, Notifying
<1>8. KeepMonitor(inbox, Unread(r)) \/ StopMonitor(inbox, Unread(r))
        \/ \E s : StartMonitor(s, inbox, Unread(r))
  BY DEF StatusAnswered, PollAnswered
<1> QED BY <1>1, <1>2, <1>4, <1>7, <1>8, SilentTraced

LEMMA ContinueTraced ==
    ASSUME Inv, KInv, QueuesTyped, NEW c \in Calls, Continue(c)
    PROVE  KInv'
<1>1. SUFFICES ASSUME NEW r \in Outcomes(c),
                      \/ StartRefused(c, r) \/ DryStarted(c, r) \/ StartAccepted(c, r)
                      \/ StartThrows(c, r) \/ EnterRefused(c, r) \/ RolledBack(c, r)
                      \/ Abandoned(c, r) \/ KioskEntered(c, r) \/ DemoEntered(c, r)
                      \/ HandoffConfirmed(c, r) \/ HandoffFailed(c, r) \/ HandoffGivenUp(c, r)
                      \/ ExitAcknowledged(c, r) \/ ExitUnacknowledged(c, r)
                      \/ RestoreAcknowledged(c, r) \/ RestoreFailed(c, r)
                      \/ StatusAnswered(c, r) \/ PollAnswered(c, r)
                      \/ DemoConfirmed(c) \/ HandoffRetried(c)
               PROVE  KInv'
  BY DEF Continue, Outcomes
<1> QED BY <1>1, StartTraced, HandoffTraced, ExitTraced, ReportTraced

-----------------------------------------------------------------------------
(* The steps that are of no call. *)

LEMMA IdleTraced ==
    ASSUME Inv, KInv, QueuesTyped, NEW k \in {0, 1}, UNCHANGED <<at, patch>>,
           \A b \in Calls : ~Read(b, at[b], k),
           CoreLeft, Reads(outbox, outbox', k),
           Extends(inbox, inbox', {TickMessage}), ~connected => ~Grew,
           OnlyFromKiosk /\ Shows(snap) /\ ~reverted' =>
             Shows(snap') \/ \E b \in Calls : at[b] \in RestoreRequests,
           reverted => reverted',
           \/ ~cleanupTimer'
           \/ cleanupTimer' = cleanupTimer /\ (snap.exiting => snap'.exiting)
    PROVE  KInv'
<1>1. ShellTurn(k)
  BY IdleTurn DEF Inv
<1>2. SignLeft(k)
  BY DEF SignLeft
<1>3. CleanupWaits' /\ PatchShows'
  BY DEF KInv, CleanupWaits, PatchShows
<1> QED BY <1>1, <1>2, <1>3, TurnKept

(* The queues stay as they are, or only become of an old loop. *)
LEMMA QueuesLeft ==
    ASSUME Inv, \/ UNCHANGED <<inbox, outbox>>
                \/ inbox' = Outdated(inbox) /\ outbox' = Outdated(outbox)
    PROVE  /\ Extends(inbox, inbox', {TickMessage}) /\ Reads(outbox, outbox', 0)
           /\ ~connected => ~Grew
           /\ \A b \in Calls : ~Read(b, at[b], 0)
<1>1. inbox \in Seq(Messages) /\ outbox \in Seq(Answers) /\ Len(inbox) \in Nat
  BY DEF Inv, TypeOK
<1>2. Extends(inbox, inbox, {}) /\ Reads(outbox, outbox, 0)
  BY <1>1, NothingRead DEF Extends, AlikeTags
<1>3. /\ Extends(inbox, Outdated(inbox), {}) /\ Reads(outbox, Outdated(outbox), 0)
      /\ Len(Outdated(inbox)) = Len(inbox)
  BY <1>1, <1>2, OutdatedExtends, OutdatedReads, OutdatedAlike
<1>4. Extends(inbox, inbox', {}) /\ Reads(outbox, outbox', 0) /\ Len(inbox') = Len(inbox)
  BY <1>2, <1>3
<1>5. Extends(inbox, inbox', {TickMessage}) /\ ~Grew
  BY <1>1, <1>4 DEF Extends, Grew
<1> QED BY <1>4, <1>5 DEF Read

LEMMA ConfirmationTraced ==
    ASSUME Inv, KInv, QueuesTyped, BeginConfirmation \/ CancelConfirmation \/ DemoPoll
    PROVE  KInv'
<1>1. snap \in Snapshots /\ Consistent(snap)
  BY Snap
<1>2. /\ Extends(inbox, inbox', {TickMessage}) /\ Reads(outbox, outbox', 0)
      /\ ~connected => ~Grew
      /\ \A b \in Calls : ~Read(b, at[b], 0)
  BY QueuesLeft DEF BeginConfirmation, CancelConfirmation, DemoPoll
<1>3. CASE BeginConfirmation
  BY <1>2, <1>3, IdleTraced DEF BeginConfirmation, CoreLeft, coreVars, timerVars
<1>4. CASE CancelConfirmation
  <2> DEFINE previous == IF prior = NoState THEN snap.session ELSE prior
             p == [snap EXCEPT !.session = previous, !.exiting = FALSE]
  <2>1. snap' = Governed(snap, p, {"exit"})
    BY <1>4 DEF CancelConfirmation
  <2>2. ~reverted' => previous = snap.session
    BY <1>4 DEF CancelConfirmation
  <2>3. ~reverted' /\ Shows(snap) => Shows(p)
    BY <1>1, <2>2 DEF Shows, Snapshots
  <2> HIDE DEF p, previous
  <2>4. ~reverted' /\ Shows(snap) => Shows(snap')
    BY <1>1, <2>1, <2>3, GovernedSigns
  <2> QED BY <1>2, <1>4, <2>4, IdleTraced DEF CancelConfirmation, CoreLeft, coreVars
<1>5. CASE DemoPoll
  <2>1. DemoPatch.exam
    BY DEF DemoPatch
  <2>2. Shows(WithAudio(Patched(snap, DemoPatch), TRUE))
    BY <1>1, <2>1, PatchSigns
  <2>3. Signed(snap')
    BY <1>1, <1>5, <2>2, GovernedSigns DEF DemoPoll, Signed
  <2> QED BY <1>2, <1>5, <2>3, IdleTraced
          DEF DemoPoll, CoreLeft, coreVars, shellVars, timerVars, Signed
<1> QED BY <1>3, <1>4, <1>5

LEMMA TimersTraced ==
    ASSUME Inv, KInv, QueuesTyped, Timers
    PROVE  KInv'
<1>1. snap \in Snapshots /\ Consistent(snap)
  BY Snap
<1>2. inbox \in Seq(Messages) /\ outbox \in Seq(Answers) /\ Len(inbox) \in Nat
  BY DEF Inv, TypeOK
<1>3. \/ UNCHANGED <<inbox, outbox>>
      \/ inbox' = Outdated(inbox) /\ outbox' = Outdated(outbox)
      => /\ Extends(inbox, inbox', {TickMessage}) /\ Reads(outbox, outbox', 0)
         /\ ~connected => ~Grew
         /\ \A b \in Calls : ~Read(b, at[b], 0)
  BY QueuesLeft
<1>4. CASE ExitCleanupDue
  <2>1. \E b \in Calls : at[b] \in RestoreRequests
    BY <1>4 DEF ExitCleanupDue, KInv, CleanupWaits, RestoreRequests
  <2> QED BY <1>3, <1>4, <2>1, IdleTraced
          DEF ExitCleanupDue, ForceExitCleanup, StopMonitor, CoreLeft, coreVars, shellVars
<1>5. CASE ExitAudioDue
  <2>1. SignKept(snap')
    BY <1>5, AcceptedSigns DEF ExitAudioDue, SignKept
  <2> QED BY <1>3, <1>5, <2>1, IdleTraced
          DEF ExitAudioDue, CoreLeft, coreVars, shellVars, SignKept
<1>6. CASE Tick
  <2>1. TickMessage \in Messages
    BY DEF TickMessage, Messages
  <2>2. inbox' = Append(inbox, TickMessage) /\ connected /\ outbox' = outbox
    BY <1>6 DEF Tick, Sent, TickMessage
  <2>3. Extends(inbox, inbox', {TickMessage}) /\ Reads(outbox, outbox', 0)
    BY <1>2, <2>1, <2>2, SentExtends, NothingRead
  <2>4. \A b \in Calls : ~Read(b, at[b], 0)
    BY DEF Read
  <2> QED BY <1>6, <2>2, <2>3, <2>4, IdleTraced DEF Tick, CoreLeft, coreVars, shellVars, timerVars
<1>7. CASE TickFails
  BY <1>3, <1>7, IdleTraced DEF TickFails, CoreLeft, coreVars, shellVars, timerVars
<1>8. CASE TickAnswered \/ AnswerDropped
  <2> DEFINE r == outbox[1]
  <2>1. outbox # <<>> /\ Head(outbox) = r /\ 1 \in DOMAIN outbox /\ r \in Answers
    <3>1. outbox # <<>>
      BY <1>8 DEF TickAnswered, AnswerDropped
    <3>2. Len(outbox) \in Nat /\ Len(outbox) >= 1
      BY <1>2, <3>1
    <3>3. 1 \in DOMAIN outbox
      BY <1>2, <3>2
    <3> QED BY <1>2, <3>1, <3>3
  <2>2. outbox' = Tail(outbox) /\ inbox' = inbox
    BY <1>8 DEF TickAnswered, AnswerDropped
  <2>3. Reads(outbox, outbox', 1)
    BY <1>2, <2>1, <2>2, TailReads
  <2>4. Extends(inbox, inbox', {TickMessage}) /\ ~Grew
    BY <1>2, <2>2 DEF Extends, AlikeTags, Grew
  <2>5. ASSUME NEW b \in Calls, Read(b, at[b], 1)
        PROVE  FALSE
    <3>1. at[b] \in Waits \cup {"unused", "done"}
      BY DEF Inv, TypeOK
    <3>2. r.call = b /\ r.tag = at[b]
      BY <2>5 DEF Read
    <3>3. at[b] \notin {"tick", "old tick"}
      BY <3>1 DEF Waits, Requests, RestoreRequests
    <3> QED BY <1>8, <2>1, <3>2, <3>3 DEF TickAnswered, AnswerDropped
  <2>6. \/ snap' = snap
        \/ snap' = Governed(snap, Reported(snap, r), {})
    BY <1>8, <2>1 DEF TickAnswered, AnswerDropped
  <2>7. (OnlyFromKiosk /\ Shows(snap) => Shows(snap')) /\ (snap.exiting => snap'.exiting)
    BY <2>1, <2>6, ReportKeepsSign
  <2>8. /\ UNCHANGED <<at, patch, reverted, cleanupTimer>> /\ CoreLeft
    BY <1>8 DEF TickAnswered, AnswerDropped, CoreLeft, coreVars, shellVars, timerVars
  <2> QED BY <2>3, <2>4, <2>5, <2>7, <2>8, IdleTraced
<1> QED BY <1>4, <1>5, <1>6, <1>7, <1>8 DEF Timers

-----------------------------------------------------------------------------
(* The steps of the core. *)

Reply(m, after, ok) ==
    [call |-> m.call, tag |-> m.tag, ok |-> ok, session |-> after.session, kiosk |-> after.kiosk]

(* What the core may become with a request, and what it may answer. *)
CoreMay(m, after, ok) ==
    /\ after.kiosk =>
         /\ after.active \in Calls /\ after.session \in {"ENTERING_KIOSK", Running}
         /\ after.active = core.active
         /\ core.kiosk \/ (m.tag = "enter" /\ m.call = core.active)
    /\ \/ after.active = core.active
       \/ after.active = NoCall
       \/ m.tag \in {"start", "dry"} /\ after.active = m.call
    /\ m.tag \in RestoreRequests /\ ok => after = CoreIdle
    /\ ok /\ m.tag \in {"dry", "notify1", "notify2"} => after.session = Running

LEMMA CorePlaces ==
    ASSUME Inv, NEW m, NEW after, NEW ok, CoreDoes(m, after, ok)
    PROVE  /\ m = inbox[1] /\ 1 \in DOMAIN inbox
           /\ \A i \in DOMAIN inbox' :
                i \in Nat /\ i >= 1 /\ i + 1 \in DOMAIN inbox /\ inbox'[i] = inbox[i + 1]
           /\ \A i \in DOMAIN inbox :
                i = 1 \/ (i \in Nat /\ i > 1 /\ i - 1 \in DOMAIN inbox' /\ inbox'[i - 1] = inbox[i])
           /\ \A i \in DOMAIN outbox :
                i \in Nat /\ i < Len(outbox) + 1 /\ i \in DOMAIN outbox' /\ outbox'[i] = outbox[i]
           /\ \A i \in DOMAIN outbox' : i \in DOMAIN outbox \/ i = Len(outbox) + 1
           /\ Len(outbox) + 1 \in DOMAIN outbox' /\ Len(outbox) \in Nat
           /\ outbox'[Len(outbox) + 1] = Reply(m, after, ok)
<1>1. inbox \in Seq(Messages) /\ outbox \in Seq(Answers)
  BY DEF Inv, TypeOK
<1>2. inbox # <<>> /\ m = Head(inbox) /\ inbox' = Tail(inbox)
  BY DEF CoreDoes
<1>3. outbox' = Append(outbox, Reply(m, after, ok))
  BY DEF CoreDoes, Reply
<1>4. Len(inbox) \in Nat /\ Len(inbox) >= 1 /\ m = inbox[1] /\ 1 \in DOMAIN inbox
  BY <1>1, <1>2
<1>5. /\ DOMAIN inbox = 1 .. Len(inbox) /\ DOMAIN inbox' = 1 .. (Len(inbox) - 1)
      /\ \A i \in 1 .. (Len(inbox) - 1) : inbox'[i] = inbox[i + 1]
  BY <1>1, <1>2
<1>6. ASSUME NEW i \in DOMAIN inbox'
      PROVE  i \in Nat /\ i >= 1 /\ i + 1 \in DOMAIN inbox /\ inbox'[i] = inbox[i + 1]
  BY <1>4, <1>5
<1>7. ASSUME NEW i \in DOMAIN inbox, i # 1
      PROVE  i \in Nat /\ i > 1 /\ i - 1 \in DOMAIN inbox' /\ inbox'[i - 1] = inbox[i]
  <2>1. i \in Nat /\ i > 1 /\ i - 1 \in DOMAIN inbox' /\ i - 1 + 1 = i
    BY <1>4, <1>5, <1>7
  <2> QED BY <1>6, <2>1
<1>8. /\ Len(outbox) \in Nat /\ DOMAIN outbox = 1 .. Len(outbox)
      /\ DOMAIN outbox' = 1 .. (Len(outbox) + 1)
      /\ outbox'[Len(outbox) + 1] = Reply(m, after, ok)
      /\ \A i \in 1 .. Len(outbox) : outbox'[i] = outbox[i]
  BY <1>1, <1>3
<1>9. \A i \in DOMAIN outbox :
        i \in Nat /\ i < Len(outbox) + 1 /\ i \in DOMAIN outbox' /\ outbox'[i] = outbox[i]
  BY <1>8
<1>10. /\ \A i \in DOMAIN outbox' : i \in DOMAIN outbox \/ i = Len(outbox) + 1
       /\ Len(outbox) + 1 \in DOMAIN outbox'
  BY <1>8
<1> QED BY <1>4, <1>6, <1>7, <1>8, <1>9, <1>10

LEMMA CoreContents ==
    ASSUME Inv, NEW m, NEW after, NEW ok, CoreDoes(m, after, ok)
    PROVE  /\ \A c, tag :
                /\ In(inbox', c, tag) => In(inbox, c, tag)
                /\ In(inbox, c, tag) => In(inbox', c, tag) \/ (m.call = c /\ m.tag = tag)
                /\ In(outbox', c, tag) <=> In(outbox, c, tag) \/ (m.call = c /\ m.tag = tag)
                /\ m.call = c /\ m.tag = tag => In(inbox, c, tag)
           /\ RestoreIn(inbox) /\ m.tag \notin RestoreRequests => RestoreIn(inbox')
           /\ RestoreIn(outbox') => RestoreIn(outbox) \/ m.tag \in RestoreRequests
<1> DEFINE a == Reply(m, after, ok)
<1>1. a.call = m.call /\ a.tag = m.tag
  BY DEF Reply
<1> HIDE DEF a
<1>2. /\ m = inbox[1] /\ 1 \in DOMAIN inbox
      /\ \A i \in DOMAIN inbox' : i + 1 \in DOMAIN inbox /\ inbox'[i] = inbox[i + 1]
      /\ \A i \in DOMAIN inbox : i = 1 \/ (i - 1 \in DOMAIN inbox' /\ inbox'[i - 1] = inbox[i])
      /\ \A i \in DOMAIN outbox : i \in DOMAIN outbox' /\ outbox'[i] = outbox[i]
      /\ \A i \in DOMAIN outbox' : i \in DOMAIN outbox \/ i = Len(outbox) + 1
      /\ Len(outbox) + 1 \in DOMAIN outbox' /\ outbox'[Len(outbox) + 1] = a
  BY CorePlaces DEF a
<1>3. ASSUME NEW c, NEW tag
      PROVE  /\ In(inbox', c, tag) => In(inbox, c, tag)
             /\ In(inbox, c, tag) => In(inbox', c, tag) \/ (m.call = c /\ m.tag = tag)
             /\ m.call = c /\ m.tag = tag => In(inbox, c, tag)
  BY <1>2 DEF In
<1>4. ASSUME NEW c, NEW tag
      PROVE  In(outbox', c, tag) <=> In(outbox, c, tag) \/ (m.call = c /\ m.tag = tag)
  BY <1>1, <1>2 DEF In
<1>5. RestoreIn(inbox) /\ m.tag \notin RestoreRequests => RestoreIn(inbox')
  BY <1>2 DEF RestoreIn
<1>6. RestoreIn(outbox') => RestoreIn(outbox) \/ m.tag \in RestoreRequests
  BY <1>1, <1>2 DEF RestoreIn
<1> QED BY <1>3, <1>4, <1>5, <1>6

(* What a request may do to the core leaves what is known of the queues. *)
LEMMA CoreKeepsQueues ==
    ASSUME Inv, KInv, NEW m, NEW after, NEW ok \in BOOLEAN,
           CoreDoes(m, after, ok), CoreMay(m, after, ok)
    PROVE  CoreShape' /\ RestoreAsked' /\ SentOnce' /\ EnterFollowed' /\ AnswersRight'
<1>1. /\ core' = after /\ connected /\ alive
      /\ UNCHANGED <<snap, at, patch, reverted, cleanupTimer, connected, alive>>
  BY DEF CoreDoes, KInv, CoreShape, shellVars, timerVars
<1>2. CoreShape'
  <2>1. \A i \in DOMAIN inbox' : i + 1 \in DOMAIN inbox /\ inbox'[i] = inbox[i + 1]
    BY CorePlaces
  <2> QED BY <1>1, <2>1 DEF KInv, CoreShape, CoreMay
<1>3. RestoreAsked'
  BY <1>1, CoreContents DEF KInv, RestoreAsked
<1>4. SentOnce'
  <2> SUFFICES ASSUME NEW c \in Calls
               PROVE  /\ \A tag \in {"start", "enter"} :
                           /\ In(inbox', c, tag) => ~In(outbox', c, tag)
                           /\ at[c] = "unused" => ~In(inbox', c, tag) /\ ~In(outbox', c, tag)
                           /\ \A i, j \in DOMAIN inbox' :
                                /\ inbox'[i].call = c /\ inbox'[i].tag = tag
                                /\ inbox'[j].call = c /\ inbox'[j].tag = tag
                                => i = j
                      /\ at[c] = "start" => ~In(inbox', c, "enter") /\ ~In(outbox', c, "enter")
                      /\ In(inbox', c, "start") => ~In(inbox', c, "enter")
                      /\ at[c] \in {"unused", "start"} => ~In(inbox', c, "dry")
                      /\ In(inbox', c, "dry") =>
                           \A tag \in {"start", "enter"} :
                              ~In(inbox', c, tag) /\ ~In(outbox', c, tag)
    BY <1>1 DEF SentOnce, In
  <2>1. ASSUME NEW tag \in {"start", "enter"}, NEW i \in DOMAIN inbox', NEW j \in DOMAIN inbox',
               inbox'[i].call = c, inbox'[i].tag = tag,
               inbox'[j].call = c, inbox'[j].tag = tag
        PROVE  i = j
    <3>1. /\ i \in Nat /\ i + 1 \in DOMAIN inbox /\ inbox'[i] = inbox[i + 1]
          /\ j \in Nat /\ j + 1 \in DOMAIN inbox /\ inbox'[j] = inbox[j + 1]
      BY CorePlaces
    <3>2. i + 1 = j + 1
      BY <2>1, <3>1 DEF KInv, SentOnce
    <3> QED BY <3>1, <3>2
  <2>2. ASSUME NEW tag \in {"start", "enter"}, In(inbox', c, tag)
        PROVE  ~(m.call = c /\ m.tag = tag)
    <3>1. PICK i \in DOMAIN inbox' : inbox'[i].call = c /\ inbox'[i].tag = tag
      BY <2>2 DEF In
    <3>2. i \in Nat /\ i >= 1 /\ i + 1 \in DOMAIN inbox /\ inbox'[i] = inbox[i + 1]
      BY CorePlaces
    <3>3. m = inbox[1] /\ 1 \in DOMAIN inbox
      BY CorePlaces
    <3>4. m.call = c /\ m.tag = tag => i + 1 = 1
      BY <3>1, <3>2, <3>3 DEF KInv, SentOnce
    <3> QED BY <3>2, <3>4
  <2>3. \A tag \in {"start", "enter"} : In(inbox', c, tag) => ~In(outbox', c, tag)
    BY <2>2, CoreContents DEF KInv, SentOnce
  <2>4. \A tag \in {"start", "enter"} :
          at[c] = "unused" => ~In(inbox', c, tag) /\ ~In(outbox', c, tag)
    BY CoreContents DEF KInv, SentOnce
  <2>5. /\ at[c] = "start" => ~In(inbox', c, "enter") /\ ~In(outbox', c, "enter")
        /\ In(inbox', c, "start") => ~In(inbox', c, "enter")
        /\ at[c] \in {"unused", "start"} => ~In(inbox', c, "dry")
    BY CoreContents DEF KInv, SentOnce
  <2>6. In(inbox', c, "dry") =>
          \A tag \in {"start", "enter"} : ~In(inbox', c, tag) /\ ~In(outbox', c, tag)
    BY CoreContents DEF KInv, SentOnce
  <2> QED BY <2>1, <2>3, <2>4, <2>5, <2>6
<1>5. EnterFollowed'
  <2> SUFFICES ASSUME NEW i \in DOMAIN inbox', inbox'[i].tag = "enter", inbox'[i].call \in Calls
               PROVE  \/ at[inbox'[i].call] = "enter"
                      \/ \E j \in DOMAIN inbox' : j > i /\ inbox'[j].tag \in RestoreRequests
    BY <1>1 DEF EnterFollowed
  <2>1. i \in Nat /\ i >= 1 /\ i + 1 \in DOMAIN inbox /\ inbox'[i] = inbox[i + 1]
    BY CorePlaces
  <2>2. CASE \E j \in DOMAIN inbox : j > i + 1 /\ inbox[j].tag \in RestoreRequests
    <3>1. PICK j \in DOMAIN inbox : j > i + 1 /\ inbox[j].tag \in RestoreRequests
      BY <2>2
    <3>2. j # 1
      BY <2>1, <3>1
    <3>3. j \in Nat /\ j - 1 \in DOMAIN inbox' /\ inbox'[j - 1] = inbox[j]
      BY <3>2, CorePlaces
    <3>4. j - 1 > i
      BY <2>1, <3>1, <3>3
    <3> QED BY <3>1, <3>3, <3>4
  <2> QED BY <2>1, <2>2 DEF KInv, EnterFollowed
<1>6. AnswersRight'
  <2>1. /\ Reply(m, after, ok).ok = ok /\ Reply(m, after, ok).tag = m.tag
        /\ Reply(m, after, ok).session = after.session
    BY DEF Reply
  <2>2. ASSUME NEW i \in DOMAIN outbox', outbox'[i].ok,
               outbox'[i].tag \in {"dry", "notify1", "notify2"}
        PROVE  outbox'[i].session = Running
    BY <2>1, <2>2, CorePlaces DEF KInv, AnswersRight, CoreMay
  <2> QED BY <2>2 DEF AnswersRight
<1> QED BY <1>2, <1>3, <1>4, <1>5, <1>6

LEMMA CoreKeepsAnswers ==
    ASSUME Inv, KInv, NEW m, NEW after, NEW ok \in BOOLEAN,
           CoreDoes(m, after, ok), CoreMay(m, after, ok)
    PROVE  AnsweredSince' /\ RestoredFirst'
<1> DEFINE a == Reply(m, after, ok)
<1>1. core' = after
  BY DEF CoreDoes
<1>2. /\ a.call = m.call /\ a.tag = m.tag
      /\ after.kiosk => FromKiosk(a)
  BY DEF Reply, FromKiosk, CoreMay
<1> HIDE DEF a
<1>3. outbox'[Len(outbox) + 1] = a /\ Len(outbox) \in Nat
  BY CorePlaces DEF a
<1>4. ASSUME after.kiosk, NEW i \in DOMAIN outbox', NEW j \in DOMAIN outbox', i < j,
             outbox'[i].call = after.active, outbox'[i].tag = "enter"
      PROVE  FromKiosk(outbox'[j])
  <2>1. CASE j \notin DOMAIN outbox
    BY <1>2, <1>3, <1>4, <2>1, CorePlaces
  <2>2. CASE j \in DOMAIN outbox
    <3>1. i \in DOMAIN outbox
      <4>1. i # Len(outbox) + 1
        BY <1>3, <1>4, <2>2, CorePlaces
      <4> QED BY <4>1, CorePlaces
    <3>2. /\ outbox'[i] = outbox[i] /\ outbox'[j] = outbox[j]
      BY <2>2, <3>1, CorePlaces
    <3>3. after.active = core.active /\ core.active \in Calls
      BY <1>4 DEF CoreMay
    <3>4. ~(m.tag = "enter" /\ m.call = core.active)
      <4>1. In(outbox, core.active, "enter")
        BY <1>4, <3>1, <3>2, <3>3 DEF In
      <4>2. ~In(inbox, core.active, "enter")
        BY <3>3, <4>1 DEF KInv, SentOnce
      <4> QED BY <4>2, CoreContents
    <3>5. core.kiosk
      BY <1>4, <3>4 DEF CoreMay
    <3> QED BY <1>4, <2>2, <3>1, <3>2, <3>3, <3>5 DEF KInv, AnsweredSince
  <2> QED BY <2>1, <2>2
<1>5. AnsweredSince'
  BY <1>1, <1>4 DEF AnsweredSince, FromKiosk
<1>6. /\ m.tag \in RestoreRequests /\ ~refused' => ok
      /\ m.tag \notin RestoreRequests => refused' = refused
  BY DEF CoreDoes
<1>7. NoCall \notin Calls
  BY DEF NoCall, Calls
<1>8. CASE m.tag \in RestoreRequests
  <2>1. ~refused' => ~after.kiosk /\ after.active \notin Calls
    BY <1>6, <1>7, <1>8 DEF CoreMay, CoreIdle
  <2> QED BY <1>1, <1>5, <2>1 DEF RestoredFirst
<1>9. CASE m.tag \notin RestoreRequests
  <2>1. ASSUME ~refused, RestoreIn(outbox')
        PROVE  ~after.kiosk /\ (after.active \in Calls => ~In(inbox', after.active, "enter"))
    <3>1. RestoreIn(outbox)
      BY <1>9, <2>1, CoreContents
    <3>2. ~core.kiosk /\ (core.active \in Calls => ~In(inbox, core.active, "enter"))
      BY <2>1, <3>1 DEF KInv, RestoredFirst
    <3>3. ~after.kiosk
      BY <3>2, CoreContents DEF CoreMay
    <3>4. ASSUME after.active \in Calls, In(inbox', after.active, "enter")
          PROVE  FALSE
      <4>1. In(inbox, after.active, "enter")
        BY <3>4, CoreContents
      <4>2. m.tag \in {"start", "dry"} /\ after.active = m.call
        BY <1>7, <3>2, <3>4, <4>1 DEF CoreMay
      <4>3. In(inbox, after.active, m.tag)
        BY <4>2, CoreContents
      <4> QED BY <3>4, <4>1, <4>2, <4>3 DEF KInv, SentOnce
    <3> QED BY <3>3, <3>4
  <2>2. ASSUME ~refused, NEW i \in DOMAIN outbox', NEW j \in DOMAIN outbox', i < j,
               outbox'[i].call = after.active, after.active \in Calls, outbox'[i].tag = "start"
        PROVE  outbox'[j].tag \notin RestoreRequests
    <3>1. CASE j \notin DOMAIN outbox
      BY <1>2, <1>3, <1>9, <3>1, CorePlaces
    <3>2. CASE j \in DOMAIN outbox
      <4>1. i \in DOMAIN outbox
        <5>1. i # Len(outbox) + 1
          BY <1>3, <2>2, <3>2, CorePlaces
        <5> QED BY <5>1, CorePlaces
      <4>2. outbox'[i] = outbox[i] /\ outbox'[j] = outbox[j]
        BY <3>2, <4>1, CorePlaces
      <4>3. In(outbox, after.active, "start")
        BY <2>2, <4>1, <4>2 DEF In
      <4>4. ~(m.tag \in {"start", "dry"} /\ after.active = m.call)
        <5>1. ASSUME m.tag \in {"start", "dry"}, after.active = m.call
              PROVE  FALSE
          <6>1. In(inbox, after.active, m.tag)
            BY <5>1, CoreContents
          <6> QED BY <2>2, <4>3, <5>1, <6>1 DEF KInv, SentOnce
        <5> QED BY <5>1
      <4>5. after.active = core.active
        BY <1>7, <2>2, <4>4 DEF CoreMay
      <4> QED BY <2>2, <3>2, <4>1, <4>2, <4>5 DEF KInv, RestoredFirst
    <3> QED BY <3>1, <3>2
  <2> QED BY <1>1, <1>5, <1>6, <1>9, <2>1, <2>2 DEF RestoredFirst, RestoreIn, In
<1> QED BY <1>8, <1>9

LEMMA CoreKeepsTrace ==
    ASSUME Inv, KInv, NEW m, NEW after, NEW ok \in BOOLEAN,
           CoreDoes(m, after, ok), CoreMay(m, after, ok)
    PROVE  KioskTraced'
<1>1. core' = after /\ UNCHANGED <<snap, at, reverted>>
  BY DEF CoreDoes, shellVars
<1>2. /\ m.tag \in RestoreRequests /\ ~refused' => ok
      /\ m.tag \notin RestoreRequests => refused' = refused
  BY DEF CoreDoes
<1> SUFFICES ASSUME after.kiosk, ~refused'
             PROVE  \/ RestoreIn(inbox')
                    \/ at[after.active] = "enter"
                    \/ /\ OnlyFromKiosk'
                       /\ at[after.active] \in Notifying \/ reverted \/ Shows(snap)
  BY <1>1 DEF KioskTraced, OnlyFromKiosk, FromKiosk, RestoreIn, Shows
<1>3. m.tag \notin RestoreRequests /\ ~refused
  BY <1>2 DEF CoreMay, CoreIdle
<1>4. RestoreIn(inbox) => RestoreIn(inbox')
  BY <1>3, CoreContents
<1>5. after.active = core.active /\ core.active \in Calls
  BY DEF CoreMay
<1>6. FromKiosk(Reply(m, after, ok))
  BY DEF FromKiosk, Reply, CoreMay
<1>7. OnlyFromKiosk => OnlyFromKiosk'
  <2>1. ASSUME OnlyFromKiosk, NEW i \in DOMAIN outbox'
        PROVE  FromKiosk(outbox'[i])
    BY <1>6, <2>1, CorePlaces DEF OnlyFromKiosk
  <2> QED BY <2>1 DEF OnlyFromKiosk, FromKiosk
<1>8. CASE core.kiosk
  BY <1>3, <1>4, <1>5, <1>7, <1>8 DEF KInv, KioskTraced
<1>9. CASE m.tag = "enter" /\ m.call = core.active
  <2>1. m = inbox[1] /\ 1 \in DOMAIN inbox
    BY CorePlaces
  <2>2. at[core.active] = "enter" \/ \E j \in DOMAIN inbox : inbox[j].tag \in RestoreRequests
    BY <1>5, <1>9, <2>1 DEF KInv, EnterFollowed
  <2> QED BY <1>4, <1>5, <2>2 DEF RestoreIn
<1> QED BY <1>8, <1>9 DEF CoreMay

LEMMA CoreDoesTraced ==
    ASSUME Inv, KInv, NEW m, NEW after, NEW ok \in BOOLEAN,
           CoreDoes(m, after, ok), CoreMay(m, after, ok)
    PROVE  KInv'
<1>1. UNCHANGED <<snap, at, patch, cleanupTimer>>
  BY DEF CoreDoes, timerVars
<1>2. CleanupWaits' /\ PatchShows'
  BY <1>1 DEF KInv, CleanupWaits, PatchShows
<1> QED BY <1>2, CoreKeepsQueues, CoreKeepsAnswers, CoreKeepsTrace DEF KInv

LEMMA ServesTraced ==
    ASSUME Inv, KInv, NEW m \in {inbox[i] : i \in DOMAIN inbox \cap {1}}, Serves(m)
    PROVE  KInv'
<1>1. core \in [session : CoreStates, active : Calls \cup {NoCall}, kiosk : BOOLEAN]
  BY DEF Inv, TypeOK
<1>2. ~CoreIdle.kiosk /\ CoreIdle.active = NoCall
  BY DEF CoreIdle
<1>3. core.kiosk => core.active \in Calls /\ core.session \in {"ENTERING_KIOSK", Running}
  BY DEF KInv, CoreShape
<1>4. TRUE \in BOOLEAN /\ FALSE \in BOOLEAN
  OBVIOUS
<1>5. CASE CoreStarts(m)
  <2> DEFINE after == [session |-> IF m.tag = "dry" THEN Running ELSE "STARTING_EXAM_SESSION",
                       active |-> m.call, kiosk |-> FALSE]
  <2>1. CoreDoes(m, after, TRUE) /\ m.tag \in {"start", "dry"}
    BY <1>5 DEF CoreStarts
  <2>2. /\ ~after.kiosk /\ after.active = m.call /\ (m.tag = "dry" => after.session = Running)
    OBVIOUS
  <2> HIDE DEF after
  <2>3. CoreMay(m, after, TRUE)
    BY <2>1, <2>2 DEF CoreMay, RestoreRequests
  <2> QED BY <2>1, <2>3, CoreDoesTraced
<1>6. CASE CoreEntersKiosk(m)
  <2> DEFINE after == [core EXCEPT !.session = "ENTERING_KIOSK", !.kiosk = TRUE]
  <2>1. m.tag = "enter" /\ core.active = m.call
    BY <1>6 DEF CoreEntersKiosk
  <2>2. m.call \in Calls
    BY <2>1 DEF KInv, CoreShape, Requests
  <2>3. after.active = core.active /\ after.session = "ENTERING_KIOSK"
    BY <1>1
  <2> HIDE DEF after
  <2>4. CoreMay(m, after, TRUE)
    BY <2>1, <2>2, <2>3 DEF CoreMay, RestoreRequests
  <2>5. CoreMay(m, CoreIdle, FALSE)
    BY <1>2 DEF CoreMay
  <2>6. CoreDoes(m, after, TRUE) \/ CoreDoes(m, CoreIdle, FALSE)
    BY <1>6 DEF CoreEntersKiosk, after
  <2> QED BY <1>4, <2>4, <2>5, <2>6, CoreDoesTraced
<1>7. CASE CoreConfirms(m)
  <2> DEFINE after == [core EXCEPT !.session = Running]
  <2>1. after.active = core.active /\ after.session = Running /\ after.kiosk = core.kiosk
    BY <1>1
  <2>2. CoreDoes(m, after, TRUE) /\ m.tag \in {"notify1", "notify2"}
    BY <1>7 DEF CoreConfirms
  <2> HIDE DEF after
  <2>3. CoreMay(m, after, TRUE)
    BY <1>3, <2>1, <2>2 DEF CoreMay, RestoreRequests
  <2> QED BY <2>2, <2>3, CoreDoesTraced
<1>8. CASE CoreRestores(m)
  <2>1. CoreMay(m, CoreIdle, TRUE)
    BY <1>2, <1>8 DEF CoreRestores, CoreMay, RestoreRequests
  <2> QED BY <1>8, <2>1, CoreDoesTraced DEF CoreRestores
<1>9. CASE CoreReports(m)
  <2>1. CoreMay(m, core, TRUE)
    BY <1>3, <1>9 DEF CoreReports, CoreMay, RestoreRequests
  <2> QED BY <1>9, <2>1, CoreDoesTraced DEF CoreReports
<1>10. CASE CoreRefuses(m)
  <2>1. CoreMay(m, core, FALSE)
    BY <1>3 DEF CoreMay
  <2> QED BY <1>10, <2>1, CoreDoesTraced DEF CoreRefuses
<1> QED BY <1>5, <1>6, <1>7, <1>8, <1>9, <1>10 DEF Serves

LEMMA CoreTraced ==
    ASSUME Inv, KInv, Core
    PROVE  KInv'
<1>1. NoCall \notin Calls
  BY DEF NoCall, Calls
<1>2. CASE CoreDies
  <2>1. /\ core' = CoreIdle /\ ~alive' /\ alive
        /\ UNCHANGED <<snap, at, patch, reverted, cleanupTimer, connected, refused, inbox, outbox>>
    BY <1>2 DEF CoreDies, shellVars, timerVars
  <2>2. ~CoreIdle.kiosk /\ CoreIdle.active = NoCall
    BY DEF CoreIdle
  <2>3. CoreShape' /\ CleanupWaits' /\ PatchShows'
    BY <2>1, <2>2 DEF KInv, CoreShape, CleanupWaits, PatchShows
  <2>4. RestoreAsked' /\ SentOnce' /\ EnterFollowed' /\ AnswersRight'
    BY <2>1 DEF KInv, RestoreAsked, SentOnce, EnterFollowed, AnswersRight, In
  <2>5. AnsweredSince' /\ RestoredFirst' /\ KioskTraced'
    BY <1>1, <2>1, <2>2 DEF AnsweredSince, RestoredFirst, KioskTraced
  <2> QED BY <2>3, <2>4, <2>5 DEF KInv
<1>3. ASSUME NEW grace \in BOOLEAN, CoreExitSeen(grace)
      PROVE  KInv'
  <2>1. /\ inbox' = <<>> /\ outbox' = <<>> /\ ~connected' /\ ~alive
        /\ UNCHANGED <<at, patch, reverted, cleanupTimer, alive, core, refused>>
        /\ snap.exiting => snap' = snap
    BY <1>3 DEF CoreExitSeen, shellVars, timerVars, coreVars
  <2>2. core = CoreIdle /\ ~core.kiosk /\ core.active = NoCall
    BY <2>1 DEF KInv, CoreShape, CoreIdle
  <2>3. DOMAIN inbox' = {} /\ DOMAIN outbox' = {}
    BY <2>1
  <2>4. CoreShape' /\ CleanupWaits' /\ PatchShows'
    BY <2>1, <2>2, <2>3 DEF KInv, CoreShape, CleanupWaits, PatchShows
  <2>5. RestoreAsked' /\ SentOnce' /\ EnterFollowed' /\ AnswersRight'
    BY <2>1, <2>3 DEF RestoreAsked, SentOnce, EnterFollowed, AnswersRight, In
  <2>6. AnsweredSince' /\ RestoredFirst' /\ KioskTraced'
    BY <1>1, <2>1, <2>2, <2>3 DEF AnsweredSince, RestoredFirst, KioskTraced, RestoreIn
  <2> QED BY <2>4, <2>5, <2>6 DEF KInv
<1>4. ASSUME NEW m \in {inbox[i] : i \in DOMAIN inbox \cap {1}}, Serves(m)
      PROVE  KInv'
  BY <1>4, ServesTraced
<1> QED BY <1>2, <1>3, <1>4 DEF Core, Serves

LEMMA KInvInit == Init => KInv
<1> SUFFICES ASSUME Init PROVE KInv
  OBVIOUS
<1>1. /\ core = CoreIdle /\ ~CoreIdle.kiosk /\ connected /\ alive /\ ~cleanupTimer
      /\ DOMAIN inbox = {} /\ DOMAIN outbox = {}
      /\ \A c \in Calls : at[c] = "unused"
  BY DEF Init, CoreIdle
<1> QED BY <1>1 DEF KInv, CoreShape, CleanupWaits, RestoreAsked, SentOnce, EnterFollowed,
                    AnsweredSince, RestoredFirst, AnswersRight, PatchShows, KioskTraced,
                    In, RestoreIn, RestoreRequests, Notifying

LEMMA KInvNext == Inv /\ KInv /\ [Next]_vars => KInv'
<1> SUFFICES ASSUME Inv, KInv, [Next]_vars PROVE KInv'
  OBVIOUS
<1>1. CASE Next
  <2>1. QueuesTyped
    BY <1>1, NextQueues
  <2> QED BY <1>1, <2>1, CallTraced, ContinueTraced, ConfirmationTraced, TimersTraced, CoreTraced
          DEF Next
<1>2. CASE UNCHANGED vars
  BY <1>2 DEF vars, shellVars, timerVars, coreVars, KInv, CoreShape, CleanupWaits, RestoreAsked,
              SentOnce, EnterFollowed, AnsweredSince, RestoredFirst, AnswersRight, PatchShows,
              KioskTraced, OnlyFromKiosk, FromKiosk, Shows, In, RestoreIn
<1> QED BY <1>1, <1>2

LEMMA KioskInvariance == Spec => [](Inv /\ KInv)
<1>1. Init => Inv /\ KInv
  BY InvInit, KInvInit
<1>2. Inv /\ KInv /\ [Next]_vars => (Inv /\ KInv)'
  BY InvNext, KInvNext
<1> QED BY <1>1, <1>2, PTL DEF Spec

(***************************************************************************)
(* A kiosk that a core holds, with all that was asked served and answered, *)
(* is one the shell shows signs of, unless the core refused a restore or a *)
(* cancelled exit dialog undid them.                                       *)
(***************************************************************************)
THEOREM KioskIsKnown == Spec => []KioskKnown
<1>1. KInv => KioskKnown
  <2> SUFFICES ASSUME KInv, Settled, core.kiosk, ~refused, ~reverted
               PROVE  Shows(snap)
    BY DEF KioskKnown, Shows
  <2>1. core.active \in Calls
    BY DEF KInv, CoreShape
  <2>2. at[core.active] \notin Notifying \cup {"enter"}
    BY <2>1 DEF Settled, Notifying
  <2>3. ~RestoreIn(inbox)
    BY DEF Settled, RestoreIn
  <2> QED BY <2>2, <2>3 DEF KInv, KioskTraced
<1> QED BY <1>1, KioskInvariance, PTL
=============================================================================

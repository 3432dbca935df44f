----------------------------- MODULE Supervisor -----------------------------
(***************************************************************************)
(* The bootstrapper (bootstrapper/src/main.rs): it launches Electron onto  *)
(* the exam desktop inside a job object, polls the widget files, the exit  *)
(* of the child and its heartbeat, and, whatever ends the poll loop, kills *)
(* the job, gives the desktop back and runs `rust-core --emergency-restore`.*)
(*                                                                         *)
(* One action per stage of a poll, because Electron, the sidecar it spawns *)
(* and the widget thread run between any two of them.  Time passes only    *)
(* while the loop sleeps, in ticks of MONITOR_INTERVAL_MS.                 *)
(***************************************************************************)
EXTENDS Integers, Sequences, SequencesExt

CONSTANTS
  HeartbeatTimeout,  \* heartbeat_timeout_ms, in ticks
  StartupGrace,      \* startup_grace_ms, in ticks
  Patience,          \* the 2,500 ms a completed hold waits for the core
  Backoff,           \* RESTART_BACKOFF_MS, in ticks
  WriteInterval,     \* DEFAULT_HEARTBEAT_INTERVAL_MS, in ticks
  HoldTime,          \* requireHoldMs of the policy, in ticks
  RestartMax,        \* --electron-restart-max
  Isolated,          \* --desktop-isolation, with the desktop switch
  Punctual,          \* TRUE: a running Electron never misses a heartbeat
  MaxSequence,       \* bound: heartbeats one child writes
  MaxEvents          \* bound: widget events between two polls

ASSUME SupervisorAssumption ==
  /\ {HeartbeatTimeout, StartupGrace, Patience, Backoff, WriteInterval, HoldTime,
      MaxSequence, MaxEvents} \subseteq Nat \ {0}
  /\ RestartMax \in Nat
  /\ Backoff <= HeartbeatTimeout
  /\ HeartbeatTimeout <= StartupGrace
  /\ Isolated \in BOOLEAN
  /\ Punctual \in BOOLEAN

Pids == 1..(RestartMax + 1)
NoBeat == [pid |-> 0, sequence |-> 0]
Beats == {NoBeat} \cup [pid : Pids, sequence : 1..MaxSequence]
NotPending == -1
NotHolding == -1

Interactions == {"holdStarted", "holdCancelled", "restoreRequested"}
NoInteraction == "none"

Looping == {"widgets", "request", "exit", "judge", "sleep"}
Recovering == {"terminate", "desktop", "restore", "cleanup"}
Stages == {"launch", "aborted", "done"} \cup Looping \cup Recovering
Outcomes == {"none", "exited", "requested", "fallback", "stale", "invalid", "error"}

VARIABLES
  pc,           \* stage of run()
  nap,          \* ticks the loop still sleeps
  outcome,      \* why the loop ended
  child,        \* Electron: unborn, running, hung, stopped (heartbeat ended) or exited
  code,         \* its exit code, 0 or not
  pid,          \* the child under supervision: 1 for the first, + 1 per relaunch
  uptime,       \* ticks since the launch, counted up to the end of the grace
  written,      \* sequence of the child's last heartbeat
  beat,         \* the heartbeat file
  beatAge,      \* ticks since it was written
  lastHealthy,  \* last_healthy_sequence, 0 for None
  cores,        \* the living sidecars, by the child that spawned them
  guarded,      \* a guard of some sidecar is in place on the machine
  desktop,      \* the input desktop
  helper,       \* what --emergency-restore did
  stateFile,    \* the widget state file the core writes
  shown,        \* last_widget_state: the widget has an id
  holdAge,      \* the press under way on the widget
  events,       \* events of the widget thread not yet drained
  eventFile,    \* the interaction file the core takes
  request,      \* the restore request file is there
  pending,      \* ticks since widget_restore_pending_since_ms
  waiting,      \* history: ticks since the first completed hold of the run
  restarted     \* history: a later hold has restarted the clock of that one

loopVars   == <<pc, nap, outcome>>
childVars  == <<child, code, pid, uptime>>
beatVars   == <<written, beat, beatAge, lastHealthy>>
coreVars   == <<cores, guarded>>
endVars    == <<desktop, helper>>
widgetVars == <<stateFile, shown, holdAge, events>>
askVars    == <<eventFile, request, pending, waiting, restarted>>
vars == <<loopVars, childVars, beatVars, coreVars, endVars, widgetVars, askVars>>

Init ==
  /\ pc = "launch" /\ nap = 0 /\ outcome = "none"
  /\ child = "unborn" /\ code = 0 /\ pid = 1 /\ uptime = 0
  /\ written = 0 /\ beat = NoBeat /\ beatAge = 0 /\ lastHealthy = 0
  /\ cores = {} /\ guarded = FALSE
  /\ desktop = "default" /\ helper = "none"
  /\ stateFile = "absent" /\ shown = FALSE /\ holdAge = NotHolding /\ events = <<>>
  /\ eventFile = NoInteraction /\ request = FALSE
  /\ pending = NotPending /\ waiting = NotPending /\ restarted = FALSE

Alive == child \in {"running", "hung", "stopped"}

-----------------------------------------------------------------------------
(* Before the loop.                                                        *)

\* Electron is launched, assigned to the job, and the desktop switched.
Launch ==
  /\ pc = "launch"
  /\ pc' = "widgets"
  /\ child' = "running"
  /\ desktop' = IF Isolated THEN "exam" ELSE "default"
  /\ UNCHANGED <<nap, outcome, code, pid, uptime, beatVars, coreVars, helper, widgetVars, askVars>>

\* One of the three fails: the child, if any, is killed, the desktop session
\* restored, and run() returns the error without an emergency restore.
LaunchFails ==
  /\ pc = "launch"
  /\ pc' = "aborted"
  /\ child' = "exited"
  /\ UNCHANGED <<nap, outcome, code, pid, uptime, beatVars, coreVars, endVars, widgetVars, askVars>>

-----------------------------------------------------------------------------
(* One poll of the loop.                                                   *)

\* Mutant: Electron is killed, not its job.
TerminateElectronOnly ==
  /\ child' = IF Alive THEN "exited" ELSE child
  /\ code' = IF Alive THEN 222 ELSE code
  /\ UNCHANGED <<pid, uptime, cores, guarded>>

\* TerminateJobObject, then child.wait().
TerminateJob ==
  /\ child' = IF Alive THEN "exited" ELSE child
  /\ code' = IF Alive THEN 222 ELSE code
  /\ cores' = {}
  /\ UNCHANGED <<pid, uptime, guarded>>

\* break 222
BreakLoop(why) ==
  /\ TerminateJob
  /\ pc' = "terminate"
  /\ outcome' = why

\* The state file is read, then the widget events are drained: an event of a
\* widget without an id is dropped, each other one overwrites the interaction
\* file, and a completed hold starts, or restarts, the clock of the fallback.
PollWidget ==
  /\ pc = "widgets"
  /\ pc' = "request"
  /\ shown' = IF stateFile = "absent" THEN shown ELSE stateFile = "shown"
  /\ events' = <<>>
  /\ eventFile' = IF shown' /\ events # <<>> THEN Last(events) ELSE eventFile
  /\ LET completed == shown' /\ Contains(events, "restoreRequested")
     IN  /\ pending' = IF completed THEN 0 ELSE pending
         /\ waiting' = IF completed /\ waiting = NotPending THEN 0 ELSE waiting
         /\ restarted' = (restarted \/ (completed /\ waiting # NotPending))
  /\ UNCHANGED <<nap, outcome, childVars, beatVars, coreVars, endVars, stateFile, holdAge, request>>

\* A control file that cannot be read or parsed ends the loop.
ControlFileFails ==
  /\ pc \in {"widgets", "request"}
  /\ BreakLoop("error")
  /\ UNCHANGED <<nap, beatVars, endVars, widgetVars, askVars>>

\* A delegated restore request ends the loop ahead of the fallback clock.
PollRequest ==
  /\ pc = "request"
  /\ request' = FALSE
  /\ \/ request /\ BreakLoop("requested")
     \/ ~request /\ pending >= Patience /\ BreakLoop("fallback")
     \/ /\ ~request /\ pending < Patience
        /\ pc' = "exit"
        /\ UNCHANGED <<outcome, childVars, coreVars>>
  /\ UNCHANGED <<nap, beatVars, endVars, widgetVars, eventFile, pending, waiting, restarted>>

ShouldRestartChild == code # 0 /\ pid <= RestartMax

\* An exit that is not relaunched leaves the loop with the job still alive.
PollExit ==
  /\ pc = "exit"
  /\ \/ /\ child = "exited"
        /\ ~ShouldRestartChild
        /\ pc' = "terminate"
        /\ outcome' = "exited"
     \/ /\ Alive
        /\ pc' = "judge"
        /\ UNCHANGED outcome
  /\ UNCHANGED <<nap, childVars, beatVars, coreVars, endVars, widgetVars, askVars>>

\* Mutant: the heartbeat file stays.
RelaunchKeepingHeartbeat ==
  /\ pc = "exit" /\ child = "exited" /\ ShouldRestartChild
  /\ child' = "running" /\ pid' = pid + 1 /\ uptime' = 0
  /\ written' = 0 /\ lastHealthy' = 0
  /\ pc' = "sleep" /\ nap' = Backoff
  /\ UNCHANGED <<outcome, code, beat, beatAge, coreVars, endVars, widgetVars, askVars>>

\* Mutant: the pending hold is dropped.
RelaunchForgettingHold ==
  /\ pc = "exit" /\ child = "exited" /\ ShouldRestartChild
  /\ beat' = NoBeat /\ beatAge' = 0
  /\ child' = "running" /\ pid' = pid + 1 /\ uptime' = 0
  /\ written' = 0 /\ lastHealthy' = 0
  /\ pc' = "sleep" /\ nap' = Backoff
  /\ pending' = NotPending
  /\ UNCHANGED <<outcome, code, coreVars, endVars, widgetVars, eventFile, request, waiting, restarted>>

\* The heartbeat of the dead child is removed before the new one starts; a
\* completed hold stays pending across the relaunch.
Relaunch ==
  /\ pc = "exit" /\ child = "exited" /\ ShouldRestartChild
  /\ beat' = NoBeat /\ beatAge' = 0
  /\ child' = "running" /\ pid' = pid + 1 /\ uptime' = 0
  /\ written' = 0 /\ lastHealthy' = 0
  /\ pc' = "sleep" /\ nap' = Backoff
  /\ UNCHANGED <<outcome, code, coreVars, endVars, widgetVars, askVars>>

RelaunchFails ==
  /\ pc = "exit" /\ child = "exited" /\ ShouldRestartChild
  /\ beat' = NoBeat /\ beatAge' = 0
  /\ BreakLoop("error")
  /\ UNCHANGED <<nap, written, lastHealthy, endVars, widgetVars, askVars>>

\* Mutant: a missing heartbeat is waited for, for ever.
HealthPastGrace ==
  IF beat = NoBeat THEN "waiting"
  ELSE IF beat.pid # pid \/ beat.sequence <= lastHealthy THEN "invalid"
  ELSE IF beatAge > HeartbeatTimeout THEN "stale"
  ELSE "healthy"

\* Mutant: neither age nor replay is looked at.
HealthUntimed ==
  IF beat = NoBeat THEN (IF uptime <= StartupGrace THEN "waiting" ELSE "stale")
  ELSE IF beat.pid # pid THEN "invalid"
  ELSE "healthy"

\* evaluate_heartbeat.
Health ==
  IF beat = NoBeat THEN (IF uptime <= StartupGrace THEN "waiting" ELSE "stale")
  ELSE IF beat.pid # pid \/ beat.sequence <= lastHealthy THEN "invalid"
  ELSE IF beatAge > HeartbeatTimeout THEN "stale"
  ELSE "healthy"

JudgeHeartbeat ==
  /\ pc = "judge"
  /\ \/ /\ Health \in {"waiting", "healthy"}
        /\ lastHealthy' = IF Health = "healthy" THEN beat.sequence ELSE lastHealthy
        /\ pc' = "sleep" /\ nap' = 1
        /\ UNCHANGED <<outcome, childVars, coreVars>>
     \/ /\ Health \in {"stale", "invalid"}
        /\ BreakLoop(Health)
        /\ UNCHANGED <<nap, lastHealthy>>
  /\ UNCHANGED <<written, beat, beatAge, endVars, widgetVars, askVars>>

OnTime ==
  child = "running" =>
    IF beat = NoBeat THEN uptime < WriteInterval ELSE beatAge < WriteInterval

Elapsed(age) == IF age = NotPending THEN age ELSE age + 1

\* How long a completed hold may have to wait for its restore
Answering == Patience + Backoff

\* uptime, holdAge and waiting are only compared with StartupGrace, HoldTime and
\* Answering, so they stop there.
Tick ==
  /\ pc = "sleep" /\ nap > 0
  /\ Punctual => OnTime
  /\ nap' = nap - 1
  /\ uptime' = IF uptime <= StartupGrace THEN uptime + 1 ELSE uptime
  /\ beatAge' = IF beat = NoBeat THEN 0 ELSE beatAge + 1
  /\ pending' = Elapsed(pending)
  /\ waiting' = IF waiting < Answering THEN Elapsed(waiting) ELSE waiting
  /\ holdAge' = IF holdAge \in 0..(HoldTime - 1) THEN holdAge + 1 ELSE holdAge
  /\ UNCHANGED <<pc, outcome, child, code, pid, written, beat, lastHealthy, coreVars, endVars,
                 stateFile, shown, events, eventFile, request, restarted>>

Wake ==
  /\ pc = "sleep" /\ nap = 0
  /\ pc' = "widgets"
  /\ UNCHANGED <<nap, outcome, childVars, beatVars, coreVars, endVars, widgetVars, askVars>>

-----------------------------------------------------------------------------
(* After the loop.                                                         *)

\* Mutant: the job of an Electron that exited is left alone.
EndJobOfTheKilled ==
  /\ pc = "terminate"
  /\ IF outcome = "exited" THEN UNCHANGED <<childVars, coreVars>> ELSE TerminateJob
  /\ pc' = "desktop"
  /\ UNCHANGED <<nap, outcome, beatVars, endVars, widgetVars, askVars>>

\* "Ensure no orphaned sidecar can re-apply a guard while recovery runs."
EndJob ==
  /\ pc = "terminate"
  /\ TerminateJob
  /\ pc' = "desktop"
  /\ UNCHANGED <<nap, outcome, beatVars, endVars, widgetVars, askVars>>

\* restore_desktop_session: a failed SwitchDesktop only leaves telemetry.
GiveBackDesktop ==
  /\ pc = "desktop"
  /\ desktop' \in {"default", desktop}
  /\ pc' = "restore"
  /\ UNCHANGED <<nap, outcome, childVars, beatVars, coreVars, helper, widgetVars, askVars>>

\* The helper exits with success even when it reports ok: false, which is when
\* the taskbar or the input desktop could not be restored.
RunEmergencyRestore ==
  /\ pc = "restore"
  /\ \/ helper' = "restored" /\ guarded' = FALSE /\ desktop' = "default"
     \/ helper' = "incomplete" /\ UNCHANGED <<guarded, desktop>>
     \/ helper' = "failed" /\ UNCHANGED <<guarded, desktop>>
  /\ pc' = "cleanup"
  /\ UNCHANGED <<nap, outcome, childVars, beatVars, cores, widgetVars, askVars>>

\* The heartbeat and the control directory go, whatever the helper did.
Cleanup ==
  /\ pc = "cleanup"
  /\ beat' = NoBeat /\ beatAge' = 0
  /\ stateFile' = "absent" /\ eventFile' = NoInteraction /\ request' = FALSE
  /\ pc' = "done"
  /\ UNCHANGED <<nap, outcome, childVars, written, lastHealthy, coreVars, endVars,
                 shown, holdAge, events, pending, waiting, restarted>>

-----------------------------------------------------------------------------
(* Electron, src/watchdog-heartbeat.js and src/main.js.                    *)

WriteHeartbeat ==
  /\ child = "running" /\ written < MaxSequence
  /\ written' = written + 1
  /\ beat' = [pid |-> pid, sequence |-> written + 1]
  /\ beatAge' = 0
  /\ UNCHANGED <<loopVars, childVars, lastHealthy, coreVars, endVars, widgetVars, askVars>>

Hang ==
  /\ child = "running"
  /\ child' = "hung"
  /\ UNCHANGED <<loopVars, code, pid, uptime, beatVars, coreVars, endVars, widgetVars, askVars>>

\* before-quit: the sidecar is stopped, which restores, and then the heartbeat,
\* which removes its file, while the process still runs.
Quit ==
  /\ child = "running"
  /\ child' = "stopped"
  /\ beat' = NoBeat /\ beatAge' = 0
  /\ cores' = cores \ {pid}
  /\ guarded' = IF pid \in cores THEN FALSE ELSE guarded
  /\ UNCHANGED <<loopVars, code, pid, uptime, written, lastHealthy, endVars, widgetVars, askVars>>

\* app.exit(0), forced while it still writes or at the end of a quit, or a crash.
ChildExits ==
  /\ Alive
  /\ child' = "exited"
  /\ code' \in IF child = "hung" THEN {1} ELSE {0, 1}
  /\ UNCHANGED <<loopVars, pid, uptime, beatVars, coreVars, endVars, widgetVars, askVars>>

-----------------------------------------------------------------------------
(* The sidecars, as CoreRuntime details them.                              *)

CoreStarts ==
  /\ child = "running"
  /\ cores' = cores \cup {pid}
  /\ UNCHANGED <<loopVars, childVars, beatVars, guarded, endVars, widgetVars, askVars>>

\* A sidecar outlives the Electron that spawned it until it sees its pipe closed:
\* its exit restores the machine, also under a sidecar that has succeeded it.
CoreExits ==
  /\ \E core \in cores : cores' = cores \ {core}
  /\ guarded' \in {FALSE, guarded}
  /\ UNCHANGED <<loopVars, childVars, beatVars, endVars, widgetVars, askVars>>

CoreGuards ==
  /\ cores # {}
  /\ guarded' \in BOOLEAN
  /\ UNCHANGED <<loopVars, childVars, beatVars, cores, endVars, widgetVars, askVars>>

CoreSyncsWidget ==
  /\ cores # {}
  /\ stateFile' \in {"shown", "hidden"}
  /\ UNCHANGED <<loopVars, childVars, beatVars, coreVars, endVars, shown, holdAge, events, askVars>>

\* The interaction file is taken on the next command; a restore request is
\* delegated back, or rejected, which the bootstrapper is not told.
CoreTakesInteraction ==
  /\ cores # {} /\ eventFile # NoInteraction
  /\ eventFile' = NoInteraction
  /\ \/ eventFile = "restoreRequested" /\ request' = TRUE
     \/ UNCHANGED request
  /\ UNCHANGED <<loopVars, childVars, beatVars, coreVars, endVars, widgetVars, pending, waiting, restarted>>

-----------------------------------------------------------------------------
(* The widget thread (bootstrapper/src/emergency_widget.rs).               *)

Push(kind) ==
  /\ pc \in Looping /\ Len(events) < MaxEvents
  /\ events' = Append(events, kind)
  /\ UNCHANGED <<loopVars, childVars, beatVars, coreVars, endVars, stateFile, shown, askVars>>

PressWidget ==
  /\ shown /\ holdAge = NotHolding
  /\ holdAge' = 0
  /\ Push("holdStarted")

ReleaseWidget ==
  /\ holdAge # NotHolding
  /\ holdAge' = NotHolding
  /\ Push("holdCancelled")

CompleteHold ==
  /\ holdAge >= HoldTime
  /\ holdAge' = NotHolding
  /\ Push("restoreRequested")

-----------------------------------------------------------------------------
Loop == \/ PollWidget \/ ControlFileFails \/ PollRequest \/ PollExit \/ Relaunch
        \/ RelaunchFails \/ JudgeHeartbeat \/ Tick \/ Wake

Recovery == EndJob \/ GiveBackDesktop \/ RunEmergencyRestore \/ Cleanup

Electron == WriteHeartbeat \/ Hang \/ Quit \/ ChildExits

Sidecar == CoreStarts \/ CoreExits \/ CoreGuards \/ CoreSyncsWidget \/ CoreTakesInteraction

Widget == PressWidget \/ ReleaseWidget \/ CompleteHold

Next == Launch \/ LaunchFails \/ Loop \/ Recovery \/ Electron \/ Sidecar \/ Widget

Spec == Init /\ [][Next]_vars

\* The bootstrapper's own thread is never stopped for good, and Windows wakes it.
FairSpec == Spec /\ WF_vars(Launch \/ LaunchFails \/ Loop \/ Recovery)
-----------------------------------------------------------------------------
(* Properties.                                                             *)

\* Every variable keeps its type; in particular no child beyond the restart
\* budget of --electron-restart-max is ever launched.
TypeOK ==
  /\ pc \in Stages /\ nap \in 0..HeartbeatTimeout /\ outcome \in Outcomes
  /\ child \in {"unborn", "running", "hung", "stopped", "exited"}
  /\ code \in {0, 1, 222} /\ pid \in Pids /\ uptime \in 0..(StartupGrace + 1)
  /\ written \in 0..MaxSequence /\ beat \in Beats /\ beatAge \in Nat
  /\ lastHealthy \in 0..MaxSequence
  /\ cores \subseteq Pids /\ guarded \in BOOLEAN
  /\ desktop \in {"default", "exam"}
  /\ helper \in {"none", "restored", "incomplete", "failed"}
  /\ stateFile \in {"absent", "hidden", "shown"} /\ shown \in BOOLEAN
  /\ holdAge \in {NotHolding} \cup 0..HoldTime /\ events \in Seq(Interactions)
  /\ eventFile \in Interactions \cup {NoInteraction} /\ request \in BOOLEAN
  /\ pending \in Nat \cup {NotPending} /\ waiting \in Nat \cup {NotPending}
  /\ restarted \in BOOLEAN

\* run(), after the loop: when the desktop is given back and the helper runs,
\* neither Electron nor any sidecar, of a predecessor either, is left to put a
\* guard back.
NothingOutlivesRecovery ==
  pc \in {"desktop", "restore", "cleanup", "done"} => ~Alive /\ cores = {}

\* The relaunch in run(): a child is never judged by the heartbeat file that its
\* predecessor left, which evaluate_heartbeat calls invalid.
HeartbeatIsOwn == beat # NoBeat => beat.pid = pid

\* last_healthy_sequence is a sequence this child has written, so that the first
\* heartbeat of a relaunched child is not taken for a replay of its predecessor's.
SequenceNotAhead == lastHealthy <= written

\* evaluate_heartbeat and the loop: when the loop goes to sleep on a child that has
\* not ended its heartbeat, the child was heard from within the timeout, or is
\* still in its startup grace; the relaunch's back-off included.
SilenceNoticed ==
  pc = "sleep" /\ child \in {"running", "hung"} =>
    IF beat = NoBeat THEN uptime + nap <= StartupGrace + 1
                     ELSE beatAge + nap <= HeartbeatTimeout + 1

\* A hold completed on the widget is answered by a restore within the 2,500 ms the
\* core is given and one back-off, whatever the core does and however often Electron
\* is relaunched meanwhile, if the student leaves it at that hold.
HoldAnsweredInTime == pc \in Looping /\ ~restarted => waiting < Answering

\* should_restart_child: once Electron has quit by itself nothing brings it back,
\* which would trap the student on the exam desktop.
CleanExitFinal == [][child = "exited" /\ code = 0 => child' = "exited"]_vars

\* The watchdog: a hung Electron does not stay.
HungChildEnds == child = "hung" ~> child = "exited"

Phase ==
  IF pc \in {"launch", "terminate"} \cup Looping THEN "supervised"
  ELSE IF pc \in {"desktop", "restore"} THEN "recovering"
  ELSE IF pc = "aborted" \/ helper = "restored" THEN "released"
  ELSE "unrestored"

Held == guarded \/ desktop = "exam"

Promise == INSTANCE GuardedMachine WITH phase <- Phase, held <- Held

\* The whole of run() keeps the promise of GuardedMachine: after the job is dead the
\* machine is never held anew, and recovery ends.
PromiseKept == Promise!FairSpec

-----------------------------------------------------------------------------
(* What the repository says and run() does not do.                         *)

\* A heartbeat is healthy until it is heartbeat_timeout_ms old (the default is
\* 8,000 ms, and the test of evaluate_heartbeat finds a second-old one healthy): an
\* Electron that writes one every 1,000 ms is not killed.
PunctualChildSurvives == outcome \notin {"stale", "invalid"}

\* The fallback is for a core that "did not acknowledge the widget request in time":
\* a student who keeps holding the widget is answered as well, in that time.
FirstHoldAnswered == pc \in Looping => waiting < Answering
=============================================================================

# Verification of EduLearn Desktop

EduLearn Desktop runs an exam on a student's own Windows machine. While the exam lasts it
holds the machine: hooks on keyboard, mouse and focus, a hidden taskbar, disabled
accessibility hotkeys, sometimes a desktop of its own. What can really go wrong is
therefore of two kinds: the machine is not given back when the exam, or any of the
processes that guard it, ends; or the guard believes to be in place something that is not.
The modules here are about these two.

## The system

| part | source | state it keeps | what it does |
| --- | --- | --- | --- |
| bootstrapper | `bootstrapper/src` | the child and its restart budget, the last healthy heartbeat, a pending widget hold | launches Electron in a job object, polls control files, exit and heartbeat every 500 ms, relaunches, recovers |
| Electron shell | `src/src` | the shell's view of the exam (governor snapshot), the sidecar's pending requests | starts the sidecar, sends it commands over stdio or an authenticated pipe, writes the heartbeat |
| sidecar (core) | `rust-core/src/main.rs` | session, policy, authorization, kiosk flags, widget, panic counter | serves one command at a time; installs and removes every native guard |
| native guards | `*_guard.rs` | a hook thread or a saved setting each | keyboard, mouse, focus, clipboard, capture, taskbar, accessibility, overlays |
| event producer | `process_watcher.rs`, `etw_producer.rs` | an ETW session, two threads and two queues, a retry interval | reports process starts and exits to the tick, by ETW or by polling |
| runtime monitor | `runtime_state_engine.rs`, `process_remediation.rs`, `runtime_monitor.rs` | table of known processes, event queue, budget of terminations | one tick per second: drain events, reconcile with the process list, terminate what the policy forbids |
| emergency restore | `emergency_widget.rs` (both crates), `run_emergency_restore` | the widget's visibility and hold, nonces | the student's way out, served by the core, or by the bootstrapper when the core does not answer |
| exam service | `edulearn-exam-service`, `service_client.rs` | an accept thread, one worker per client, used receipts | runs as SYSTEM, terminates processes the core may not and disables the Windows service behind them |
| policy and keys | `policy_*.rs`, `process_policy.rs`, `exam_key.rs` | loaded policy, receipt | verification, and what a process is decided to be |
| audit log | `audit_log.rs` | a hash-chained log, sealed logs, the file of pending uploads | evidence that survives the core |

Electron calls the core; the core writes the widget's state file and the restore request,
which the bootstrapper polls; the bootstrapper writes the widget event file, which the
core takes before every command; the bootstrapper judges the heartbeat file Electron
writes, and runs the core's binary once more with `--emergency-restore` after it has
killed everything. A preflight and a tick of the core call the exam service over a named
pipe and wait for it. `PROJECT.json` lists every part with what is and is not modelled,
and the hazards, each at its line.

## Modules

| module | models | proofs |
| --- | --- | --- |
| `CoreRuntime` | the sidecar's command loop | `CoreRuntimeProofs` |
| `Supervisor` | the bootstrapper with its child, sidecars and widget | `SupervisorProofs` |
| `GuardedMachine` | what the bootstrapper promises, abstractly | (refined by `Supervisor`) |
| `AccessibilityGuard` | the accessibility settings and their backup file | `NativeGuardProofs` |
| `RuntimeStateEngine` | the process table of the monitor tick | `RuntimeStateEngineProofs` |
| `EventProducer` | the producer manager and the ETW producer with its threads | `EventProducerProofs` |
| `AuditLog` | the log, its sealed predecessors and the pending uploads | `AuditLogProofs` |
| `ProcessPolicy` | what a policy says of a process (operators) | `RemediationProofs` |
| `ExamService` | the elevated service, and the call the core makes to it | `RemediationProofs` |
| `Remediation` | preflight and tick of the core, composed with `ExamService` and `ProcessPolicy` | `RemediationProofs` |
| `GuardDecisions` | the pure decisions of the guards: clamping, shortcuts, focus (operators) | `NativeGuardProofs` |
| `HookGuards` | one native guard: its thread, the command loop and the user | `NativeGuardProofs` |
| `ShellRuntime` | the Electron shell's view of the exam, its governor and its requests to the core | `ShellRuntimeProofs` |

`MC<module>` gives a module its TLC instance, `MC<module><Question>.cfg` is one run. A
definition whose comment begins with "Mutant" is a plausible bug in the definition after
it; each property that a run checks is shown to fail under one of them.

Which of the configurations are runs is in `PROJECT.json`. The others are kept for a
reader: `MCSupervisorWide`, `MCShellRuntimeThree`, `MCRemediationMore` and
`MCRemediationRestarts` check the same modules on other instances or for further
properties, and the ones named under Disagreements reproduce a counterexample each.

### CoreRuntime

One action per command, the whole handler: `StartExamSession` captures the taskbar's
state, `EnterKiosk` installs the guards and starts the producer or takes all of it down
again, and eight commands end a session through `Restore` (`restore_active_protection`).
`Exits` is the end of the loop with the `Drop` of the state, `Killed` has none; `Restart`
is a new process that finds the desktop as it is. `HandlerPanics` counts towards the
degraded mode and its gate is in `Serving`. `process_bootstrapper_widget_interaction`,
which runs ahead of every command, is shown as the actions `WidgetHold` and
`WidgetRestore`, that is, ahead of a command that changes nothing.

Abstractions: the guards that only install and remove a hook in the core's process are the
set `Hooks`; the keyboard hook is told apart because two commands of its own reach it. The
flags `kiosk_active`, `exam_protection_active` and `runtime_monitor_active` are always
written together and are one variable. Policy verification, precheck and preflight are
nondeterministic outcomes. `inherited`, `lockdown` and `recoveryDue` are history
variables. Not modelled: the shell showing the taskbar against the guard, deactivations
that fail inside a restore, panics half-way through a handler, the commands that create
and switch an exam desktop, nonces and times of the widget's requests.

Checked (`core`, two sessions, two signed policies and the built-in one, two hooks,
degraded after two panics; the state space is finite without further bounds):
`TaskbarAccounted` (what hid the taskbar knows how to show it, and has when it left),
`HooksOnlyInSession`, `SignedSessionAuthorized` and the action property
`SessionEndsRestored`. Two sessions and policies are what it takes to confuse one with
another; nothing counts them. `GracefulExit`, `PreflightMatchesPolicy`,
`WidgetTracksSession` and `RuntimeFollowsKiosk` are parts of the inductive invariant and
are proved with it.

### Supervisor and GuardedMachine

`run()` of the bootstrapper, one action per stage of a poll (`pc`), since the child, the
sidecars and the widget's thread run between any two of them. Time passes only in `Tick`
and `Wake`, while the loop sleeps, in units of `MONITOR_INTERVAL_MS`. Electron writes
heartbeats, hangs, quits (removing the heartbeat first) or dies; a sidecar may outlive the
Electron that started it. The cryptographic checks of a heartbeat are its pid: what a
child cannot forge. `waiting` is history.

Checked (`supervisor`: one relaunch, a heartbeat timeout and a grace of two ticks, a hold
of two, a patience and a back-off of one, isolated desktop, one heartbeat per child, one
widget event between two polls): `NothingOutlivesRecovery`, `HeartbeatIsOwn`,
`SilenceNoticed`, `HoldAnsweredInTime`, and under `FairSpec` `HungChildEnds` and
`PromiseKept`. A bound of two ticks has a state before, at and after each timeout; one
relaunch has a predecessor and a successor, which is all the code tells apart; the second
heartbeat of a child, which nothing but the sequence check tells from the first, is in
`MCSupervisorWide`, with longer holds and delays. Deadlock is not checked: the
bootstrapper exits.

A hold that is completed while another one waits for its answer restarts the fallback's
clock (`restarted`, main.rs:1430). `HoldAnsweredInTime` is about the hold that the student
leaves it at: it is answered within the patience and one back-off, however long a hold
takes and however the delays are set. That a student who keeps holding is answered as well
is `FirstHoldAnswered`, and `MCSupervisorHold` refutes it at the values of the code, in
ticks of 500 ms: a hold of 4, a patience of 5, a back-off of 3. It needs holds of at
least the patience and two back-offs (`LongHoldsAnswered`), 5,500 ms; the default of the
policy is 2,000 ms, and a policy may set up to 10,000 ms.

Fairness is weak fairness of the bootstrapper's own thread only, which Windows schedules
and which blocks on nothing but its sleep (a job termination that fails would block it in
`child.wait()`, main.rs:1454; this is not modelled). Nothing is assumed of Electron, the
sidecar or the student. `PromiseKept` is the refinement of `GuardedMachine` (phase and
held computed from the stage, the guard and the desktop), whose fairness says that
recovery ends.

### AccessibilityGuard

Each `SystemParametersInfo` call and each file operation is a step; the process may be
killed between any two, and the user may change a setting at any time. One process at a
time touches the settings. `UserChoiceRecoverable` says that what the user chose is either
in place or in the backup; the exception the code has, a change made while a stale backup
is pending, is the history variable `edited`. A failed undo is reported as a success by
the text of an error, which is not modelled. No bound is needed; three values let a stale
snapshot differ from both the live setting and the disabled one.

### RuntimeStateEngine

The table per pid: every key of `known_processes` starts with the pid and no operation
reads another pid's entries, so the code's two maps are a function of the pid. An identity
is its creation time and image. A tick submits events, drains the queue and reconciles
with the collected list (`stage`); `SubmitProcessEvent` drops the oldest when the queue is
full. Events carry arbitrary observation times up to `MaxTime`: the shell may hand events
of its own to a tick, and the clock may be set.

Checked (`engine`; one pid, reused, with an older process that is reported without its
creation time): `ActiveIsCurrent` and `YoungerStays`; that a poll retires what it does not
list is proved only (`ReconciliationRetires`). Pids do not interact, two queued events are
what it takes to overtake and to drop.

### EventProducer

Where the events of a tick come from. The command loop starts, drains, recovers and stops
(`pc` is where it waits for a join); the consumer thread sits in `ProcessTrace` and its
callback fills the raw queue; the parser thread moves one event at a time (`held`) to the
output queue; Windows owns the session, and any administrator, or a second core, may stop
it or take its name. Events are numbers in the order Windows reports them.
`recover_if_due` is `Recover`, `RecoverJoined` and `Attempt`; time since the last attempt
is `sinceAttempt`, which a wall clock set back makes negative.

Checked (`producer`; queues of two, one event per drain, intervals of one and two, a clock
set back by one, four events, three faults, two starts): `InOrder`, `HealthyIsComplete` (a
producer that reports itself healthy has lost nothing), `NothingStranded`,
`StoppedIsQuiet`, and `EventsResume`. Four events overflow both queues one after the
other; three faults are a loss, a recovery that fails and a clock set back after it.
Fairness is of the command loop inside a tick, of the two threads, of `ProcessTrace`
returning once the session is lost, and of ticks, which the shell sends every second;
nothing is assumed of starts, stops, events and thieves.

What the model shows beside its properties: `stop` does not reset the recovery interval,
so the next start inherits a long one; `dropped_event_count` of the output queue adds up
over producers, so that one overflow degrades all that follow; two cores take the session
from each other at every attempt without backing off; and the events left of a failed ETW
producer are labelled with the source of the moment they are drained.

### AuditLog

Two files written one after the other by each append. Any of the writes may fail, be cut
short or be the last before a kill (`Interrupted`). A file that is there may fail to open,
because another program holds it or a limit is reached (`OpenFails`), and the code then
goes on as if it were not there: an append chains its record to nothing (`blind`), an
acknowledgement or a failure report writes the queue back empty (`wiped`). The clock may be
set back, a sealed file is named by a timestamp alone, and one that gets the name of
another replaces it (`replaced`). A hash is the number of its event, a record is what its
id, its predecessor and its attempts are.

Checked (`audit`; a log of two lines, five events, two timestamps, two mishaps, each a
write cut short or an open that fails): `ChainIntact` and `SealedChained` (a record goes on
from the one before it, in its file or in the file sealed last, unless its append could not
open the log or a crash fell between the rotation and the first line), `EvidenceKept` (it
takes two mishaps to lose a recorded event, or one and a sealed file replaced; the small
log that is filled twice within one timestamp is among the states) and `PendingUntilAcked`.
Five events are two full logs and one more. What the failed opens do is under
Disagreements.

### ProcessPolicy, ExamService, Remediation

`ProcessPolicy` is the order in which a policy's rules, lists and the vendor evidence
decide for an image, and what the service reads of the same policy. `ExamService` has the
control thread, the accept thread (creating an instance, listening, counting a client,
starting its worker, joining), one worker per client and the core's call with its five
seconds; a stop may come between any two of them. Neither a pipe instance, nor its thread,
nor a worker need come into being: each such error ends the accept thread, that of a worker
after its count is taken back (`SpawnFails`). A worker drops its pipe before its guard
gives the count back (`closed`, `Leave`), so that the core may go on, and call again,
before it does. `Remediation` adds the command loop: `StartPreflight` and `Scan` look for
targets, each of which is ended through the service or in user mode, and look again, within
the budget; a tick does so once, and does not look again. `TerminateProcess` and a stopped
service only tell a process to end (`dying`): it is gone some time later (`Exit`), a rescan
may still find it ("remained active after the termination request"), and it may be told to
end once more. Processes end, start and take over ids between any two steps; an image in
`Backed` is started again by its Windows service until that is disabled (`owed`). `agree`
is whether core and service declare the same fields of a policy.

Checked (`remediation`; two process ids, two policies, one start, one client, two passes):
`ActiveMatches` (the count is the live workers and the one about to be started),
`ClearMeansClear` (a clear preflight leaves only processes started since its scan, a
resolved tick also those it has told to end), `ServiceActsOnListed`, `UserModeKillsRuled`
and `RespawnsOutnumberPasses` (a student kept out although no termination failed has seen,
for each pass, a start or a rescan with a target still ending). Two ids are one that is
waited for while the other changes; a start is a process that takes over an id, and half
of what a preflight of two passes needs to keep a student out. `remediation_live` has one
process id, two starts, two policies, of which one lets an exam go on after a failed
termination, and a service that agrees with the core, and asks for
`AgreeingServiceClears`, `CommandLoopFree` and `StopEnds`; fairness is of the core's own
steps, each worker, the accept and the control thread, and of the timeout of the call; not
of an end of a process, nor of any of the failures. `MCRemediationRestarts` has two ids,
two starts and one policy, `MCRemediationMore` further properties, `TypeOK`,
`TerminatedIsGone` and `CutOffOnlyByFailure`; neither is a run.

Not modelled: the signatures and the store of used receipts, the audit of each action and
its deduplication (main.rs:607), the report's wording. Seen while modelling: a client that
leaves before `ConnectNamedPipe` is entered makes the accept thread return, which ends the
service without joining its workers (transport.rs:243); a process that ends between scan
and termination is reported as failed and keeps the student out; the preflight ignores
`instantKill`; the core does not wait for a busy pipe instance.

### GuardDecisions, HookGuards

Keyboard, mouse, focus and clipboard guard follow one protocol (`call` is where the
command loop is, `thread[t].at` where a thread is): look whether the remembered thread is
healthy, stop and join a stale one, spawn, wait three seconds for its report. `kind` is
chosen in `Init`; what differs between the kinds is in the actions that name it. Two
threads, used again once they have ended, are what a call and its predecessor need. The
user types, moves the pointer, changes and closes windows, and copies; other programs
release the clip rectangle, and Windows may refuse to raise a window or to open the
clipboard. The mouse bounds are stored one by one while the hook reads them, here in two
halves, each of which the hook reads at once (mouse_guard.rs:95 loads the four one by one).

Checked (`guards`; four kinds, two exam windows, two monitor rectangles, two foreground
events on their way): `ToldHookIsLive`, `OffIsQuiet`, `FocusHeld`, `ForeignCleared`,
`EventsStopped`, `CallReturns`. Fairness is of the steps of a call and of the threads,
whose report may be a failure; nothing is assumed of the user. `CallReturns` excepts the
sleeping thread of the disagreement below.

Seen while modelling: the clipboard is emptied before its listener exists (`overlooked`),
and is not emptied at all when the guard is already active; between reading the owner and
emptying, a copy of the exam's own may be wiped; a focus guard asked for an invalid window
answers inactive and leaves the old guard in place (focus_guard.rs:178); a mouse guard
without its hook answers "fallback" and is called active without a thread; a thread whose
`GetMessageW` fails tells nobody. Not modelled: Windows removing a slow hook silently,
poisoned mutexes.

### ShellRuntime

The other end of the core's requests: `core-runtime.js`, the snapshot with the two locks
it is changed under, and the request channel of `rust-sidecar.js`. Node runs one callback
at a time, so a step is what runs between two waits of `handleCommand`, and calls wait
side by side (`at`). `start_exam_session` has up to four waits, for the start, the kiosk
and two handoff requests, with a delay between these, and a rollback or an abandoning
restore on its way out; exits, restores, status requests, polls and monitor ticks have
one. A wait ends with the answer of its own request or with `NoAnswer`: timeout, dead
core, rejected frame, failed write. What comes later is `AnswerDropped`. `Governed` is
`updateSnapshot`: a running exam keeps its state and an exit under way keeps everything,
unless the caller has the right to change them. The protection controller is two flags,
`window` and `input`; its own awaits wait for nothing outside and belong to the step.
`runtimeMonitorGeneration` is the tag of a tick, "tick" of the present loop or "old tick".
The core is as much of `CoreRuntime` as its answers tell the shell: its session, whose it
is, and its kiosk; it may refuse what a check or the degraded mode refuses, and die.

Not modelled: starting and stopping the sidecar (one core, not replaced), an error of the
pipe that marks a living core as gone (rust-sidecar.js:198), a failed write that never
reaches the core (its answer is then only one that comes late, rust-sidecar.js:383), a
`restoreExamProtection` that throws (core-runtime.js:565), the governor's queue of updates
made while one is applied, display changes, preflight, exit verification, the handoff
store.

Checked (`shell`; two calls side by side, every command, ticks sent while fewer than two
messages are in flight): `KioskKnown` (no start that failed, timed out or was overtaken
leaves a kiosk the shell does not know of), `EndedReleased`, the action property
`RunningEndsByExit`, and `ExitEnds`. Two calls are a start and the exit that overtakes it;
`MCShellRuntimeThree` adds the late answer of a third, without the exit dialog. Calls are
numbered as they are made, so the numbers tell nothing else apart. Deadlock is not
checked: when all calls are made and answered nothing is left to do. `KioskKnown` excepts
a core that refused its last restore: the shell then tells the user that the exam has
exited all the same.

The exit dialog remembers the session state when it opens and puts it back when it is
cancelled. A dialog opened before an exit and cancelled after a start shows "idle" or
"exited" over a kiosk that stands; `reverted` is the history of that, and `KioskKnown` and
`EndedReleased` except it.

`ExitEnds` assumes that every wait ends, since every request has a timeout and every delay
is a `setTimeout`, and that the cleanup timer of an exit fires. Nothing is assumed of the
core or of the user.

## Disagreements

Where the code does other than its documents, comments or tests say. The first two are
runs; the others are counterexamples TLC finds with the configuration named.

- `supervisor_heartbeat`, a bug: a child that writes every second, as it does, is killed
  by the second poll of one record, because the sequence check takes an unchanged file for
  a replay (bootstrapper main.rs:293).
- `service_schema`, a bug: the core's policy has two fields that the service's, which
  denies unknown ones, has not (authorization.rs:10). Every request is refused, and what
  only the service can end keeps the student out.
- `MCCoreRuntimeRecovery`, `ViolationEntersRecovery`: a strict violation found by a tick
  cannot move the session to `RECOVERY_REQUIRED` (main.rs:2793), while
  runtime_monitor.rs:229 logs "Strict runtime policy requires recovery."
- `MCRuntimeStateEnginePolling`, `PollingRepairs`, a bug: a stale create event deactivates
  a running process for good (runtime_state_engine.rs:555), against the test at :819 that
  polling repairs the state.
- `MCShellRuntimeHandoff`, `ShownExamIsOn`: a start whose handoff fails goes on in
  ENTERING_KIOSK also when an exit has ended the session while it waited
  (core-runtime.js:2402); the comment at :2383 says "protection is still active".
- `MCShellRuntimeRestore`, `RestoreEnds`, a bug: the restore the page asks for carries no
  exit intent, sets the exit lock when the core acknowledges it, and is not allowed to
  clear it (core-runtime.js:2555); ipc-authorization.test.js:181 calls it
  "renderer-allowed (UI-triggered recovery)".
- `MCAuditLogTorn`, `EvidenceAfterFailure`, a bug: after a write cut short the last line
  does not parse, `read_last_audit_hash` fails (audit_log.rs:431), its callers drop the
  error and nothing is recorded any more; acceptance-matrix.json:51 expects that "audit
  evidence exists" after an injected failure. A torn line in the pending file stops the
  uploads likewise.
- `MCSupervisorHold`, `FirstHoldAnswered`, a bug: a student who holds the widget again
  while a dead core leaves the first hold unanswered restarts the clock of the fallback
  (bootstrapper main.rs:1430), again and again; the fallback is for a core that "did not
  acknowledge the widget request in time" (main.rs:1481), and acceptance-matrix.json:97
  expects that the widget "survives renderer or Rust crashes through bootstrapper
  fallback".
- `MCAuditLogBlind`, `ChainVerifies`, a bug: a log that fails to open is taken for an
  empty one (audit_log.rs:432); the record appended next has no predecessor, and
  verification calls the log broken, against the test at :699, which asserts that what was
  appended verifies.
- `MCAuditLogWiped`, `RetainedUntilAcked`, a bug: a queue that fails to open is taken for
  an empty one (audit_log.rs:454) and written back as such by the next acknowledgement or
  failure report; native-tests/audit-sync.js:28 promises "retain-until-ack".
- `MCHookGuardsTimeout`, `TimedOutAnswers`, a bug: a hook thread that reports between the
  three seconds and the raising of the stop flag sleeps in `GetMessageW`; nothing posts
  `WM_QUIT` to it, the join never returns, and with it the command loop
  (mouse_guard.rs:298, and the three others). The answer promised is "Timed out while
  starting WH_MOUSE_LL; ClipCursor fallback remains."

Found by reading, without a run: entering the kiosk hides the emergency widget, because
`should_show` names `EXAM_RUNNING`, which no command reaches any more
(emergency_widget.rs:151), and `sync_display_topology` is refused for the same reason; the
gate of a degraded core refuses the restore that would end the degraded mode
(main.rs:1166); a handler that panics leaves half of its updates behind the `catch_unwind`
(main.rs:3243); `deactivate_input_lockdown` under a kiosk removes the hook and leaves the
reported protection as it was (main.rs:2974); a core that replaces a killed one captures
the hidden taskbar as the user's, so that its restore leaves it (`inherited`); the undo of
a failed accessibility activation may fail, unnoticed, and helper and core may recover
from one backup at once (accessibility_guard.rs:386, :453); the bootstrapper's fallback
also fires after the core rejected the request, although its text says the core did not
answer; a helper that restored incompletely exits 0, which `run()` takes for a completed
recovery; a widget event drained late is attributed to the newest widget (bootstrapper
main.rs:1429); at 64 nonces the widget forgets the smallest by its text
(emergency_widget.rs:296); the exit of a process that was never seen retires the one that
took over its pid (runtime_state_engine.rs:602).

## What is proved

For every value of the constants, from the `ASSUME` of each module (which states only what
the code's parsing or types give). Each proof module has the invariant `IInv`, or `Inv`,
(initial states satisfy it, every action keeps it) and derives the properties from it.

- `CoreRuntimeProofs`: the invariants depend on each other: what a restore leaves depends
  on the snapshot, the snapshot's truth on what the session found, and the widget on which
  states have a session. `Links` states this: a session has an id and a snapshot exactly
  in the states under way, a snapshot "hidden" is still true, and a degraded core has
  reached the threshold. All properties of `core` are proved.
- `SupervisorProofs`: `IInv` adds where in `run()` the machine is certainly free
  (`StagesInOrder`) and that a heartbeat on disk was written by the child (`BeatWritten`).
  `HInv` follows the fallback's clock through the stages of a poll (`ClockLookedAt`) and
  says that it is the first hold's own until another restarts it (`FirstHoldsClock`); when
  holds take long enough the press under way began after the first one was completed
  (`NoSecondHold`), and no other can be completed before the answer. Proved: all
  invariants of `supervisor`, and that every behaviour implements the safety part of
  `GuardedMachine`.
- `RuntimeStateEngineProofs`: one lemma per effect on a pid: from a sound pid it gives a
  sound pid that knows at least what it knew, and one per effect on the current process:
  it stays, or gives way to one that is not older. Proved: all of `engine`, for any number
  of pids, any identities and any queue.
- `EventProducerProofs`: `Phases` (which threads, session and queues there may be in each
  phase of the command loop), `Failing` (a producer fails only once `ProcessTrace` has
  returned, and its parser leaves the raw queue empty), `Order` (queues, held event and
  what was handed out are one ascending sequence) and `Located` (a producer that has
  dropped nothing knows where each of its events is). Each is preserved given the ones
  before it; together they give all invariants of `producer`, for any capacities and
  intervals.
- `NativeGuardProofs`, of a hook guard: `OneThread` (at most the spawned thread is alive,
  and the remembered one is it), `Signals` (hooks, flag and window are those of a thread
  that is alive), `Answered` (what the last answer left), `FocusKept` and `ClipboardKept`
  (an event is on its way, or nothing is amiss); and lemmas that clamping stays inside any
  rectangle of 32-bit edges. All safety properties of `guards` are proved, for any
  threads, windows and monitors. Of the accessibility guard, whose formulas have names of
  their own so that one module can hold both: a pending backup holds the user's choices,
  the snapshot being applied is the one in the file, and settings already passed are done.
- `ShellRuntimeProofs`: every action but an exit's moves the snapshot on (`Moves`: the
  exit lock is not set, a running exam stays one, a locked snapshot shows an exit) and
  starts the monitor in an exam only; an exit's step may do more, and stops the monitor
  (`Exits`). That gives `ExitingShowsExit`, `MonitorOnlyInExam` and `RunningEndsByExit`;
  the invariant `Inv` adds that a start the core accepted knows its session.
  `EndedReleased` has an invariant of its own, `Released`: while the window or the input
  guards are held over an exited exam, a start is still under way, or a cancelled dialog
  has `reverted` the state. `KioskKnown` has another, `KInv`, about the requests in
  flight: each is sent once and the answers come in order (`SentOnce`, `AnsweredSince`,
  `RestoredFirst`); a start that no longer waits for the kiosk it asked for has sent a
  restore after it (`EnterFollowed`); and, of a kiosk that stands, either a restore is on
  its way to the core, or the start still waits, or everything the shell has yet to read
  was said by a core in its kiosk, so that no answer can take the sign of it away
  (`KioskTraced`). All safety properties of `shell` are proved, for any number of calls
  side by side and of messages in flight.
- `AuditLogProofs`: a torn line is the last of its file and each other line is chained to
  the one before it or was appended blindly (`Ordered`); what the next record will be
  chained to is the last line, whether that stays or is sealed (`Reading`, `Continued`);
  one mishap damages the log or the queue, not both, and a sealed file that is replaced
  damages the log (`KeptOnce`). Proved: all of `audit`, for any sizes, clocks and number
  of mishaps. What `SelectSeq` computes would need induction, so `Without` counts the kept
  lines instead: `WithoutLines` proves what it keeps, and TLC compares it with the
  selection it stands for (`MCAuditLog`).
- `RemediationProofs`: the call the core waits for is at the pipe or with one worker, and
  is about the process at hand (`PipeKept`, `CallFollowed`); a worker past its
  authorization has a target the policy lists (`TargetsListed`); an id of the last scan
  names what was scanned or something started since (`ScanHolds`); and what each
  termination has left, which is gone, or ending, or started since (`Going`), in this pass
  and since the preflight began (`PassAccounted`) or in the result of the tick
  (`TickAccounted`). That gives the safety properties of `remediation` and those of
  `MCRemediationMore`, for any processes, images and policies and any number of clients
  and passes. `AgreeingServiceClears` needs an argument of its own (`SInv`) and a
  condition, fewer images kept running by Windows services than passes
  (`Cardinality(Backed) < MaxPasses`, the cap of process_remediation.rs): the worker of a
  call given up in an earlier preflight may end such a process before its service is
  disabled, and Windows starts it once more. `Restartable` are the images to which that
  can still happen; each pass after the first uses one up (`PassesLeft`), since a worker
  tells what was started during the preflight to end only with its service disabled
  (`DisabledFirst`, `DyingDisabled`); and a process found while it ends is one of the
  disturbances the promise excepts. With `MaxPasses = 1` TLC finds the preflight that is
  not clear.

Only model-checked: the liveness properties (`HungChildEnds`, `ExitEnds`, `EventsResume`,
`CommandLoopFree`, `StopEnds`, `CallReturns`, `PromiseKept` with its fairness), which are
beyond the prover.

## Plan

Done, in order of importance: `CoreRuntime`, `Supervisor` over `GuardedMachine`,
`AccessibilityGuard`, `RuntimeStateEngine`, `ShellRuntime`, `EventProducer`, `HookGuards`,
`Remediation` over `ExamService`, `AuditLog`. Next:

1. `EmergencyWidget`: nonces, their eviction and time to live, request validation;
   composed with the widget of `Supervisor`.
2. `RustSidecar`: start, handshake, restart and `stop` of the core, over `IpcAuth`
   (sequence numbers and replay in both directions); then a core that is replaced under
   `ShellRuntime`, and the governor's queue.
3. `EventProducer` composed with `RuntimeStateEngine`, whose events are so far arbitrary.

## Not modelled

Cryptography (signatures, receipts and their replay store, the pipe's authentication), the
collectors and detection rules (queries of Windows and pure tables), telemetry, the
scheduler and event bus (their results are only reported), the overlay windows and the
display affinity of a window, the creation of the exam desktop inside the core, the
shell's windows and URL filters, the prototype and the scripts. `PROJECT.json` gives the
reason for each.

## Running

    tlc -config MCCoreRuntime.cfg MCCoreRuntime
    tlapm CoreRuntimeProofs.tla

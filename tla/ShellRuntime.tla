---------------------------- MODULE ShellRuntime ----------------------------
(***************************************************************************)
(* The Electron shell's side of an exam: src/core-runtime.js, the governor *)
(* every change of its snapshot goes through (src/state-governor.js), and  *)
(* the requests it exchanges with the native core (src/rust-sidecar.js).   *)
(*                                                                         *)
(* Node runs one callback at a time, so a step is what runs between two    *)
(* waits of handleCommand: for an answer, or for a delay.  Calls of        *)
(* handleCommand wait side by side.  `at` is where a call waits; a request *)
(* is known by its call and by the command it carries, as request ids are. *)
(* The core serves its requests one by one, in order (CoreRuntime has the  *)
(* detail), and may be gone, or answer too late.                           *)
(***************************************************************************)
EXTENDS Naturals, Sequences

CONSTANTS
    MaxCalls,  \* bound on the calls of handleCommand that send a request
    Commands,  \* the calls made
    MaxQueue,  \* bound on the messages in flight when another tick is sent
    Refusing   \* whether the core may refuse to restore the desktop

AllCommands == {"start", "dry", "demo", "exit", "restore", "status", "poll", "confirmation"}

ASSUME ShellAssumption ==
    /\ MaxCalls \in Nat
    /\ MaxQueue \in Nat
    /\ Commands \subseteq AllCommands
    /\ Refusing \in BOOLEAN

Calls == 1 .. MaxCalls
NoCall == 0
NoState == "none"

CoreStates == {"IDLE", "STARTING_EXAM_SESSION", "ENTERING_KIOSK", "EXAM_RUNNING_CONFIRMED"}
ExitStates == {"EXAM_EXIT_REQUESTED", "EXAM_EXITING"}
SessionStates == CoreStates \cup ExitStates \cup {"INIT", "EXITED"}
Running == "EXAM_RUNNING_CONFIRMED"

(* Requests a call waits for; two of them, and the other waits, are delays. *)
RestoreRequests == {"exit", "restore", "rollback", "abandon"}
Requests == {"start", "dry", "enter", "notify1", "notify2", "status", "poll"}
            \cup RestoreRequests
Waits == Requests \cup {"retry", "confirm"}

VARIABLES
    snap,         \* the governed snapshot; exiting: exitInProgress and the two locks
    at,           \* where each call waits: "unused", a member of Waits, "done"
    patch,        \* nextSnapshotPatch of a start: what its answers said so far
    prior,        \* exitPreviousSessionState
    reverted,     \* history: a cancelled exit dialog undid what a call had shown since
    demo,         \* activeExamMode is DEMO_STATIC
    monitor,      \* runtimeMonitorTimer, runtimeMonitorTickInFlight
    audioTimer,   \* exitAudioRestoreTimer: "off", "set", or of an old generation
    cleanupTimer, \* exitForceCleanupTimer
    window,       \* protection-controller's isProtectionActive
    input,        \* and its interactionState
    connected,    \* the transport's connected
    alive,        \* the core process runs
    core,         \* the core's session, whose it is, and its kiosk
    refused,      \* history: the core did not do the last restore it was asked for
    inbox,        \* requests on their way to the core
    outbox        \* answers on their way to the shell

shellVars == <<prior, reverted, demo>>
timerVars == <<audioTimer, cleanupTimer>>
desktopVars == <<window, input>>
coreVars == <<alive, core, refused>>
vars == <<snap, at, patch, shellVars, monitor, timerVars, desktopVars, connected,
          coreVars, inbox, outbox>>

Snapshots == [session : SessionStates, kiosk : BOOLEAN, exam : BOOLEAN,
              audio : BOOLEAN, exiting : BOOLEAN]
Patches == [session : CoreStates \cup {NoState}, kiosk : BOOLEAN, exam : BOOLEAN]
Messages == [call : Calls \cup {NoCall}, tag : Requests \cup {"tick", "old tick"}]
Answers == [call : Calls \cup {NoCall}, tag : Requests \cup {"tick", "old tick"},
            ok : BOOLEAN, session : CoreStates, kiosk : BOOLEAN]

TypeOK ==
    /\ snap \in Snapshots
    /\ at \in [Calls -> Waits \cup {"unused", "done"}]
    /\ patch \in [Calls -> Patches]
    /\ prior \in SessionStates \cup {NoState}
    /\ reverted \in BOOLEAN
    /\ demo \in BOOLEAN
    /\ monitor \in [timer : BOOLEAN, ticking : BOOLEAN]
    /\ audioTimer \in {"off", "set", "old"}
    /\ cleanupTimer \in BOOLEAN
    /\ window \in BOOLEAN
    /\ input \in BOOLEAN
    /\ connected \in BOOLEAN
    /\ alive \in BOOLEAN
    /\ core \in [session : CoreStates, active : Calls \cup {NoCall}, kiosk : BOOLEAN]
    /\ refused \in BOOLEAN
    /\ inbox \in Seq(Messages)
    /\ outbox \in Seq(Answers)

NoPatch == [session |-> NoState, kiosk |-> FALSE, exam |-> FALSE]
MonitorOff == [timer |-> FALSE, ticking |-> FALSE]
CoreIdle == [session |-> "IDLE", active |-> NoCall, kiosk |-> FALSE]

(* start() has finished its handshake with a new core. *)
Init ==
    /\ snap = [session |-> "IDLE", kiosk |-> FALSE, exam |-> FALSE,
               audio |-> FALSE, exiting |-> FALSE]
    /\ at = [c \in Calls |-> "unused"]
    /\ patch = [c \in Calls |-> NoPatch]
    /\ prior = NoState
    /\ reverted = FALSE
    /\ demo = FALSE
    /\ monitor = MonitorOff
    /\ audioTimer = "off"
    /\ cleanupTimer = FALSE
    /\ window = FALSE
    /\ input = FALSE
    /\ connected = TRUE
    /\ alive = TRUE
    /\ core = CoreIdle
    /\ refused = FALSE
    /\ inbox = <<>>
    /\ outbox = <<>>

-----------------------------------------------------------------------------
(* The governed snapshot. *)

(* Mutant: a running exam is not locked. *)
GovernedUnlocked(s, p, allow) ==
    LET exitOut == s.exiting /\ "exit" \notin allow
        shown == IF exitOut THEN s ELSE p
        audio == p.session = Running \/ IF "audio" \in allow THEN p.audio ELSE s.audio
    IN [session |-> shown.session, kiosk |-> shown.kiosk, exam |-> shown.exam,
        audio |-> audio \/ shown.session = Running,
        exiting |-> IF exitOut THEN s.exiting ELSE p.exiting]

(***************************************************************************)
(* updateSnapshot: s becomes p as far as the locks let it.  A running exam *)
(* keeps its state, an exit in progress keeps everything but the audio     *)
(* lock, and an exam that is asked to run always locks the audio.          *)
(***************************************************************************)
Governed(s, p, allow) ==
    LET lockedOut == s.session = Running /\ p.session # Running /\ "locked" \notin allow
        exitOut == s.exiting /\ "exit" \notin allow
        shown == IF lockedOut \/ exitOut THEN s ELSE p
        audio == p.session = Running \/ IF "audio" \in allow THEN p.audio ELSE s.audio
    IN [session |-> shown.session, kiosk |-> shown.kiosk, exam |-> shown.exam,
        audio |-> audio \/ shown.session = Running,
        exiting |-> IF exitOut THEN s.exiting ELSE p.exiting]

ExitFlow == {"exit", "locked", "audio"}

(* A snapshot patched with what a start knows, or with an answer. *)
Patched(s, p) == [s EXCEPT !.session = p.session, !.kiosk = p.kiosk, !.exam = p.exam]
Reported(s, r) == Patched(s, [session |-> r.session, kiosk |-> r.kiosk, exam |-> r.kiosk])
Unprotected(s) == [s EXCEPT !.kiosk = FALSE, !.exam = FALSE]
WithAudio(s, locked) == [s EXCEPT !.audio = locked]

ExitRequested(s) ==
    Governed(s, [s EXCEPT !.session = "EXAM_EXIT_REQUESTED", !.exiting = TRUE],
             {"exit", "locked"})
Exiting(s) ==
    Governed(s, [s EXCEPT !.session = "EXAM_EXITING", !.exiting = TRUE], {"exit", "locked"})
EndedFrom(s) == [Unprotected(s) EXCEPT !.session = "EXITED", !.audio = FALSE, !.exiting = FALSE]

-----------------------------------------------------------------------------
(* Requests, answers and the monitor loop. *)

Sent(q, c, tag) == IF connected THEN Append(q, [call |-> c, tag |-> tag]) ELSE q

NoAnswer == [call |-> NoCall, tag |-> "status", ok |-> FALSE, session |-> "IDLE",
             kiosk |-> FALSE]

(***************************************************************************)
(* What ends the wait of a call: the answer to its request, once it is the *)
(* next one read, or NoAnswer: a timeout, a core that is gone, a rejected  *)
(* frame, a failed write.                                                  *)
(***************************************************************************)
Outcomes(c) ==
    {NoAnswer} \cup {r \in {outbox[i] : i \in DOMAIN outbox \cap {1}} :
                       r.call = c /\ r.tag = at[c]}

Unread(r) == IF r = NoAnswer THEN outbox ELSE Tail(outbox)

(* runtimeMonitorGeneration moves on: the ticks under way are of an old one. *)
Outdated(q) ==
    [i \in DOMAIN q |-> IF q[i].tag = "tick" THEN [q[i] EXCEPT !.tag = "old tick"] ELSE q[i]]

KeepMonitor(in, out) ==
    /\ inbox' = in
    /\ outbox' = out
    /\ UNCHANGED monitor

(* stopRuntimeMonitorLoop, with `in` and `out` left in the queues. *)
StopMonitor(in, out) ==
    /\ monitor' = MonitorOff
    /\ inbox' = Outdated(in)
    /\ outbox' = Outdated(out)

(* startRuntimeMonitorLoop under snapshot s, with its first tick. *)
StartMonitor(s, in, out) ==
    IF monitor.timer \/ ~connected \/ s.session = "ENTERING_KIOSK"
      THEN KeepMonitor(in, out)
    ELSE IF s.session # Running
      THEN StopMonitor(in, out)
    ELSE IF ~s.kiosk \/ ~s.exam
      THEN KeepMonitor(in, out)
    ELSE /\ monitor' = [timer |-> TRUE, ticking |-> TRUE]
         /\ inbox' = Sent(in, NoCall, "tick")
         /\ outbox' = out

(* Calls are numbered as they are made. *)
Opens(c, step) ==
    /\ at[c] = "unused"
    /\ \A b \in Calls : b < c => at[b] # "unused"
    /\ at' = [at EXCEPT ![c] = step]

GoesTo(c, step) == at' = [at EXCEPT ![c] = step]

Done(c) ==
    /\ GoesTo(c, "done")
    /\ patch' = [patch EXCEPT ![c] = NoPatch]

LeavesDesktop ==
    /\ window' = FALSE
    /\ input' = FALSE

-----------------------------------------------------------------------------
(* start_exam_session. *)

StartExam(c, cmd) ==
    LET tag == IF cmd = "dry" THEN "dry" ELSE "start" IN
    /\ cmd \in Commands
    /\ Opens(c, tag)
    /\ demo' = (demo \/ cmd = "demo")
    /\ KeepMonitor(Sent(inbox, c, tag), outbox)
    /\ UNCHANGED <<snap, patch, prior, reverted, timerVars, desktopVars, connected, coreVars>>

StartRefused(c, r) ==
    /\ at[c] \in {"start", "dry"}
    /\ ~r.ok
    /\ Done(c)
    /\ KeepMonitor(inbox, Unread(r))
    /\ UNCHANGED <<snap, shellVars, timerVars, desktopVars, connected, coreVars>>

Accepted == Governed(snap, WithAudio(snap, TRUE), {"audio"})

DryStarted(c, r) ==
    /\ at[c] = "dry"
    /\ r.ok
    /\ snap' = Governed(Accepted, WithAudio(Reported(Accepted, r), TRUE), {"audio"})
    /\ Done(c)
    /\ KeepMonitor(inbox, Unread(r))
    /\ UNCHANGED <<shellVars, timerVars, desktopVars, connected, coreVars>>

(* The window is taken over before the core is asked for the kiosk. *)
StartAccepted(c, r) ==
    /\ at[c] = "start"
    /\ r.ok
    /\ snap' = Accepted
    /\ window' = TRUE
    /\ patch' = [patch EXCEPT ![c] = [session |-> r.session, kiosk |-> TRUE, exam |-> TRUE]]
    /\ GoesTo(c, "enter")
    /\ KeepMonitor(Sent(inbox, c, "enter"), Unread(r))
    /\ UNCHANGED <<shellVars, timerVars, input, connected, coreVars>>

(***************************************************************************)
(* The catch block: taking the window (no window is there), or the focus   *)
(* and keyboard guards, threw.  No snapshot but the audio lock is updated. *)
(***************************************************************************)
StartThrows(c, r) ==
    /\ at[c] \in {"start", "enter"}
    /\ r.ok
    /\ snap' = LET s == IF at[c] = "start" THEN Accepted ELSE snap
               IN Governed(s, WithAudio(s, FALSE), {"audio"})
    /\ LeavesDesktop
    /\ GoesTo(c, "abandon")
    /\ patch' = [patch EXCEPT ![c] = NoPatch]
    /\ StopMonitor(Sent(inbox, c, "abandon"), Unread(r))
    /\ UNCHANGED <<shellVars, timerVars, connected, coreVars>>

(* Mutant: the core is not asked to undo what it may have done. *)
EnterRefusedOnly(c, r) ==
    /\ at[c] = "enter"
    /\ ~r.ok
    /\ LeavesDesktop
    /\ GoesTo(c, "rollback")
    /\ KeepMonitor(inbox, Unread(r))
    /\ UNCHANGED <<snap, patch, shellVars, timerVars, connected, coreVars>>

EnterRefused(c, r) ==
    /\ at[c] = "enter"
    /\ ~r.ok
    /\ LeavesDesktop
    /\ GoesTo(c, "rollback")
    /\ KeepMonitor(Sent(inbox, c, "rollback"), Unread(r))
    /\ UNCHANGED <<snap, patch, shellVars, timerVars, connected, coreVars>>

(* The rollback's answer does not matter. *)
RolledBack(c, r) ==
    /\ at[c] = "rollback"
    /\ snap' = Governed(snap, WithAudio(Unprotected(Patched(snap, patch[c])), FALSE), {"audio"})
    /\ Done(c)
    /\ KeepMonitor(inbox, Unread(r))
    /\ UNCHANGED <<shellVars, timerVars, desktopVars, connected, coreVars>>

Abandoned(c, r) ==
    /\ at[c] = "abandon"
    /\ Done(c)
    /\ KeepMonitor(inbox, Unread(r))
    /\ UNCHANGED <<snap, shellVars, timerVars, desktopVars, connected, coreVars>>

(* The kiosk stands; the shell mirrors or installs the guards it reports. *)
Guarded(c, r) ==
    /\ at[c] = "enter"
    /\ r.ok
    /\ input' \in {input, TRUE}
    /\ patch' = [patch EXCEPT ![c] = [session |-> r.session, kiosk |-> window, exam |-> TRUE]]

KioskEntered(c, r) ==
    /\ ~demo
    /\ Guarded(c, r)
    /\ GoesTo(c, "notify1")
    /\ KeepMonitor(Sent(inbox, c, "notify1"), Unread(r))
    /\ UNCHANGED <<snap, shellVars, timerVars, window, connected, coreVars>>

(* A demo exam does not wait for the core's confirmation. *)
DemoEntered(c, r) ==
    /\ demo
    /\ Guarded(c, r)
    /\ snap' = LET p == [patch'[c] EXCEPT !.session = "ENTERING_KIOSK"]
               IN Governed(snap, WithAudio(Patched(snap, p), TRUE), {"audio"})
    /\ GoesTo(c, "confirm")
    /\ KeepMonitor(inbox, Unread(r))
    /\ UNCHANGED <<shellVars, timerVars, window, connected, coreVars>>

DemoPatch == [session |-> Running, kiosk |-> TRUE, exam |-> TRUE]

DemoConfirmed(c) ==
    /\ at[c] = "confirm"
    /\ snap' = Governed(snap, WithAudio(Patched(snap, DemoPatch), TRUE), {"audio"})
    /\ Done(c)
    /\ UNCHANGED <<shellVars, monitor, timerVars, desktopVars, connected, coreVars, inbox,
                   outbox>>

(***************************************************************************)
(* The end of a start: what its answers said is applied, the monitor loop  *)
(* starts, and it is applied again with the audio lock.                    *)
(***************************************************************************)
Settles(c, p, r) ==
    LET settled == Governed(snap, WithAudio(Patched(snap, p), TRUE), {}) IN
    /\ snap' = Governed(settled, WithAudio(Patched(settled, p), TRUE), {"audio"})
    /\ StartMonitor(settled, inbox, Unread(r))
    /\ Done(c)
    /\ UNCHANGED <<shellVars, timerVars, desktopVars, connected, coreVars>>

HandoffConfirmed(c, r) ==
    /\ at[c] \in {"notify1", "notify2"}
    /\ r.ok
    /\ Settles(c, [session |-> r.session, kiosk |-> r.kiosk, exam |-> r.kiosk], r)

HandoffFailed(c, r) ==
    /\ at[c] = "notify1"
    /\ ~r.ok
    /\ GoesTo(c, "retry")
    /\ KeepMonitor(inbox, Unread(r))
    /\ UNCHANGED <<snap, patch, shellVars, timerVars, desktopVars, connected, coreVars>>

HandoffRetried(c) ==
    /\ at[c] = "retry"
    /\ GoesTo(c, "notify2")
    /\ KeepMonitor(Sent(inbox, c, "notify2"), outbox)
    /\ UNCHANGED <<snap, patch, shellVars, timerVars, desktopVars, connected, coreVars>>

(* The start goes on without the core's confirmation. *)
HandoffGivenUp(c, r) ==
    /\ at[c] = "notify2"
    /\ ~r.ok
    /\ Settles(c, patch[c], r)

-----------------------------------------------------------------------------
(* Exits. *)

(***************************************************************************)
(* exit_exam_session, request_emergency_restore, or a forced restore with  *)
(* an explicit intent.  Nothing is done once the exam has exited.          *)
(***************************************************************************)
ExitExam(c) ==
    /\ "exit" \in Commands
    /\ snap.session # "EXITED"
    /\ Opens(c, "exit")
    /\ snap' = ExitRequested(snap)
    /\ audioTimer' = IF audioTimer = "set" THEN "old" ELSE audioTimer
    /\ cleanupTimer' = TRUE
    /\ StopMonitor(Sent(inbox, c, "exit"), outbox)
    /\ UNCHANGED <<patch, shellVars, desktopVars, connected, coreVars>>

(* force_restore_desktop without one: refused while an exam runs. *)
RestoreDesktop(c) ==
    /\ "restore" \in Commands
    /\ snap.session # Running
    /\ Opens(c, "restore")
    /\ KeepMonitor(Sent(inbox, c, "restore"), outbox)
    /\ UNCHANGED <<snap, patch, shellVars, timerVars, desktopVars, connected, coreVars>>

(* The core restored the desktop; so does the shell. *)
ExitAcknowledged(c, r) ==
    /\ at[c] = "exit"
    /\ r.ok
    /\ snap' = Governed(Exiting(snap), EndedFrom(Exiting(snap)), ExitFlow)
    /\ demo' = FALSE
    /\ prior' = NoState
    /\ audioTimer' = "off"
    /\ cleanupTimer' = FALSE
    /\ LeavesDesktop
    /\ Done(c)
    /\ StopMonitor(inbox, Unread(r))
    /\ UNCHANGED <<reverted, connected, coreVars>>

(* The same code without an explicit intent may not change what an exit locks. *)
RestoreAcknowledged(c, r) ==
    /\ at[c] = "restore"
    /\ r.ok
    /\ snap' = Governed(Exiting(snap), EndedFrom(Exiting(snap)), {})
    /\ demo' = FALSE
    /\ audioTimer' = "set"
    /\ LeavesDesktop
    /\ Done(c)
    /\ StopMonitor(inbox, Unread(r))
    /\ UNCHANGED <<prior, reverted, cleanupTimer, connected, coreVars>>

RestoreFailed(c, r) ==
    /\ at[c] = "restore"
    /\ ~r.ok
    /\ Done(c)
    /\ KeepMonitor(inbox, Unread(r))
    /\ UNCHANGED <<snap, shellVars, timerVars, desktopVars, connected, coreVars>>

(* Mutant: the desktop is left as it is. *)
ForceExitCleanupStateOnly(out) ==
    /\ snap' = Governed(Exiting(snap), EndedFrom(Exiting(snap)), ExitFlow)
    /\ demo' = FALSE
    /\ prior' = NoState
    /\ audioTimer' = "off"
    /\ cleanupTimer' = FALSE
    /\ StopMonitor(inbox, out)
    /\ UNCHANGED <<reverted, desktopVars>>

(* Mutant: the cleanup may not change what the exit locks. *)
ForceExitCleanupLockedOut(out) ==
    /\ snap' = Governed(Exiting(snap), EndedFrom(Exiting(snap)), {})
    /\ demo' = FALSE
    /\ prior' = NoState
    /\ audioTimer' = "off"
    /\ cleanupTimer' = FALSE
    /\ LeavesDesktop
    /\ StopMonitor(inbox, out)
    /\ UNCHANGED reverted

(* forceExitCleanup: the shell ends the exam without the core. *)
ForceExitCleanup(out) ==
    /\ snap' = Governed(Exiting(snap), EndedFrom(Exiting(snap)), ExitFlow)
    /\ demo' = FALSE
    /\ prior' = NoState
    /\ audioTimer' = "off"
    /\ cleanupTimer' = FALSE
    /\ LeavesDesktop
    /\ StopMonitor(inbox, out)
    /\ UNCHANGED reverted

ExitUnacknowledged(c, r) ==
    /\ at[c] = "exit"
    /\ ~r.ok
    /\ Done(c)
    /\ IF snap.exiting
         THEN ForceExitCleanup(Unread(r))
         ELSE /\ KeepMonitor(inbox, Unread(r))
              /\ UNCHANGED <<snap, shellVars, timerVars, desktopVars>>
    /\ UNCHANGED <<connected, coreVars>>

(* The exit took EXIT_FORCE_CLEANUP_TIMEOUT_MS. *)
ExitCleanupDue ==
    /\ cleanupTimer
    /\ IF snap.exiting
         THEN ForceExitCleanup(outbox)
         ELSE /\ cleanupTimer' = FALSE
              /\ UNCHANGED <<snap, shellVars, monitor, audioTimer, desktopVars, inbox, outbox>>
    /\ UNCHANGED <<at, patch, connected, coreVars>>

(* EXIT_AUDIO_RESTORE_TIMEOUT_MS after EXAM_EXITING. *)
ExitAudioDue ==
    /\ audioTimer # "off"
    /\ audioTimer' = "off"
    /\ snap' = IF audioTimer = "set" /\ snap.session = "EXAM_EXITING"
                 THEN Governed(snap, WithAudio(snap, FALSE), {"audio"})
                 ELSE snap
    /\ UNCHANGED <<at, patch, shellVars, monitor, cleanupTimer, desktopVars, connected,
                   coreVars, inbox, outbox>>

(* begin_exam_exit_confirmation: the state is remembered, not changed. *)
BeginConfirmation ==
    /\ "confirmation" \in Commands
    /\ ~snap.exiting
    /\ prior' = snap.session
    /\ UNCHANGED <<snap, at, patch, reverted, demo, monitor, timerVars, desktopVars, connected, coreVars,
                   inbox, outbox>>

CancelConfirmation ==
    /\ "confirmation" \in Commands
    /\ prior # NoState \/ snap.exiting
    /\ snap' = LET previous == IF prior = NoState THEN snap.session ELSE prior
               IN Governed(snap, [snap EXCEPT !.session = previous, !.exiting = FALSE], {"exit"})
    /\ prior' = NoState
    /\ reverted' = (reverted \/ (prior # NoState /\ prior # snap.session))
    /\ audioTimer' = "off"
    /\ cleanupTimer' = FALSE
    /\ UNCHANGED <<at, patch, demo, monitor, desktopVars, connected, coreVars, inbox, outbox>>

-----------------------------------------------------------------------------
(* Status, polls and monitor ticks. *)

GetStatus(c) ==
    /\ "status" \in Commands
    /\ Opens(c, "status")
    /\ KeepMonitor(Sent(inbox, c, "status"), outbox)
    /\ UNCHANGED <<snap, patch, shellVars, timerVars, desktopVars, connected, coreVars>>

StatusAnswered(c, r) ==
    /\ at[c] = "status"
    /\ snap' = IF r.ok THEN Governed(snap, Reported(snap, r), {}) ELSE snap
    /\ Done(c)
    /\ KeepMonitor(inbox, Unread(r))
    /\ UNCHANGED <<shellVars, timerVars, desktopVars, connected, coreVars>>

(* get_protection_status asks the core only while an exam runs. *)
Poll(c) ==
    /\ "poll" \in Commands
    /\ ~snap.exiting
    /\ ~demo
    /\ snap.session = Running
    /\ Opens(c, "poll")
    /\ KeepMonitor(Sent(inbox, c, "poll"), outbox)
    /\ UNCHANGED <<snap, patch, shellVars, timerVars, desktopVars, connected, coreVars>>

(* In demo mode it answers, and makes the snapshot say, that the exam runs. *)
DemoPoll ==
    /\ "poll" \in Commands
    /\ ~snap.exiting
    /\ demo
    /\ snap' = Governed(snap, WithAudio(Patched(snap, DemoPatch), TRUE), {"audio"})
    /\ UNCHANGED <<at, patch, shellVars, monitor, timerVars, desktopVars, connected, coreVars,
                   inbox, outbox>>

PollAnswered(c, r) ==
    LET polled == Governed(snap, [Reported(snap, r) EXCEPT !.kiosk = window], {}) IN
    /\ at[c] = "poll"
    /\ IF r.ok
         THEN /\ snap' = polled
              /\ IF polled.kiosk /\ polled.exam /\ polled.session = Running
                   THEN StartMonitor(polled, inbox, Unread(r))
                   ELSE StopMonitor(inbox, Unread(r))
         ELSE /\ KeepMonitor(inbox, Unread(r))
              /\ UNCHANGED snap
    /\ Done(c)
    /\ UNCHANGED <<shellVars, timerVars, desktopVars, connected, coreVars>>

(***************************************************************************)
(* The interval of the loop: a tick that is under way, or a lost core,     *)
(* skips it.  It also stops a loop that finds no running exam, but none    *)
(* ever does: MonitorOnlyInExam.                                           *)
(***************************************************************************)
Tick ==
    /\ monitor.timer
    /\ ~snap.exiting
    /\ snap.session = Running
    /\ snap.kiosk
    /\ snap.exam
    /\ ~monitor.ticking
    /\ connected
    /\ Len(inbox) + Len(outbox) < MaxQueue
    /\ monitor' = [monitor EXCEPT !.ticking = TRUE]
    /\ inbox' = Sent(inbox, NoCall, "tick")
    /\ UNCHANGED <<snap, at, patch, shellVars, timerVars, desktopVars, connected, coreVars,
                   outbox>>

TickAnswered ==
    /\ outbox # <<>>
    /\ Head(outbox).tag = "tick"
    /\ snap' = IF Head(outbox).ok THEN Governed(snap, Reported(snap, Head(outbox)), {}) ELSE snap
    /\ monitor' = [monitor EXCEPT !.ticking = FALSE]
    /\ outbox' = Tail(outbox)
    /\ UNCHANGED <<at, patch, shellVars, timerVars, desktopVars, connected, coreVars, inbox>>

(* The tick's request fails; its answer, if one comes, is for no one. *)
TickFails ==
    /\ monitor.ticking
    /\ connected
    /\ monitor' = [monitor EXCEPT !.ticking = FALSE]
    /\ inbox' = Outdated(inbox)
    /\ outbox' = Outdated(outbox)
    /\ UNCHANGED <<snap, at, patch, shellVars, timerVars, desktopVars, connected, coreVars>>

(* An answer whose request is no longer pending, or a tick of a stopped loop. *)
AnswerDropped ==
    /\ outbox # <<>>
    /\ LET r == Head(outbox) IN
         \/ r.tag = "old tick"
         \/ r.call # NoCall /\ at[r.call] # r.tag
    /\ outbox' = Tail(outbox)
    /\ UNCHANGED <<snap, at, patch, shellVars, monitor, timerVars, desktopVars, connected,
                   coreVars, inbox>>

-----------------------------------------------------------------------------
(* The core: one request at a time, in order. *)

CoreDoes(m, after, ok) ==
    /\ alive
    /\ inbox # <<>>
    /\ m = Head(inbox)
    /\ core' = after
    /\ refused' = IF m.tag \in RestoreRequests THEN ~ok ELSE refused
    /\ inbox' = Tail(inbox)
    /\ outbox' = Append(outbox, [call |-> m.call, tag |-> m.tag, ok |-> ok,
                                 session |-> after.session, kiosk |-> after.kiosk])
    /\ UNCHANGED <<snap, at, patch, shellVars, monitor, timerVars, desktopVars, connected,
                   alive>>

CoreStarts(m) ==
    /\ m.tag \in {"start", "dry"}
    /\ core.active = NoCall
    /\ core.session = "IDLE"
    /\ CoreDoes(m, [session |-> IF m.tag = "dry" THEN Running ELSE "STARTING_EXAM_SESSION",
                    active |-> m.call, kiosk |-> FALSE], TRUE)

CoreEntersKiosk(m) ==
    /\ m.tag = "enter"
    /\ core.active = m.call
    /\ core.session = "STARTING_EXAM_SESSION"
    /\ \/ CoreDoes(m, [core EXCEPT !.session = "ENTERING_KIOSK", !.kiosk = TRUE], TRUE)
       \/ CoreDoes(m, CoreIdle, FALSE)

CoreConfirms(m) ==
    /\ m.tag \in {"notify1", "notify2"}
    /\ core.active = m.call
    /\ core.session = "ENTERING_KIOSK"
    /\ CoreDoes(m, [core EXCEPT !.session = Running], TRUE)

CoreRestores(m) ==
    /\ m.tag \in RestoreRequests
    /\ CoreDoes(m, CoreIdle, TRUE)

CoreReports(m) ==
    /\ m.tag \in {"status", "poll", "tick", "old tick"}
    /\ m.tag \in {"tick", "old tick"} => core.kiosk
    /\ CoreDoes(m, core, TRUE)

(* A failed check, a core degraded by panics, a restore its widget rejects. *)
CoreRefuses(m) ==
    /\ m.tag \notin {"status", "poll"}
    /\ m.tag \in RestoreRequests => Refusing
    /\ CoreDoes(m, core, FALSE)

CoreDies ==
    /\ alive
    /\ alive' = FALSE
    /\ core' = CoreIdle
    /\ UNCHANGED <<snap, at, patch, shellVars, monitor, timerVars, desktopVars, connected,
                   refused, inbox, outbox>>

(***************************************************************************)
(* The exit event of the core's process: everything pending fails, and     *)
(* onExit resets a shell that is not in an exam or on its way out of one.  *)
(* Whether ENTERING_KIOSK is ten seconds old is left open.                 *)
(***************************************************************************)
CoreExitSeen(grace) ==
    LET kept == \/ demo
                \/ snap.session = Running
                \/ snap.session = "ENTERING_KIOSK" /\ grace
                \/ snap.exiting
    IN
    /\ ~alive
    /\ connected
    /\ connected' = FALSE
    /\ monitor' = MonitorOff
    /\ inbox' = <<>>
    /\ outbox' = <<>>
    /\ IF kept
         THEN UNCHANGED <<snap, desktopVars>>
         ELSE /\ LeavesDesktop
              /\ snap' = Governed(snap, [Unprotected(snap) EXCEPT !.session = "INIT"], {})
    /\ UNCHANGED <<at, patch, shellVars, timerVars, coreVars>>

-----------------------------------------------------------------------------
Call(c) ==
    \/ \E cmd \in {"start", "dry", "demo"} : StartExam(c, cmd)
    \/ ExitExam(c)
    \/ RestoreDesktop(c)
    \/ GetStatus(c)
    \/ Poll(c)

(* The wait of call c ends. *)
Continue(c) ==
    \/ \E r \in Outcomes(c) :
         \/ StartRefused(c, r)
         \/ DryStarted(c, r)
         \/ StartAccepted(c, r)
         \/ StartThrows(c, r)
         \/ EnterRefused(c, r)
         \/ RolledBack(c, r)
         \/ Abandoned(c, r)
         \/ KioskEntered(c, r)
         \/ DemoEntered(c, r)
         \/ HandoffConfirmed(c, r)
         \/ HandoffFailed(c, r)
         \/ HandoffGivenUp(c, r)
         \/ ExitAcknowledged(c, r)
         \/ ExitUnacknowledged(c, r)
         \/ RestoreAcknowledged(c, r)
         \/ RestoreFailed(c, r)
         \/ StatusAnswered(c, r)
         \/ PollAnswered(c, r)
    \/ DemoConfirmed(c)
    \/ HandoffRetried(c)

Timers ==
    \/ ExitCleanupDue
    \/ ExitAudioDue
    \/ Tick
    \/ TickAnswered
    \/ TickFails
    \/ AnswerDropped

Core ==
    \/ \E m \in {inbox[i] : i \in DOMAIN inbox \cap {1}} :
         \/ CoreStarts(m)
         \/ CoreEntersKiosk(m)
         \/ CoreConfirms(m)
         \/ CoreRestores(m)
         \/ CoreReports(m)
         \/ CoreRefuses(m)
    \/ CoreDies
    \/ \E grace \in BOOLEAN : CoreExitSeen(grace)

Next ==
    \/ \E c \in Calls : Call(c) \/ Continue(c)
    \/ BeginConfirmation
    \/ CancelConfirmation
    \/ DemoPoll
    \/ Timers
    \/ Core

Spec == Init /\ [][Next]_vars

(* Every wait has a timeout, and timers fire. *)
Fairness ==
    /\ \A c \in Calls : WF_vars(Continue(c))
    /\ WF_vars(ExitCleanupDue)

FairSpec == Spec /\ Fairness

-----------------------------------------------------------------------------
(* Properties. *)

Settled ==
    /\ \A c \in Calls : at[c] \in {"unused", "done"}
    /\ inbox = <<>>
    /\ outbox = <<>>

(***************************************************************************)
(* A kiosk that a core holds is one the shell shows signs of, once all     *)
(* that was asked has been served and answered, or has timed out: a start  *)
(* that fails on the way, times out or is overtaken by an exit leaves no   *)
(* kiosk behind an idle shell.  Excepted is a core that refused a restore. *)
(***************************************************************************)
KioskKnown ==
    Settled /\ core.kiosk /\ ~refused /\ ~reverted =>
        \/ snap.session \in {"ENTERING_KIOSK", Running} \cup ExitStates
        \/ snap.kiosk
        \/ snap.exam

(***************************************************************************)
(* While exitInProgress holds, the snapshot shows one of the exit states,  *)
(* whatever the calls and ticks under way bring.                           *)
(***************************************************************************)
ExitingShowsExit == snap.exiting => snap.session \in ExitStates

(* Where the monitor loop runs, or a tick of it counts, the exam runs. *)
MonitorOnlyInExam ==
    \/ monitor.timer
    \/ \E i \in DOMAIN inbox : inbox[i].tag = "tick"
    \/ \E i \in DOMAIN outbox : outbox[i].tag = "tick"
    => snap.session = Running /\ ~snap.exiting

(***************************************************************************)
(* A shell that shows an exam as exited, with no call left that could      *)
(* change that, has let go of the window and of the input guards, whether  *)
(* or not the core answered the exit.                                      *)
(***************************************************************************)
EndedReleased ==
    /\ snap.session = "EXITED" /\ ~reverted
    /\ \A c \in Calls : at[c] \in {"unused", "done"}
    => ~window /\ ~input

(***************************************************************************)
(* A running exam ends by an exit: no answer, tick, poll, late start, or   *)
(* loss of the core takes the shell out of it.                             *)
(***************************************************************************)
RunningEndsByExit ==
    [][snap.session = Running /\ snap'.session # Running
         => snap'.session \in ExitStates \cup {"EXITED"}]_vars

(* An exit that was asked for unlocks the shell, whether or not the core answers. *)
ExitEnds == snap.session = "EXAM_EXIT_REQUESTED" ~> ~snap.exiting

(***************************************************************************)
(* A session that goes on in ENTERING_KIOSK after a failed handoff, or     *)
(* runs, is protected: with everything served and answered, and a core     *)
(* that lives, the core has a session.                                     *)
(***************************************************************************)
ShownExamIsOn ==
    Settled /\ alive /\ snap.session \in {"ENTERING_KIOSK", Running}
        => core.active # NoCall

(* A restore that began, asked for by the user interface too, unlocks the shell. *)
RestoreEnds == snap.session = "EXAM_EXITING" ~> ~snap.exiting
=============================================================================

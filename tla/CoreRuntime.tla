----------------------------- MODULE CoreRuntime -----------------------------
(***************************************************************************)
(* rust-core/src/main.rs: the exam guard's native core.  One thread serves *)
(* one command at a time on CoreRuntimeState; every handler below is that  *)
(* command's whole effect, with the guard calls, the lifecycle transitions *)
(* and the widget synchronisation it makes.                                *)
(*                                                                         *)
(* The hooks a guard installs live in the core's process and go with it.   *)
(* The hidden taskbar belongs to Explorer and stays hidden when the core   *)
(* is killed.                                                              *)
(***************************************************************************)
EXTENDS Naturals

CONSTANTS
    Sessions,       \* exam session ids
    SignedPolicies, \* policies load_policy can verify
    Builtin,        \* the policy a core starts with
    WidgetPolicies, \* policies that enable the emergency widget
    Hooks,          \* native guards with a hook in the core's process
    InputHook,      \* the keyboard hook, which has commands of its own
    RequireSigned,  \* EDULEARN_REQUIRE_SIGNED_EXAM_POLICY
    Isolated,       \* desktop isolation: the core runs on its own desktop
    PanicThreshold, \* panic_degradation_threshold
    None            \* Option::None

Policies == SignedPolicies \cup {Builtin}
Authorizations == [session : Sessions, policy : Policies]

ASSUME CoreAssumption ==
    /\ RequireSigned \in BOOLEAN
    /\ Isolated \in BOOLEAN
    /\ PanicThreshold \in Nat \ {0}
    /\ InputHook \in Hooks
    /\ None \notin Sessions \cup Policies \cup Authorizations \cup {"shown", "hidden"}

SessionStates == {"INIT", "PREFLIGHT_READY", "STARTING_EXAM_SESSION", "ENTERING_KIOSK",
                  "EXAM_RUNNING_CONFIRMED", "EXAM_RUNNING", "RECOVERY_REQUIRED", "IDLE"}

RuntimeStates == {"Initializing", "Starting", "Healthy", "Degraded", "Recovering",
                  "Fallback", "Failed", "ShuttingDown"}

WidgetStates == {"hidden", "visible", "holding", "rejected", "restoring", "completed"}

VARIABLES
    process,       \* "running", "exited" through main's return, or "killed"
    session,       \* session_state
    active,        \* active_session_id
    snapshot,      \* desktop_state_snapshot.taskbar_visible: "shown", "hidden", None
    authorization, \* active_service_authorization
    policy,        \* loaded_policy
    preflight,     \* the policy preflight_result was computed under
    kiosk,         \* kiosk_active, exam_protection_active, runtime_monitor_active
    installed,     \* the hooks that are in place
    taskbarHidden, \* whether a taskbar window is hidden
    lifecycle,     \* runtime_state_engine's lifecycle state
    producer,      \* process_event_producer: "stopped", "native", "fallback"
    widget,        \* emergency_widget: [visible, state]
    panics,        \* panic_count
    degraded,      \* degraded
    inherited,     \* history: the taskbar was hidden by an earlier process
    lockdown,      \* history: the shell asked for the keyboard hook on its own
    recoveryDue    \* history: the last tick's policy decision asked for recovery

sessionVars == <<session, active, snapshot, authorization>>
policyVars == <<policy, preflight>>
desktopVars == <<installed, taskbarHidden, inherited, lockdown>>
runtimeVars == <<lifecycle, producer>>
panicVars == <<panics, degraded>>
vars == <<process, sessionVars, policyVars, kiosk, desktopVars, runtimeVars, widget,
          panicVars, recoveryDue>>

TypeOK ==
    /\ process \in {"running", "exited", "killed"}
    /\ session \in SessionStates
    /\ active \in Sessions \cup {None}
    /\ snapshot \in {"shown", "hidden", None}
    /\ authorization \in Authorizations \cup {None}
    /\ policy \in Policies
    /\ preflight \in Policies \cup {None}
    /\ kiosk \in BOOLEAN
    /\ installed \subseteq Hooks
    /\ taskbarHidden \in BOOLEAN
    /\ lifecycle \in RuntimeStates
    /\ producer \in {"stopped", "native", "fallback"}
    /\ widget \in [visible : BOOLEAN, state : WidgetStates]
    /\ panics \in 0 .. PanicThreshold
    /\ degraded \in BOOLEAN
    /\ inherited \in BOOLEAN
    /\ lockdown \in BOOLEAN
    /\ recoveryDue \in BOOLEAN

(* initial_runtime_state: everything but the desktop starts afresh. *)
Init ==
    /\ process = "running"
    /\ session = "INIT"
    /\ active = None
    /\ snapshot = None
    /\ authorization = None
    /\ policy = Builtin
    /\ preflight = None
    /\ kiosk = FALSE
    /\ installed = {}
    /\ taskbarHidden = FALSE
    /\ lifecycle = "Initializing"
    /\ producer = "stopped"
    /\ widget = [visible |-> FALSE, state |-> "hidden"]
    /\ panics = 0
    /\ degraded = FALSE
    /\ inherited = FALSE
    /\ lockdown = FALSE
    /\ recoveryDue = FALSE

-----------------------------------------------------------------------------
(* The transition tables. *)

(* session_guard::is_valid_session_transition, without PROTECTION_FAILED and *)
(* RESTORE_FAILED, which no code sets.                                       *)
SessionTransitions ==
    ({"INIT", "IDLE"} \X {"PREFLIGHT_READY"})
    \cup ({"INIT", "IDLE", "PREFLIGHT_READY"} \X {"STARTING_EXAM_SESSION", "EXAM_RUNNING"})
    \cup ({"STARTING_EXAM_SESSION"} \X {"EXAM_RUNNING", "ENTERING_KIOSK", "IDLE"})
    \cup ({"ENTERING_KIOSK"} \X {"EXAM_RUNNING_CONFIRMED", "IDLE"})
    \cup ({"EXAM_RUNNING_CONFIRMED"} \X {"EXAM_RUNNING", "IDLE"})
    \cup ({"EXAM_RUNNING"} \X {"RECOVERY_REQUIRED", "IDLE"})
    \cup {<<"RECOVERY_REQUIRED", "IDLE">>}

ValidSession(from, to) == to = from \/ <<from, to>> \in SessionTransitions

(* runtime_state_engine::is_valid_runtime_transition. *)
RuntimeTransitions ==
    LET Working == {"Healthy", "Degraded", "Recovering", "Fallback"} IN
    ({"Initializing"} \X {"Starting", "Recovering"})
    \cup ((Working \cup {"Starting"}) \X (Working \cup {"Failed"}))
    \cup {<<"Failed", "Recovering">>}
    \cup ((RuntimeStates \ {"ShuttingDown"}) \X {"ShuttingDown"})
    \cup ({"ShuttingDown"} \X {"Initializing", "Starting"})

ValidRuntime(from, to) == to = from \/ <<from, to>> \in RuntimeTransitions

(* A transition whose error the caller ignores. *)
TryRuntime(from, to) == IF ValidRuntime(from, to) THEN to ELSE from

-----------------------------------------------------------------------------
(* The emergency widget: EmergencyRestoreWidgetController. *)

ShouldShow(s, k, p) ==
    /\ p \in WidgetPolicies
    /\ k \/ Isolated
    /\ s \in {"STARTING_EXAM_SESSION", "EXAM_RUNNING", "RECOVERY_REQUIRED"}

(* sync_visibility on a widget w. *)
Synced(w, s, k, p) ==
    IF ShouldShow(s, k, p)
      THEN IF w.visible THEN w ELSE [visible |-> TRUE, state |-> "visible"]
      ELSE [visible |-> FALSE, state |-> "hidden"]

SyncWidget == widget' = Synced(widget, session', kiosk', policy')

(* start_hold and cancel_hold. *)
Held(w) == IF w.visible THEN [w EXCEPT !.state = "holding"] ELSE w
Released(w) == IF w.state = "holding" THEN [w EXCEPT !.state = "visible"] ELSE w

(***************************************************************************)
(* validate_request: `trusted` stands for the checks on the request itself *)
(* (reason, runtime id, freshness, nonce, widget id).                      *)
(***************************************************************************)
Accepts(forSession, trusted) ==
    /\ ShouldShow(session, kiosk, policy)
    /\ active # None
    /\ forSession = active
    /\ trusted

-----------------------------------------------------------------------------
(* Restoring the desktop. *)

(* Mutant: the taskbar is not shown again. *)
ShowNoTaskbar == UNCHANGED <<taskbarHidden, inherited>>

(* show_taskbar: a snapshot of a hidden taskbar leaves it as it is. *)
ShowTaskbar ==
    /\ taskbarHidden' = (taskbarHidden /\ snapshot = "hidden")
    /\ inherited' = (inherited /\ snapshot = "hidden")

(* Mutant: only the keyboard hook is removed. *)
RemoveKeyboardHook ==
    /\ installed' = installed \ {InputHook}
    /\ lockdown' = FALSE

(* The deactivate_ calls of restore_active_protection. *)
RemoveHooks ==
    /\ installed' = {}
    /\ lockdown' = FALSE

StopRuntime ==
    /\ lifecycle' = TryRuntime(TryRuntime(lifecycle, "Recovering"), "ShuttingDown")
    /\ producer' = "stopped"

(* Mutant: active_service_authorization is kept. *)
ForgetSessionOnly ==
    /\ session' = "IDLE"
    /\ active' = None
    /\ snapshot' = None
    /\ kiosk' = FALSE
    /\ UNCHANGED authorization

ForgetSession ==
    /\ session' = "IDLE"
    /\ active' = None
    /\ snapshot' = None
    /\ authorization' = None
    /\ kiosk' = FALSE

(* restore_active_protection, leaving the widget as w. *)
Restore(w) ==
    /\ StopRuntime
    /\ RemoveHooks
    /\ ShowTaskbar
    /\ ForgetSession
    /\ widget' = w
    /\ panics' = 0
    /\ degraded' = FALSE
    /\ recoveryDue' = FALSE
    /\ UNCHANGED policyVars

Completed == [visible |-> FALSE, state |-> "completed"]

HasActiveProtection == active # None \/ snapshot # None \/ kiosk

-----------------------------------------------------------------------------
(* Commands.  A degraded core refuses the commands that change state. *)

Serving == process = "running" /\ ~degraded

(* An optional session id that a command carries. *)
Addressed(s) == s = None \/ active = None \/ s = active

LoadPolicy(p) ==
    /\ Serving
    /\ active = None
    /\ policy' = p
    /\ preflight' = None
    /\ UNCHANGED <<process, sessionVars, kiosk, desktopVars, runtimeVars, widget, panicVars,
                   recoveryDue>>

CollectPrecheck ==
    /\ Serving
    /\ preflight' = None
    /\ UNCHANGED <<process, sessionVars, policy, kiosk, desktopVars, runtimeVars, widget,
                   panicVars, recoveryDue>>

RunPreflight ==
    /\ Serving
    /\ ValidSession(session, "PREFLIGHT_READY")
    /\ session' = "PREFLIGHT_READY"
    /\ preflight' = policy
    /\ UNCHANGED <<process, active, snapshot, authorization, policy, kiosk, desktopVars,
                   runtimeVars, widget, panicVars, recoveryDue>>

(* What the gates of start_exam_session let through: under mandatory signing, *)
(* a signed policy and an authorization issued for this session and policy.   *)
Authorized(s, auth) ==
    RequireSigned => /\ policy # Builtin
                     /\ auth = [session |-> s, policy |-> policy]

Startable(s, auth) ==
    /\ Serving
    /\ active = None
    /\ session # "EXAM_RUNNING"
    /\ Authorized(s, auth)

(* Mutant: the flag is inverted. *)
CapturedInverted == {"hidden"} \cup (IF taskbarHidden THEN {"shown"} ELSE {})

(* capture_desktop_state: a taskbar counts as visible while any window of it is. *)
CapturedTaskbar == {"shown"} \cup (IF taskbarHidden THEN {"hidden"} ELSE {})

(* A real start whose preflight blocks it keeps the report and says so. *)
StartExamBlocked(s, auth) ==
    /\ Startable(s, auth)
    /\ preflight' = policy
    /\ session' = IF ValidSession(session, "PREFLIGHT_READY") THEN "PREFLIGHT_READY"
                                                              ELSE session
    /\ UNCHANGED <<process, active, snapshot, authorization, policy, kiosk, desktopVars,
                   runtimeVars, widget, panicVars, recoveryDue>>

StartExamSession(s, dry, auth) ==
    LET next == IF dry THEN "EXAM_RUNNING" ELSE "STARTING_EXAM_SESSION" IN
    /\ Startable(s, auth)
    /\ ValidSession(session, next)
    /\ preflight' = policy
    /\ session' = next
    /\ active' = s
    /\ authorization' = auth
    /\ snapshot' \in CapturedTaskbar
    /\ kiosk' = FALSE
    /\ UNCHANGED <<process, policy, desktopVars, runtimeVars, panicVars, recoveryDue>>
    /\ SyncWidget

NotifyVisualKioskReady(s) ==
    /\ Serving
    /\ Addressed(s)
    /\ session = "ENTERING_KIOSK"
    /\ session' = "EXAM_RUNNING_CONFIRMED"
    /\ UNCHANGED <<process, active, snapshot, authorization, policyVars, kiosk, desktopVars,
                   runtimeVars, widget, panicVars, recoveryDue>>

KioskEnterable(s) ==
    /\ Serving
    /\ active # None
    /\ snapshot # None
    /\ Addressed(s)
    /\ session = "STARTING_EXAM_SESSION"

(* hide_taskbar may miss a window, or find none. *)
HideTaskbar ==
    /\ taskbarHidden' \in {taskbarHidden, TRUE}
    /\ UNCHANGED <<inherited, lockdown>>

(***************************************************************************)
(* enter_kiosk: each guard is tried, whatever the others did; the runtime  *)
(* moves to Starting and then to what the producer turned out to be.       *)
(***************************************************************************)
EnterKiosk(s, hooks, source) ==
    LET selected == IF source = "fallback" THEN "Fallback" ELSE "Healthy" IN
    /\ KioskEnterable(s)
    /\ ValidRuntime(lifecycle, "Starting")
    /\ ValidRuntime("Starting", selected)
    /\ installed' = installed \cup hooks
    /\ HideTaskbar
    /\ session' = "ENTERING_KIOSK"
    /\ kiosk' = TRUE
    /\ producer' = source
    /\ lifecycle' = selected
    /\ UNCHANGED <<process, active, snapshot, authorization, policyVars, panicVars,
                   recoveryDue>>
    /\ SyncWidget

(* enter_kiosk when the producer does not start: everything is undone. *)
EnterKioskFails(s) ==
    /\ KioskEnterable(s)
    /\ Restore(Completed)
    /\ UNCHANGED process

ExitExamSession(s) ==
    /\ Serving
    /\ Addressed(s)
    /\ Restore(Completed)
    /\ UNCHANGED process

ExitKiosk ==
    /\ Serving
    /\ active # None
    /\ Restore(Completed)
    /\ UNCHANGED process

ForceRestoreDesktop ==
    /\ Serving
    /\ Restore(Completed)
    /\ UNCHANGED process

(***************************************************************************)
(* request_emergency_restore.  An accepted request goes to the             *)
(* bootstrapper when it supervises this core, and is served here when not. *)
(***************************************************************************)
RejectEmergencyRestore(s, trusted) ==
    /\ Serving
    /\ ~Accepts(s, trusted)
    /\ widget' = [widget EXCEPT !.state = "rejected"]
    /\ UNCHANGED <<process, sessionVars, policyVars, kiosk, desktopVars, runtimeVars,
                   panicVars, recoveryDue>>

Restoring == Synced([widget EXCEPT !.state = "restoring"], session, kiosk, policy)

DelegateEmergencyRestore(s, trusted) ==
    /\ Serving
    /\ Accepts(s, trusted)
    /\ widget' = Restoring
    /\ UNCHANGED <<process, sessionVars, policyVars, kiosk, desktopVars, runtimeVars,
                   panicVars, recoveryDue>>

ServeEmergencyRestore(s, trusted) ==
    /\ Serving
    /\ Accepts(s, trusted)
    /\ Restore(Completed)
    /\ UNCHANGED process

(***************************************************************************)
(* process_bootstrapper_widget_interaction runs ahead of every command     *)
(* that is not refused, the read-only ones of a degraded core included; it *)
(* is shown here ahead of a command without effect (ping).                 *)
(***************************************************************************)
WidgetHold(w) ==
    /\ process = "running"
    /\ widget' = Synced(w, session, kiosk, policy)
    /\ UNCHANGED <<process, sessionVars, policyVars, kiosk, desktopVars, runtimeVars,
                   panicVars, recoveryDue>>

WidgetRestore(s, trusted, delegated) ==
    /\ process = "running"
    /\ \/ /\ ~Accepts(s, trusted)
          /\ widget' = Synced([widget EXCEPT !.state = "rejected"], session, kiosk, policy)
          /\ UNCHANGED <<sessionVars, policyVars, kiosk, desktopVars, runtimeVars, panicVars,
                         recoveryDue>>
       \/ /\ Accepts(s, trusted)
          /\ delegated
          /\ widget' = Restoring
          /\ UNCHANGED <<sessionVars, policyVars, kiosk, desktopVars, runtimeVars, panicVars,
                         recoveryDue>>
       \/ /\ Accepts(s, trusted)
          /\ ~delegated
          /\ Restore(Synced(Completed, "IDLE", FALSE, policy))
    /\ UNCHANGED process

(* run_runtime_monitor_tick's gate. *)
Ticking ==
    /\ Serving
    /\ active # None
    /\ kiosk
    /\ session \in {"EXAM_RUNNING", "EXAM_RUNNING_CONFIRMED", "ENTERING_KIOSK"}

(***************************************************************************)
(* run_runtime_monitor_tick: guards are healed, the producer may have      *)
(* changed its source, the runtime's health is recomputed, and a policy    *)
(* violation asks for recovery.  The guards stay healed when the           *)
(* transition it asks for is refused.                                      *)
(***************************************************************************)
RunRuntimeMonitorTick(hooks, source, health, violation) ==
    LET next == IF violation THEN "RECOVERY_REQUIRED" ELSE session IN
    /\ Ticking
    /\ health = "Degraded" \/ health = IF source = "fallback" THEN "Fallback" ELSE "Healthy"
    /\ installed' = installed \cup hooks
    /\ producer' = source
    /\ lifecycle' = TryRuntime(lifecycle, health)
    /\ recoveryDue' = violation
    /\ session' = IF ValidSession(session, next) THEN next ELSE session
    /\ UNCHANGED <<process, active, snapshot, authorization, policyVars, kiosk,
                   taskbarHidden, inherited, lockdown, panicVars>>
    /\ IF ValidSession(session, next) THEN SyncWidget ELSE UNCHANGED widget

GetProtectionStatus ==
    /\ process = "running"
    /\ UNCHANGED <<process, sessionVars, policyVars, kiosk, desktopVars, runtimeVars,
                   panicVars, recoveryDue>>
    /\ SyncWidget

ActivateInputLockdown ==
    /\ Serving
    /\ installed' = installed \cup {InputHook}
    /\ lockdown' = TRUE
    /\ UNCHANGED <<process, sessionVars, policyVars, kiosk, taskbarHidden, inherited,
                   runtimeVars, widget, panicVars, recoveryDue>>

DeactivateInputLockdown ==
    /\ Serving
    /\ installed' = installed \ {InputHook}
    /\ lockdown' = FALSE
    /\ UNCHANGED <<process, sessionVars, policyVars, kiosk, taskbarHidden, inherited,
                   runtimeVars, widget, panicVars, recoveryDue>>

(* A handler that panics is caught; enough of them degrade the core. *)
HandlerPanics ==
    /\ Serving
    /\ panics' = panics + 1
    /\ degraded' = (panics + 1 >= PanicThreshold)
    /\ UNCHANGED <<process, sessionVars, policyVars, kiosk, desktopVars, runtimeVars, widget,
                   recoveryDue>>

-----------------------------------------------------------------------------
(* The process's own life. *)

(***************************************************************************)
(* The command loop ends, by shutdown (even one that a degraded core       *)
(* refuses), at the end of the input or on a write error: what is still    *)
(* protected is restored by the handler or by Drop.                        *)
(***************************************************************************)
Exits ==
    /\ process = "running"
    /\ process' = "exited"
    /\ IF HasActiveProtection
         THEN Restore(Completed)
         ELSE /\ RemoveHooks
              /\ producer' = "stopped"
              /\ UNCHANGED <<sessionVars, policyVars, kiosk, taskbarHidden, inherited,
                             lifecycle, widget, panicVars, recoveryDue>>

(* The process is terminated: nothing of its code runs, its hooks are gone. *)
Killed ==
    /\ process = "running"
    /\ process' = "killed"
    /\ RemoveHooks
    /\ UNCHANGED <<sessionVars, policyVars, kiosk, taskbarHidden, inherited, runtimeVars,
                   widget, panicVars, recoveryDue>>

(* A guard's hook thread ends by itself. *)
HookDies(h) ==
    /\ process = "running"
    /\ h \in installed
    /\ installed' = installed \ {h}
    /\ UNCHANGED <<process, sessionVars, policyVars, kiosk, taskbarHidden, inherited,
                   lockdown, runtimeVars, widget, panicVars, recoveryDue>>

(* The bootstrapper's --emergency-restore helper, which runs after the job died. *)
EmergencyRestore ==
    /\ process # "running"
    /\ taskbarHidden' = FALSE
    /\ inherited' = FALSE
    /\ UNCHANGED <<process, sessionVars, policyVars, kiosk, installed, lockdown, runtimeVars,
                   widget, panicVars, recoveryDue>>

(* A new core: the desktop is all it inherits. *)
Restart ==
    /\ process # "running"
    /\ process' = "running"
    /\ session' = "INIT"
    /\ active' = None
    /\ snapshot' = None
    /\ authorization' = None
    /\ policy' = Builtin
    /\ preflight' = None
    /\ kiosk' = FALSE
    /\ lifecycle' = "Initializing"
    /\ producer' = "stopped"
    /\ widget' = [visible |-> FALSE, state |-> "hidden"]
    /\ panics' = 0
    /\ degraded' = FALSE
    /\ recoveryDue' = FALSE
    /\ inherited' = taskbarHidden
    /\ UNCHANGED <<installed, taskbarHidden, lockdown>>

SessionCommand ==
    \/ \E p \in SignedPolicies : LoadPolicy(p)
    \/ CollectPrecheck
    \/ RunPreflight
    \/ \E s \in Sessions, auth \in Authorizations \cup {None} :
         \/ StartExamBlocked(s, auth)
         \/ \E dry \in BOOLEAN : StartExamSession(s, dry, auth)
    \/ \E s \in Sessions \cup {None} :
         \/ NotifyVisualKioskReady(s)
         \/ \E hooks \in SUBSET Hooks, source \in {"native", "fallback"} :
              EnterKiosk(s, hooks, source)
         \/ EnterKioskFails(s)

RestoreCommand ==
    \/ \E s \in Sessions \cup {None} : ExitExamSession(s)
    \/ ExitKiosk
    \/ ForceRestoreDesktop
    \/ \E s \in Sessions \cup {None}, trusted \in BOOLEAN :
         \/ RejectEmergencyRestore(s, trusted)
         \/ DelegateEmergencyRestore(s, trusted)
         \/ ServeEmergencyRestore(s, trusted)
         \/ \E delegated \in BOOLEAN : WidgetRestore(s, trusted, delegated)
    \/ WidgetHold(Held(widget))
    \/ WidgetHold(Released(widget))

RuntimeCommand ==
    \/ \E hooks \in SUBSET Hooks, source \in {"native", "fallback"},
          health \in {"Healthy", "Fallback", "Degraded"}, violation \in BOOLEAN :
         RunRuntimeMonitorTick(hooks, source, health, violation)
    \/ GetProtectionStatus
    \/ ActivateInputLockdown
    \/ DeactivateInputLockdown
    \/ HandlerPanics

Environment ==
    \/ Exits
    \/ Killed
    \/ \E h \in Hooks : HookDies(h)
    \/ EmergencyRestore
    \/ Restart

Next == SessionCommand \/ RestoreCommand \/ RuntimeCommand \/ Environment

Spec == Init /\ [][Next]_vars

-----------------------------------------------------------------------------
(***************************************************************************)
(* A live core that hid the taskbar remembers that it was shown: whatever  *)
(* path ends the session, show_taskbar puts it back.                       *)
(***************************************************************************)
TaskbarAccounted == process = "running" /\ taskbarHidden /\ ~inherited => snapshot = "shown"

(* A core that left its loop, by whatever path, hid nothing that is still    *)
(* hidden (Drop for CoreRuntimeState).                                       *)
GracefulExit == process = "exited" /\ taskbarHidden => inherited

(* No hook outlives the session, or the explicit lockdown, it was installed  *)
(* for (restore_active_protection).                                          *)
HooksOnlyInSession == installed # {} => active # None \/ lockdown

(***************************************************************************)
(* Under mandatory signing a session runs with the authorization issued    *)
(* for it and for the policy that is loaded, and none survives its session *)
(* (start_exam_session, load_policy, restore_active_protection): the tick  *)
(* hands it to the elevated service.                                       *)
(***************************************************************************)
SignedSessionAuthorized ==
    RequireSigned =>
        IF active = None THEN authorization = None
                         ELSE authorization = [session |-> active, policy |-> policy]

(* A preflight decision is only kept while the policy it was taken under is  *)
(* the one loaded (load_policy, run_preflight).                              *)
PreflightMatchesPolicy == preflight \in {None, policy}

(* Between commands the widget is shown exactly when the policy and the      *)
(* state call for it (every caller of sync_emergency_widget_visibility).     *)
WidgetTracksSession == widget.visible <=> ShouldShow(session, kiosk, policy)

(***************************************************************************)
(* The runtime engine and its producer run exactly under a kiosk, over a   *)
(* captured session, and are left where the next enter_kiosk can start     *)
(* them: without this the next exam could not enter its kiosk.             *)
(***************************************************************************)
RuntimeFollowsKiosk ==
    IF kiosk
      THEN /\ active # None /\ snapshot # None
           /\ session \in {"ENTERING_KIOSK", "EXAM_RUNNING_CONFIRMED"}
           /\ lifecycle \in {"Healthy", "Fallback", "Degraded"}
           /\ producer # "stopped"
      ELSE /\ ValidRuntime(lifecycle, "Starting")
           /\ producer = "stopped"

(* A running core only leaves a session with its desktop restored.           *)
SessionEndsRestored ==
    [][process = "running" /\ active # None /\ active' = None =>
         installed' = {} /\ ~kiosk' /\ (taskbarHidden' => inherited')]_vars

(* Nothing replaces the session, its policy or its snapshot under way.       *)
SessionNotReplaced ==
    [][active # None /\ active' # None => UNCHANGED <<active, policy, snapshot>>]_vars

(***************************************************************************)
(* "Strict runtime policy requires recovery." (runtime_monitor.rs): after  *)
(* such a tick the session is in RECOVERY_REQUIRED.                        *)
(***************************************************************************)
ViolationEntersRecovery == recoveryDue => session = "RECOVERY_REQUIRED"
=============================================================================

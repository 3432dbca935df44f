-------------------------- MODULE CoreRuntimeProofs --------------------------
(***************************************************************************)
(* CoreRuntime's invariants, for every set of sessions, policies and hooks *)
(* and every configuration.  They are not inductive one by one: what a     *)
(* restore leaves behind depends on the snapshot, what the snapshot says   *)
(* depends on what the session found, and what the widget shows depends on *)
(* which states have a session.                                            *)
(***************************************************************************)
EXTENDS CoreRuntime, TLAPS

(* The states of a session that has an id. *)
Underway == {"STARTING_EXAM_SESSION", "ENTERING_KIOSK", "EXAM_RUNNING_CONFIRMED",
             "EXAM_RUNNING", "RECOVERY_REQUIRED"}

(* A session is under way exactly while it has an id and a snapshot. *)
SessionHasId == active # None <=> session \in Underway
SessionHasSnapshot == active # None <=> snapshot # None

(* A live core's snapshot of a hidden taskbar is still true, and not its doing. *)
SnapshotTruthful == process = "running" /\ snapshot = "hidden" => taskbarHidden /\ inherited

DegradedAtThreshold == degraded <=> panics = PanicThreshold

(* Without a session only the keyboard hook may be in place; no process, no hook. *)
HooksOfLockdown == active = None => installed \subseteq {InputHook}
HooksOfProcess == process # "running" => installed = {}

Links ==
    /\ HooksOfLockdown
    /\ HooksOfProcess
    /\ SessionHasId
    /\ SessionHasSnapshot
    /\ SnapshotTruthful
    /\ DegradedAtThreshold

Safety ==
    /\ TaskbarAccounted
    /\ GracefulExit
    /\ HooksOnlyInSession
    /\ SignedSessionAuthorized
    /\ PreflightMatchesPolicy
    /\ WidgetTracksSession
    /\ RuntimeFollowsKiosk

IInv == TypeOK /\ Links /\ Safety

-----------------------------------------------------------------------------
(* The transition tables: what may become PREFLIGHT_READY, and what a kiosk's *)
(* session may become.                                                        *)
LEMMA SessionTable ==
    /\ \A s : ValidSession(s, "PREFLIGHT_READY") => s \in {"INIT", "IDLE", "PREFLIGHT_READY"}
    /\ \A s \in {"ENTERING_KIOSK", "EXAM_RUNNING_CONFIRMED"} :
         ~ValidSession(s, "RECOVERY_REQUIRED")
BY DEF ValidSession, SessionTransitions

(* A restore stops the runtime from wherever it is, and a stopped or new one *)
(* can start.                                                                *)
LEMMA RuntimeTable ==
    /\ \A s \in RuntimeStates : TryRuntime(TryRuntime(s, "Recovering"), "ShuttingDown") =
                                "ShuttingDown"
    /\ ValidRuntime("ShuttingDown", "Starting")
    /\ ValidRuntime("Initializing", "Starting")
<1>1. \A s \in RuntimeStates : ValidRuntime(s, "ShuttingDown")
  BY SMTT(30) DEF ValidRuntime, RuntimeTransitions, RuntimeStates
<1>2. ValidRuntime("ShuttingDown", "Starting") /\ ValidRuntime("Initializing", "Starting")
  BY DEF ValidRuntime, RuntimeTransitions
<1> QED  BY <1>1, <1>2 DEF TryRuntime, RuntimeStates

(* A tick finds the health it is asked to take among the reachable ones. *)
LEMMA TickTable ==
    ASSUME NEW l \in {"Healthy", "Fallback", "Degraded"},
           NEW h \in {"Healthy", "Fallback", "Degraded"}
    PROVE  TryRuntime(l, h) \in {"Healthy", "Fallback", "Degraded"}
BY DEF TryRuntime

(* sync_visibility makes the widget visible exactly when it should be. *)
LEMMA SyncedWidget ==
    ASSUME NEW w \in [visible : BOOLEAN, state : WidgetStates], NEW s, NEW k, NEW p
    PROVE  /\ Synced(w, s, k, p) \in [visible : BOOLEAN, state : WidgetStates]
           /\ Synced(w, s, k, p).visible = ShouldShow(s, k, p)
<1>1. CASE ShouldShow(s, k, p)
  BY <1>1 DEF Synced, WidgetStates, ShouldShow
<1>2. CASE ~ShouldShow(s, k, p)
  BY <1>2 DEF Synced, WidgetStates, ShouldShow
<1> QED  BY <1>1, <1>2

-----------------------------------------------------------------------------
(* What each command and each event preserves. *)

LEMMA LoadPolicyKeeps ==
    ASSUME NEW p \in SignedPolicies,
           IInv, LoadPolicy(p)
    PROVE  IInv'
<1> USE CoreAssumption DEF IInv, LoadPolicy, Policies, Serving, sessionVars, policyVars,
        desktopVars, runtimeVars, panicVars
<1>1. TypeOK'
  BY DEF TypeOK
<1>2. Links'
  BY DEF TypeOK, Links, HooksOfLockdown, HooksOfProcess, SessionHasId, SessionHasSnapshot,
     SnapshotTruthful, DegradedAtThreshold, Underway
<1>3. Safety'
  BY DEF TypeOK, Links, HooksOfLockdown, HooksOfProcess, SessionHasId, SessionHasSnapshot,
     SnapshotTruthful, DegradedAtThreshold, Underway,
     Safety, TaskbarAccounted, GracefulExit, HooksOnlyInSession, SignedSessionAuthorized,
     PreflightMatchesPolicy, WidgetTracksSession, RuntimeFollowsKiosk, ShouldShow
<1> QED  BY <1>1, <1>2, <1>3

LEMMA CollectPrecheckKeeps ==
    ASSUME IInv, CollectPrecheck
    PROVE  IInv'
<1> USE CoreAssumption DEF IInv, CollectPrecheck, Serving, sessionVars, policyVars,
        desktopVars, runtimeVars, panicVars
<1>1. TypeOK'
  BY DEF TypeOK
<1>2. Links'
  BY DEF TypeOK, Links, HooksOfLockdown, HooksOfProcess, SessionHasId, SessionHasSnapshot,
     SnapshotTruthful, DegradedAtThreshold, Underway
<1>3. Safety'
  BY DEF TypeOK, Links, HooksOfLockdown, HooksOfProcess, SessionHasId, SessionHasSnapshot,
     SnapshotTruthful, DegradedAtThreshold, Underway,
     Safety, TaskbarAccounted, GracefulExit, HooksOnlyInSession, SignedSessionAuthorized,
     PreflightMatchesPolicy, WidgetTracksSession, RuntimeFollowsKiosk, ShouldShow
<1> QED  BY <1>1, <1>2, <1>3

LEMMA RunPreflightKeeps ==
    ASSUME IInv, RunPreflight
    PROVE  IInv'
<1> USE SessionTable, CoreAssumption DEF IInv, RunPreflight, SessionStates, Serving,
        sessionVars, policyVars, desktopVars, runtimeVars, panicVars
<1>1. TypeOK'
  BY DEF TypeOK
<1>2. Links'
  BY DEF TypeOK, Links, HooksOfLockdown, HooksOfProcess, SessionHasId, SessionHasSnapshot,
     SnapshotTruthful, DegradedAtThreshold, Underway
<1>3. Safety'
  BY DEF TypeOK, Links, HooksOfLockdown, HooksOfProcess, SessionHasId, SessionHasSnapshot,
     SnapshotTruthful, DegradedAtThreshold, Underway,
     Safety, TaskbarAccounted, GracefulExit, HooksOnlyInSession, SignedSessionAuthorized,
     PreflightMatchesPolicy, WidgetTracksSession, RuntimeFollowsKiosk, ShouldShow
<1> QED  BY <1>1, <1>2, <1>3

LEMMA StartExamBlockedKeeps ==
    ASSUME NEW s \in Sessions, NEW auth \in Authorizations \cup {None},
           IInv, StartExamBlocked(s, auth)
    PROVE  IInv'
<1> USE SessionTable, CoreAssumption DEF IInv, StartExamBlocked, Startable, SessionStates,
        Serving, sessionVars, policyVars, desktopVars, runtimeVars, panicVars
<1>1. TypeOK'
  BY DEF TypeOK
<1>2. Links'
  BY DEF TypeOK, Links, HooksOfLockdown, HooksOfProcess, SessionHasId, SessionHasSnapshot,
     SnapshotTruthful, DegradedAtThreshold, Underway
<1>3. Safety'
  BY DEF TypeOK, Links, HooksOfLockdown, HooksOfProcess, SessionHasId, SessionHasSnapshot,
     SnapshotTruthful, DegradedAtThreshold, Underway,
     Safety, TaskbarAccounted, GracefulExit, HooksOnlyInSession, SignedSessionAuthorized,
     PreflightMatchesPolicy, WidgetTracksSession, RuntimeFollowsKiosk, ShouldShow
<1> QED  BY <1>1, <1>2, <1>3

LEMMA StartExamSessionKeeps ==
    ASSUME NEW s \in Sessions, NEW dry \in BOOLEAN,
           NEW auth \in Authorizations \cup {None},
           IInv, StartExamSession(s, dry, auth)
    PROVE  IInv'
<1>1. TypeOK'
  <2>1. widget' \in [visible : BOOLEAN, state : WidgetStates]
    BY DEF IInv, TypeOK, StartExamSession, SyncWidget, Synced, WidgetStates
  <2>2. session' \in SessionStates /\ active' \in Sessions \cup {None}
    BY DEF StartExamSession, SessionStates
  <2>3. /\ snapshot' \in {"shown", "hidden", None}
        /\ authorization' \in Authorizations \cup {None}
        /\ preflight' \in Policies \cup {None}
        /\ kiosk' \in BOOLEAN
    BY DEF IInv, TypeOK, StartExamSession, CapturedTaskbar
  <2>4. UNCHANGED <<process, policy, installed, taskbarHidden, inherited, lockdown, lifecycle,
                    producer, panics, degraded, recoveryDue>>
    BY DEF StartExamSession, desktopVars, runtimeVars, panicVars
  <2> QED  BY <2>1, <2>2, <2>3, <2>4 DEF IInv, TypeOK
<1> USE CoreAssumption DEF IInv, StartExamSession, Startable, Authorized, CapturedTaskbar,
        SessionStates, WidgetStates, SyncWidget, Synced, ShouldShow, Serving, sessionVars,
        policyVars, desktopVars, runtimeVars, panicVars
<1>2. Links'
  <2>1. HooksOfLockdown' /\ HooksOfProcess' /\ SessionHasId' /\ DegradedAtThreshold'
    BY DEF TypeOK, Links, HooksOfLockdown, HooksOfProcess, SessionHasId, DegradedAtThreshold,
           Underway
  <2>2. SessionHasSnapshot'
    BY DEF TypeOK, SessionHasSnapshot
  <2>3. taskbarHidden => inherited
    BY DEF TypeOK, Links, SessionHasSnapshot, Safety, TaskbarAccounted
  <2>4. SnapshotTruthful'
    BY <2>3, Zenon DEF SnapshotTruthful
  <2> QED  BY <2>1, <2>2, <2>4 DEF Links
<1>3. Safety'
  BY DEF TypeOK, Links, HooksOfLockdown, HooksOfProcess, SessionHasId, SessionHasSnapshot,
     SnapshotTruthful, DegradedAtThreshold, Underway,
     Safety, TaskbarAccounted, GracefulExit, HooksOnlyInSession, SignedSessionAuthorized,
     PreflightMatchesPolicy, WidgetTracksSession, RuntimeFollowsKiosk, ShouldShow
<1> QED  BY <1>1, <1>2, <1>3

LEMMA NotifyVisualKioskReadyKeeps ==
    ASSUME NEW s,
           IInv, NotifyVisualKioskReady(s)
    PROVE  IInv'
<1> USE CoreAssumption DEF IInv, NotifyVisualKioskReady, SessionStates, Serving, sessionVars,
        policyVars, desktopVars, runtimeVars, panicVars
<1>1. TypeOK'
  BY DEF TypeOK
<1>2. Links'
  BY DEF TypeOK, Links, HooksOfLockdown, HooksOfProcess, SessionHasId, SessionHasSnapshot,
     SnapshotTruthful, DegradedAtThreshold, Underway
<1>3. Safety'
  BY DEF TypeOK, Links, HooksOfLockdown, HooksOfProcess, SessionHasId, SessionHasSnapshot,
     SnapshotTruthful, DegradedAtThreshold, Underway,
     Safety, TaskbarAccounted, GracefulExit, HooksOnlyInSession, SignedSessionAuthorized,
     PreflightMatchesPolicy, WidgetTracksSession, RuntimeFollowsKiosk, ShouldShow
<1> QED  BY <1>1, <1>2, <1>3

LEMMA EnterKioskKeeps ==
    ASSUME NEW s, NEW hooks \in SUBSET Hooks, NEW source \in {"native", "fallback"},
           IInv, EnterKiosk(s, hooks, source)
    PROVE  IInv'
<1> USE CoreAssumption DEF IInv, EnterKiosk, KioskEnterable, HideTaskbar, SessionStates,
        RuntimeStates, WidgetStates, Policies, SyncWidget, Synced, ShouldShow, Serving,
        sessionVars, policyVars, desktopVars, runtimeVars, panicVars
<1>1. TypeOK'
  BY DEF TypeOK
<1>2. Links'
  <2>1. HooksOfLockdown' /\ HooksOfProcess' /\ SessionHasId' /\ SessionHasSnapshot'
          /\ DegradedAtThreshold'
    BY DEF TypeOK, Links, HooksOfLockdown, HooksOfProcess, SessionHasId, SessionHasSnapshot,
           DegradedAtThreshold, Underway
  <2>2. SnapshotTruthful'
    <3>1. taskbarHidden => taskbarHidden'
      BY Zenon
    <3> QED  BY <3>1, Zenon DEF Links, SnapshotTruthful
  <2> QED  BY <2>1, <2>2 DEF Links
<1>3. Safety'
  BY DEF TypeOK, Links, HooksOfLockdown, HooksOfProcess, SessionHasId, SessionHasSnapshot,
     SnapshotTruthful, DegradedAtThreshold, Underway,
     Safety, TaskbarAccounted, GracefulExit, HooksOnlyInSession, SignedSessionAuthorized,
     PreflightMatchesPolicy, WidgetTracksSession, RuntimeFollowsKiosk, ShouldShow
<1> QED  BY <1>1, <1>2, <1>3

LEMMA RejectEmergencyRestoreKeeps ==
    ASSUME NEW s, NEW trusted,
           IInv, RejectEmergencyRestore(s, trusted)
    PROVE  IInv'
<1> USE CoreAssumption DEF IInv, RejectEmergencyRestore, WidgetStates, Serving, sessionVars,
        policyVars, desktopVars, runtimeVars, panicVars
<1>1. TypeOK'
  BY DEF TypeOK
<1>2. Links'
  BY DEF TypeOK, Links, HooksOfLockdown, HooksOfProcess, SessionHasId, SessionHasSnapshot,
     SnapshotTruthful, DegradedAtThreshold, Underway
<1>3. Safety'
  BY DEF TypeOK, Links, HooksOfLockdown, HooksOfProcess, SessionHasId, SessionHasSnapshot,
     SnapshotTruthful, DegradedAtThreshold, Underway,
     Safety, TaskbarAccounted, GracefulExit, HooksOnlyInSession, SignedSessionAuthorized,
     PreflightMatchesPolicy, WidgetTracksSession, RuntimeFollowsKiosk, ShouldShow
<1> QED  BY <1>1, <1>2, <1>3

LEMMA WidgetAsKeeps ==
    ASSUME IInv, process = "running", widget' \in [visible : BOOLEAN, state : WidgetStates],
           widget'.visible = ShouldShow(session, kiosk, policy),
           UNCHANGED <<process, sessionVars, policyVars, kiosk, desktopVars, runtimeVars,
                       panicVars, recoveryDue>>
    PROVE  IInv'
<1> USE CoreAssumption DEF IInv, sessionVars, policyVars, desktopVars, runtimeVars, panicVars
<1>1. TypeOK'
  BY DEF TypeOK
<1>2. Links'
  BY DEF TypeOK, Links, HooksOfLockdown, HooksOfProcess, SessionHasId, SessionHasSnapshot,
     SnapshotTruthful, DegradedAtThreshold, Underway
<1>3. Safety'
  BY DEF TypeOK, Links, HooksOfLockdown, HooksOfProcess, SessionHasId, SessionHasSnapshot,
     SnapshotTruthful, DegradedAtThreshold, Underway,
     Safety, TaskbarAccounted, GracefulExit, HooksOnlyInSession, SignedSessionAuthorized,
     PreflightMatchesPolicy, WidgetTracksSession, RuntimeFollowsKiosk, ShouldShow
<1> QED  BY <1>1, <1>2, <1>3

LEMMA RestoreKeeps ==
    ASSUME NEW w,
           IInv, Restore(w), w \in [visible : {FALSE}, state : WidgetStates],
           process = "running", process' \in {"running", "exited"}
    PROVE  IInv'
<1> USE RuntimeTable, CoreAssumption DEF IInv, Restore, StopRuntime, RemoveHooks, ShowTaskbar,
        ForgetSession, SessionStates, RuntimeStates, policyVars
<1>1. TypeOK'
  <2>1. panics' \in 0 .. PanicThreshold
    OBVIOUS
  <2>2. /\ taskbarHidden' \in BOOLEAN /\ inherited' \in BOOLEAN /\ lockdown' \in BOOLEAN
        /\ degraded' \in BOOLEAN /\ recoveryDue' \in BOOLEAN /\ kiosk' \in BOOLEAN
    BY Zenon DEF TypeOK
  <2>3. /\ process' \in {"running", "exited", "killed"} /\ session' \in SessionStates
        /\ active' \in Sessions \cup {None} /\ snapshot' \in {"shown", "hidden", None}
        /\ authorization' \in Authorizations \cup {None} /\ policy' \in Policies
        /\ preflight' \in Policies \cup {None} /\ installed' \subseteq Hooks
        /\ lifecycle' \in RuntimeStates /\ producer' \in {"stopped", "native", "fallback"}
        /\ widget' \in [visible : BOOLEAN, state : WidgetStates]
    BY DEF TypeOK
  <2> QED  BY <2>1, <2>2, <2>3, Zenon DEF TypeOK
<1>2. Links'
  BY DEF TypeOK, Links, HooksOfLockdown, HooksOfProcess, SessionHasId, SessionHasSnapshot,
     SnapshotTruthful, DegradedAtThreshold, Underway
<1>3. Safety'
  BY DEF TypeOK, Links, HooksOfLockdown, HooksOfProcess, SessionHasId, SessionHasSnapshot,
     SnapshotTruthful, DegradedAtThreshold, Underway,
     Safety, TaskbarAccounted, GracefulExit, HooksOnlyInSession, SignedSessionAuthorized,
     PreflightMatchesPolicy, WidgetTracksSession, RuntimeFollowsKiosk, ShouldShow
<1> QED  BY <1>1, <1>2, <1>3

LEMMA RunRuntimeMonitorTickKeeps ==
    ASSUME NEW hooks \in SUBSET Hooks, NEW source \in {"native", "fallback"},
           NEW health \in {"Healthy", "Fallback", "Degraded"}, NEW violation \in BOOLEAN,
           IInv, RunRuntimeMonitorTick(hooks, source, health, violation)
    PROVE  IInv'
<1> USE SessionTable, TickTable, CoreAssumption DEF IInv, RunRuntimeMonitorTick, Ticking,
        SessionStates, RuntimeStates, WidgetStates, Policies, SyncWidget, Serving,
        sessionVars, policyVars, desktopVars, runtimeVars, panicVars
<1>1. TypeOK'
  <2>1. lifecycle \in {"Healthy", "Fallback", "Degraded"}
    BY DEF Safety, RuntimeFollowsKiosk
  <2>2. lifecycle' \in {"Healthy", "Fallback", "Degraded"}
    BY <2>1
  <2>3. recoveryDue' \in BOOLEAN
    BY Zenon
  <2>4. session' \in SessionStates
    BY DEF TypeOK
  <2>5. widget' \in [visible : BOOLEAN, state : WidgetStates]
    <3>1. widget' = widget \/ widget' = Synced(widget, session', kiosk', policy')
      BY Zenon
    <3>2. widget \in [visible : BOOLEAN, state : WidgetStates]
      BY DEF TypeOK
    <3>3. Synced(widget, session', kiosk', policy') \in [visible : BOOLEAN, state : WidgetStates]
      BY <3>2, SyncedWidget
    <3> QED  BY <3>1, <3>2, <3>3, Zenon
  <2>6. lifecycle' \in RuntimeStates /\ installed' \subseteq Hooks
    BY <2>2 DEF TypeOK
  <2>7. kiosk' \in BOOLEAN /\ inherited' \in BOOLEAN /\ taskbarHidden' \in BOOLEAN
    BY DEF TypeOK
  <2> QED  BY <2>3, <2>4, <2>5, <2>6, <2>7 DEF TypeOK
<1>2. Links'
  BY DEF TypeOK, Links, HooksOfLockdown, HooksOfProcess, SessionHasId, SessionHasSnapshot,
     SnapshotTruthful, DegradedAtThreshold, Underway
<1>3. Safety'
  <2>1. lifecycle \in {"Healthy", "Fallback", "Degraded"}
    BY DEF Safety, RuntimeFollowsKiosk
  <2>2. lifecycle' \in {"Healthy", "Fallback", "Degraded"}
    BY <2>1
  <2>3. session' \in {"ENTERING_KIOSK", "EXAM_RUNNING_CONFIRMED"}
    BY DEF Safety, RuntimeFollowsKiosk
  <2>4. RuntimeFollowsKiosk'
    BY <2>2, <2>3 DEF Safety, RuntimeFollowsKiosk
  <2>5. WidgetTracksSession'
    <3>1. widget' = widget \/ widget' = Synced(widget, session', kiosk', policy')
      BY Zenon
    <3>2. CASE widget' = widget
      BY <2>3, <3>2 DEF Safety, RuntimeFollowsKiosk, WidgetTracksSession, ShouldShow
    <3>3. CASE widget' = Synced(widget, session', kiosk', policy')
      <4>1. widget \in [visible : BOOLEAN, state : WidgetStates]
        BY DEF TypeOK
      <4>2. CASE ShouldShow(session', kiosk', policy')
        BY <3>3, <4>1, <4>2 DEF Synced, ShouldShow, WidgetTracksSession
      <4>3. CASE ~ShouldShow(session', kiosk', policy')
        BY <3>3, <4>1, <4>3 DEF Synced, ShouldShow, WidgetTracksSession
      <4> QED  BY <4>2, <4>3
    <3> QED  BY <3>1, <3>2, <3>3
  <2>6. TaskbarAccounted' /\ GracefulExit' /\ HooksOnlyInSession' /\ SignedSessionAuthorized'
          /\ PreflightMatchesPolicy'
    BY DEF TypeOK, Safety, TaskbarAccounted, GracefulExit, HooksOnlyInSession,
       SignedSessionAuthorized, PreflightMatchesPolicy
  <2> QED  BY <2>4, <2>5, <2>6 DEF Safety
<1> QED  BY <1>1, <1>2, <1>3

LEMMA ActivateInputLockdownKeeps ==
    ASSUME IInv, ActivateInputLockdown
    PROVE  IInv'
<1> USE CoreAssumption DEF IInv, ActivateInputLockdown, Serving, sessionVars, policyVars,
        desktopVars, runtimeVars, panicVars
<1>1. TypeOK'
  BY DEF TypeOK
<1>2. Links'
  BY DEF TypeOK, Links, HooksOfLockdown, HooksOfProcess, SessionHasId, SessionHasSnapshot,
     SnapshotTruthful, DegradedAtThreshold, Underway
<1>3. Safety'
  BY DEF TypeOK, Links, HooksOfLockdown, HooksOfProcess, SessionHasId, SessionHasSnapshot,
     SnapshotTruthful, DegradedAtThreshold, Underway,
     Safety, TaskbarAccounted, GracefulExit, HooksOnlyInSession, SignedSessionAuthorized,
     PreflightMatchesPolicy, WidgetTracksSession, RuntimeFollowsKiosk, ShouldShow
<1> QED  BY <1>1, <1>2, <1>3

LEMMA DeactivateInputLockdownKeeps ==
    ASSUME IInv, DeactivateInputLockdown
    PROVE  IInv'
<1> USE CoreAssumption DEF IInv, DeactivateInputLockdown, Serving, sessionVars, policyVars,
        desktopVars, runtimeVars, panicVars
<1>1. TypeOK'
  BY DEF TypeOK
<1>2. Links'
  BY DEF TypeOK, Links, HooksOfLockdown, HooksOfProcess, SessionHasId, SessionHasSnapshot,
     SnapshotTruthful, DegradedAtThreshold, Underway
<1>3. Safety'
  BY DEF TypeOK, Links, HooksOfLockdown, HooksOfProcess, SessionHasId, SessionHasSnapshot,
     SnapshotTruthful, DegradedAtThreshold, Underway,
     Safety, TaskbarAccounted, GracefulExit, HooksOnlyInSession, SignedSessionAuthorized,
     PreflightMatchesPolicy, WidgetTracksSession, RuntimeFollowsKiosk, ShouldShow
<1> QED  BY <1>1, <1>2, <1>3

LEMMA HandlerPanicsKeeps ==
    ASSUME IInv, HandlerPanics
    PROVE  IInv'
<1> USE CoreAssumption DEF IInv, HandlerPanics, Serving, sessionVars, policyVars, desktopVars,
        runtimeVars, panicVars
<1>1. TypeOK'
  <2>1. panics' \in 0 .. PanicThreshold
    BY DEF TypeOK, Links, DegradedAtThreshold
  <2>2. degraded' \in BOOLEAN
    BY SMT
  <2> QED  BY <2>1, <2>2 DEF TypeOK
<1>2. Links'
  <2>1. panics + 1 >= PanicThreshold <=> panics + 1 = PanicThreshold
    BY DEF TypeOK, Links, DegradedAtThreshold
  <2>2. DegradedAtThreshold'
    BY <2>1, Zenon DEF DegradedAtThreshold
  <2>3. /\ HooksOfLockdown' /\ HooksOfProcess' /\ SessionHasId' /\ SessionHasSnapshot'
        /\ SnapshotTruthful'
    BY DEF Links, HooksOfLockdown, HooksOfProcess, SessionHasId, SessionHasSnapshot,
           SnapshotTruthful
  <2> QED  BY <2>2, <2>3 DEF Links
<1>3. Safety'
  BY DEF TypeOK, Links, HooksOfLockdown, HooksOfProcess, SessionHasId, SessionHasSnapshot,
     SnapshotTruthful, DegradedAtThreshold, Underway,
     Safety, TaskbarAccounted, GracefulExit, HooksOnlyInSession, SignedSessionAuthorized,
     PreflightMatchesPolicy, WidgetTracksSession, RuntimeFollowsKiosk, ShouldShow
<1> QED  BY <1>1, <1>2, <1>3

LEMMA KilledKeeps ==
    ASSUME IInv, Killed
    PROVE  IInv'
<1> USE CoreAssumption DEF IInv, Killed, RemoveHooks, sessionVars, policyVars, desktopVars,
        runtimeVars, panicVars
<1>1. TypeOK'
  <2>1. lockdown' \in BOOLEAN
    BY Zenon
  <2> QED  BY <2>1 DEF TypeOK
<1>2. Links'
  BY DEF TypeOK, Links, HooksOfLockdown, HooksOfProcess, SessionHasId, SessionHasSnapshot,
     SnapshotTruthful, DegradedAtThreshold, Underway
<1>3. Safety'
  BY DEF TypeOK, Links, HooksOfLockdown, HooksOfProcess, SessionHasId, SessionHasSnapshot,
     SnapshotTruthful, DegradedAtThreshold, Underway,
     Safety, TaskbarAccounted, GracefulExit, HooksOnlyInSession, SignedSessionAuthorized,
     PreflightMatchesPolicy, WidgetTracksSession, RuntimeFollowsKiosk, ShouldShow
<1> QED  BY <1>1, <1>2, <1>3

LEMMA HookDiesKeeps ==
    ASSUME NEW h,
           IInv, HookDies(h)
    PROVE  IInv'
<1> USE CoreAssumption DEF IInv, HookDies, sessionVars, policyVars, desktopVars, runtimeVars,
        panicVars
<1>1. TypeOK'
  BY DEF TypeOK
<1>2. Links'
  BY DEF TypeOK, Links, HooksOfLockdown, HooksOfProcess, SessionHasId, SessionHasSnapshot,
     SnapshotTruthful, DegradedAtThreshold, Underway
<1>3. Safety'
  BY DEF TypeOK, Links, HooksOfLockdown, HooksOfProcess, SessionHasId, SessionHasSnapshot,
     SnapshotTruthful, DegradedAtThreshold, Underway,
     Safety, TaskbarAccounted, GracefulExit, HooksOnlyInSession, SignedSessionAuthorized,
     PreflightMatchesPolicy, WidgetTracksSession, RuntimeFollowsKiosk, ShouldShow
<1> QED  BY <1>1, <1>2, <1>3

LEMMA EmergencyRestoreKeeps ==
    ASSUME IInv, EmergencyRestore
    PROVE  IInv'
<1> USE CoreAssumption DEF IInv, EmergencyRestore, sessionVars, policyVars, desktopVars,
        runtimeVars, panicVars
<1>1. TypeOK'
  <2>1. taskbarHidden' \in BOOLEAN /\ inherited' \in BOOLEAN
    BY Zenon
  <2> QED  BY <2>1 DEF TypeOK
<1>2. Links'
  BY DEF TypeOK, Links, HooksOfLockdown, HooksOfProcess, SessionHasId, SessionHasSnapshot,
     SnapshotTruthful, DegradedAtThreshold, Underway
<1>3. Safety'
  BY DEF TypeOK, Links, HooksOfLockdown, HooksOfProcess, SessionHasId, SessionHasSnapshot,
     SnapshotTruthful, DegradedAtThreshold, Underway,
     Safety, TaskbarAccounted, GracefulExit, HooksOnlyInSession, SignedSessionAuthorized,
     PreflightMatchesPolicy, WidgetTracksSession, RuntimeFollowsKiosk, ShouldShow
<1> QED  BY <1>1, <1>2, <1>3

LEMMA RestartKeeps ==
    ASSUME IInv, Restart
    PROVE  IInv'
<1> USE RuntimeTable, CoreAssumption DEF IInv, Restart, SessionStates, RuntimeStates,
        WidgetStates, Policies, ShouldShow, sessionVars, policyVars, desktopVars, runtimeVars,
        panicVars
<1>1. TypeOK'
  <2>1. panics' \in 0 .. PanicThreshold
    OBVIOUS
  <2>2. /\ taskbarHidden' \in BOOLEAN /\ inherited' \in BOOLEAN /\ lockdown' \in BOOLEAN
        /\ degraded' \in BOOLEAN /\ recoveryDue' \in BOOLEAN /\ kiosk' \in BOOLEAN
    BY Zenon DEF TypeOK
  <2>3. /\ process' \in {"running", "exited", "killed"} /\ session' \in SessionStates
        /\ active' \in Sessions \cup {None} /\ snapshot' \in {"shown", "hidden", None}
        /\ authorization' \in Authorizations \cup {None} /\ policy' \in Policies
        /\ preflight' \in Policies \cup {None} /\ installed' \subseteq Hooks
        /\ lifecycle' \in RuntimeStates /\ producer' \in {"stopped", "native", "fallback"}
        /\ widget' \in [visible : BOOLEAN, state : WidgetStates]
    BY DEF TypeOK
  <2> QED  BY <2>1, <2>2, <2>3, Zenon DEF TypeOK
<1>2. Links'
  BY DEF TypeOK, Links, HooksOfLockdown, HooksOfProcess, SessionHasId, SessionHasSnapshot,
     SnapshotTruthful, DegradedAtThreshold, Underway
<1>3. Safety'
  BY DEF TypeOK, Links, HooksOfLockdown, HooksOfProcess, SessionHasId, SessionHasSnapshot,
     SnapshotTruthful, DegradedAtThreshold, Underway,
     Safety, TaskbarAccounted, GracefulExit, HooksOnlyInSession, SignedSessionAuthorized,
     PreflightMatchesPolicy, WidgetTracksSession, RuntimeFollowsKiosk, ShouldShow
<1> QED  BY <1>1, <1>2, <1>3

LEMMA ExitsKeeps ==
    ASSUME IInv, Exits
    PROVE  IInv'
<1>1. CASE HasActiveProtection
  <2>1. Completed \in [visible : {FALSE}, state : WidgetStates]
    BY DEF Completed, WidgetStates
  <2> QED  BY <1>1, <2>1, RestoreKeeps DEF Exits
<1>2. CASE ~HasActiveProtection
  <2> USE <1>2, RuntimeTable, CoreAssumption
       DEF IInv, Exits, HasActiveProtection, RemoveHooks, sessionVars, policyVars, panicVars
  <2>1. TypeOK'
    <3>1. lockdown' \in BOOLEAN
      BY Zenon
    <3> QED  BY <3>1 DEF TypeOK
  <2>2. Links'
    BY DEF TypeOK, Links, HooksOfLockdown, HooksOfProcess, SessionHasId, SessionHasSnapshot,
       SnapshotTruthful, DegradedAtThreshold, Underway
  <2>3. Safety'
    BY DEF TypeOK, Links, SessionHasId, SessionHasSnapshot, Underway,
       Safety, TaskbarAccounted, GracefulExit, HooksOnlyInSession, SignedSessionAuthorized,
       PreflightMatchesPolicy, WidgetTracksSession, RuntimeFollowsKiosk, ShouldShow
  <2> QED  BY <2>1, <2>2, <2>3
<1> QED  BY <1>1, <1>2

(* Every command that restores the desktop at once. *)
LEMMA RestoreCommandKeeps ==
    ASSUME IInv, process = "running", UNCHANGED process, NEW w, Restore(w),
           w \in {Completed, Synced(Completed, "IDLE", FALSE, policy)}
    PROVE  IInv'
<1>1. ~ShouldShow("IDLE", FALSE, policy)
  BY DEF ShouldShow
<1>2. Synced(Completed, "IDLE", FALSE, policy) = [visible |-> FALSE, state |-> "hidden"]
  BY <1>1 DEF Synced
<1>3. CASE w = Completed
  BY <1>3, RestoreKeeps DEF Completed, WidgetStates
<1>4. CASE w = [visible |-> FALSE, state |-> "hidden"]
  BY <1>4, RestoreKeeps DEF WidgetStates
<1> QED  BY <1>2, <1>3, <1>4

(* Every command that only brings the widget up to date. *)
LEMMA WidgetSyncKeeps ==
    ASSUME IInv, process = "running",
           NEW w \in [visible : BOOLEAN, state : WidgetStates],
           widget' = Synced(w, session, kiosk, policy),
           UNCHANGED <<process, sessionVars, policyVars, kiosk, desktopVars, runtimeVars,
                       panicVars, recoveryDue>>
    PROVE  IInv'
BY SyncedWidget, WidgetAsKeeps

LEMMA SessionCommandKeeps ==
    ASSUME IInv, SessionCommand
    PROVE  IInv'
<1> USE DEF KioskEnterable, Serving
<1>1. ASSUME NEW p \in SignedPolicies, LoadPolicy(p)  PROVE IInv'
  BY <1>1, LoadPolicyKeeps
<1>2. CASE CollectPrecheck
  BY <1>2, CollectPrecheckKeeps
<1>3. CASE RunPreflight
  BY <1>3, RunPreflightKeeps
<1>4. ASSUME NEW s \in Sessions, NEW auth \in Authorizations \cup {None},
             \/ StartExamBlocked(s, auth)
             \/ \E dry \in BOOLEAN : StartExamSession(s, dry, auth)
      PROVE  IInv'
  BY <1>4, StartExamBlockedKeeps, StartExamSessionKeeps
<1>5. ASSUME NEW s \in Sessions \cup {None}, NotifyVisualKioskReady(s)  PROVE IInv'
  BY <1>5, NotifyVisualKioskReadyKeeps
<1>6. ASSUME NEW s \in Sessions \cup {None}, NEW hooks \in SUBSET Hooks,
             NEW source \in {"native", "fallback"}, EnterKiosk(s, hooks, source)
      PROVE  IInv'
  BY <1>6, EnterKioskKeeps
<1>7. ASSUME NEW s \in Sessions \cup {None}, EnterKioskFails(s)  PROVE IInv'
  BY <1>7, RestoreCommandKeeps DEF EnterKioskFails
<1> QED  BY <1>1, <1>2, <1>3, <1>4, <1>5, <1>6, <1>7 DEF SessionCommand

LEMMA RestoreCommandsKeep ==
    ASSUME IInv, RestoreCommand
    PROVE  IInv'
<1> USE DEF Serving
<1>1. widget \in [visible : BOOLEAN, state : WidgetStates]
  BY DEF IInv, TypeOK
<1>2. /\ Held(widget) \in [visible : BOOLEAN, state : WidgetStates]
      /\ Released(widget) \in [visible : BOOLEAN, state : WidgetStates]
      /\ \A st \in {"restoring", "rejected"} :
           [widget EXCEPT !.state = st] \in [visible : BOOLEAN, state : WidgetStates]
  BY <1>1 DEF Held, Released, WidgetStates
<1>3. ASSUME NEW s, ExitExamSession(s)  PROVE IInv'
  BY <1>3, RestoreCommandKeeps DEF ExitExamSession
<1>4. CASE ExitKiosk
  BY <1>4, RestoreCommandKeeps DEF ExitKiosk
<1>5. CASE ForceRestoreDesktop
  BY <1>5, RestoreCommandKeeps DEF ForceRestoreDesktop
<1>6. ASSUME NEW s, NEW trusted, RejectEmergencyRestore(s, trusted)  PROVE IInv'
  BY <1>6, RejectEmergencyRestoreKeeps
<1>7. ASSUME NEW s, NEW trusted, DelegateEmergencyRestore(s, trusted)  PROVE IInv'
  BY <1>2, <1>7, WidgetSyncKeeps DEF DelegateEmergencyRestore, Restoring
<1>8. ASSUME NEW s, NEW trusted, ServeEmergencyRestore(s, trusted)  PROVE IInv'
  BY <1>8, RestoreCommandKeeps DEF ServeEmergencyRestore
<1>9. ASSUME NEW s, NEW trusted, NEW delegated, WidgetRestore(s, trusted, delegated)
      PROVE  IInv'
  BY <1>2, <1>9, WidgetSyncKeeps, RestoreCommandKeeps DEF WidgetRestore, Restoring
<1>10. CASE WidgetHold(Held(widget)) \/ WidgetHold(Released(widget))
  BY <1>2, <1>10, WidgetSyncKeeps DEF WidgetHold
<1> QED  BY <1>3, <1>4, <1>5, <1>6, <1>7, <1>8, <1>9, <1>10 DEF RestoreCommand

LEMMA RuntimeCommandKeeps ==
    ASSUME IInv, RuntimeCommand
    PROVE  IInv'
<1>1. CASE GetProtectionStatus
  BY <1>1, WidgetSyncKeeps
     DEF GetProtectionStatus, SyncWidget, IInv, TypeOK, sessionVars, policyVars
<1>2. CASE ~GetProtectionStatus
  BY <1>2, RunRuntimeMonitorTickKeeps, ActivateInputLockdownKeeps,
     DeactivateInputLockdownKeeps, HandlerPanicsKeeps DEF RuntimeCommand
<1> QED  BY <1>1, <1>2

LEMMA EnvironmentKeeps ==
    ASSUME IInv, Environment
    PROVE  IInv'
BY ExitsKeeps, KilledKeeps, HookDiesKeeps, EmergencyRestoreKeeps, RestartKeeps
   DEF Environment

LEMMA StutterKeeps ==
    ASSUME IInv, UNCHANGED vars
    PROVE  IInv'
BY DEF IInv, TypeOK, Links, HooksOfLockdown, HooksOfProcess, SessionHasId,
   SessionHasSnapshot, SnapshotTruthful, DegradedAtThreshold,
   Safety, TaskbarAccounted, GracefulExit, HooksOnlyInSession, SignedSessionAuthorized,
   PreflightMatchesPolicy, WidgetTracksSession, RuntimeFollowsKiosk, ShouldShow,
   vars, sessionVars, policyVars, desktopVars, runtimeVars, panicVars

LEMMA InitIInv == Init => IInv
<1> SUFFICES ASSUME Init PROVE IInv
  OBVIOUS
<1> USE RuntimeTable, CoreAssumption DEF Init
<1>1. TypeOK
  <2>1. panics \in 0 .. PanicThreshold
    OBVIOUS
  <2>2. /\ taskbarHidden \in BOOLEAN /\ inherited \in BOOLEAN /\ lockdown \in BOOLEAN
        /\ degraded \in BOOLEAN /\ recoveryDue \in BOOLEAN /\ kiosk \in BOOLEAN
    BY Zenon
  <2>3. /\ process \in {"running", "exited", "killed"} /\ session \in SessionStates
        /\ active \in Sessions \cup {None} /\ snapshot \in {"shown", "hidden", None}
        /\ authorization \in Authorizations \cup {None} /\ policy \in Policies
        /\ preflight \in Policies \cup {None} /\ installed \subseteq Hooks
        /\ lifecycle \in RuntimeStates /\ producer \in {"stopped", "native", "fallback"}
        /\ widget \in [visible : BOOLEAN, state : WidgetStates]
    BY DEF SessionStates, RuntimeStates, WidgetStates, Policies
  <2> QED  BY <2>1, <2>2, <2>3, Zenon DEF TypeOK
<1>2. Links
  BY DEF Links, HooksOfLockdown, HooksOfProcess, SessionHasId, SessionHasSnapshot,
     SnapshotTruthful, DegradedAtThreshold, Underway
<1>3. Safety
  BY DEF Safety, TaskbarAccounted, GracefulExit, HooksOnlyInSession, SignedSessionAuthorized,
     PreflightMatchesPolicy, WidgetTracksSession, RuntimeFollowsKiosk, ShouldShow
<1> QED  BY <1>1, <1>2, <1>3 DEF IInv

-----------------------------------------------------------------------------
(* The strengthened invariant. *)
THEOREM StrengthenedInvariant == Spec => []IInv
<1>1. IInv /\ [Next]_vars => IInv'
  BY SessionCommandKeeps, RestoreCommandsKeep, RuntimeCommandKeeps, EnvironmentKeeps,
     StutterKeeps DEF Next
<1> QED  BY InitIInv, <1>1, PTL DEF Spec

(* Every variable of the core keeps its type (CoreRuntimeState). *)
THEOREM TypeCorrect == Spec => []TypeOK
<1>1. IInv => TypeOK
  BY DEF IInv
<1> QED  BY <1>1, StrengthenedInvariant, PTL

(***************************************************************************)
(* A live core that hid the taskbar can put it back, and one that left its *)
(* loop has done so (restore_active_protection, Drop for CoreRuntimeState).*)
(***************************************************************************)
THEOREM DesktopAccounted == Spec => [](TaskbarAccounted /\ GracefulExit)
<1>1. IInv => TaskbarAccounted /\ GracefulExit
  BY DEF IInv, Safety
<1> QED  BY <1>1, StrengthenedInvariant, PTL

(* No hook is in place without a session or a lockdown that asked for it. *)
THEOREM NoStrayHook == Spec => []HooksOnlyInSession
<1>1. IInv => HooksOnlyInSession
  BY DEF IInv, Safety
<1> QED  BY <1>1, StrengthenedInvariant, PTL

(* Under mandatory signing the authorization is the active session's own. *)
THEOREM AuthorizationBound == Spec => []SignedSessionAuthorized
<1>1. IInv => SignedSessionAuthorized
  BY DEF IInv, Safety
<1> QED  BY <1>1, StrengthenedInvariant, PTL

(* The preflight decision, the widget and the runtime engine are those of   *)
(* the state the core is in, and the next kiosk can be entered.             *)
THEOREM StateInStep ==
    Spec => [](PreflightMatchesPolicy /\ WidgetTracksSession /\ RuntimeFollowsKiosk)
<1>1. IInv => PreflightMatchesPolicy /\ WidgetTracksSession /\ RuntimeFollowsKiosk
  BY DEF IInv, Safety
<1> QED  BY <1>1, StrengthenedInvariant, PTL
-----------------------------------------------------------------------------
(* A restore of a live core leaves no hook, no kiosk and no taskbar of its own *)
(* hidden.                                                                     *)
LEMMA RestoreEnds ==
    ASSUME IInv, process = "running", NEW w, Restore(w)
    PROVE  installed' = {} /\ ~kiosk' /\ (taskbarHidden' => inherited')
<1>1. snapshot = "hidden" => inherited
  BY DEF IInv, Links, SnapshotTruthful
<1>2. installed' = {} /\ ~kiosk'
  BY DEF Restore, RemoveHooks, ForgetSession
<1>3. taskbarHidden' => inherited'
  BY <1>1, Zenon DEF Restore, ShowTaskbar
<1> QED  BY <1>2, <1>3

(* Every step of a live core restores, or starts a session where there was   *)
(* none, or leaves session, policy and snapshot as they are while one is     *)
(* under way.                                                                *)
LEMMA StepsOfSession ==
    ASSUME IInv, Next, process = "running", active # None
    PROVE  (\E w : Restore(w)) \/ UNCHANGED <<active, policy, snapshot>>
<1> USE DEF sessionVars, policyVars
<1>1. CASE SessionCommand
  BY <1>1 DEF SessionCommand, LoadPolicy, CollectPrecheck, RunPreflight, StartExamBlocked,
     StartExamSession, Startable, NotifyVisualKioskReady, EnterKiosk, EnterKioskFails
<1>2. CASE RestoreCommand
  BY <1>2 DEF RestoreCommand, ExitExamSession, ExitKiosk, ForceRestoreDesktop,
     RejectEmergencyRestore, DelegateEmergencyRestore, ServeEmergencyRestore, WidgetRestore,
     WidgetHold
<1>3. CASE RuntimeCommand
  BY <1>3 DEF RuntimeCommand, RunRuntimeMonitorTick, GetProtectionStatus,
     ActivateInputLockdown, DeactivateInputLockdown, HandlerPanics
<1>4. CASE Environment
  BY <1>4 DEF Environment, Exits, Killed, HookDies, EmergencyRestore, Restart
<1> QED  BY <1>1, <1>2, <1>3, <1>4 DEF Next

(* A running core only leaves a session with its desktop restored.           *)
THEOREM EndsRestored == Spec => SessionEndsRestored
<1>1. IInv /\ [Next]_vars =>
        [process = "running" /\ active # None /\ active' = None =>
           installed' = {} /\ ~kiosk' /\ (taskbarHidden' => inherited')]_vars
  <2> SUFFICES ASSUME IInv, Next, process = "running", active # None, active' = None
               PROVE  installed' = {} /\ ~kiosk' /\ (taskbarHidden' => inherited')
    OBVIOUS
  <2>1. PICK w : Restore(w)
    BY StepsOfSession
  <2> QED  BY <2>1, RestoreEnds
<1> QED  BY <1>1, StrengthenedInvariant, PTL DEF Spec, SessionEndsRestored

(* Nothing replaces the session, its policy or its snapshot under way.       *)
THEOREM NotReplaced == Spec => SessionNotReplaced
<1>1. IInv /\ [Next]_vars =>
        [active # None /\ active' # None => UNCHANGED <<active, policy, snapshot>>]_vars
  <2> SUFFICES ASSUME IInv, Next, active # None, active' # None
               PROVE  UNCHANGED <<active, policy, snapshot>>
    OBVIOUS
  <2>1. CASE process = "running"
    BY <2>1, StepsOfSession DEF Restore, ForgetSession
  <2>2. CASE process # "running"
    <3>1. CASE SessionCommand
      BY <2>2, <3>1 DEF SessionCommand, LoadPolicy, CollectPrecheck, RunPreflight, Startable,
         StartExamBlocked, StartExamSession, NotifyVisualKioskReady, EnterKiosk,
         EnterKioskFails, KioskEnterable, Serving
    <3>2. CASE RestoreCommand \/ RuntimeCommand
      BY <2>2, <3>2 DEF RestoreCommand, ExitExamSession, ExitKiosk, ForceRestoreDesktop,
         RejectEmergencyRestore, DelegateEmergencyRestore, ServeEmergencyRestore,
         WidgetRestore, WidgetHold, RuntimeCommand, RunRuntimeMonitorTick, Ticking,
         GetProtectionStatus, ActivateInputLockdown, DeactivateInputLockdown, HandlerPanics,
         Serving
    <3>3. CASE Environment
      BY <2>2, <3>3 DEF Environment, Exits, Killed, HookDies, EmergencyRestore, Restart,
         sessionVars, policyVars
    <3> QED  BY <3>1, <3>2, <3>3 DEF Next
  <2> QED  BY <2>1, <2>2
<1> QED  BY <1>1, StrengthenedInvariant, PTL DEF Spec, SessionNotReplaced
=============================================================================

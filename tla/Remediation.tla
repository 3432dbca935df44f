----------------------------- MODULE Remediation -----------------------------
(***************************************************************************)
(* The core against the processes a policy does not want: the preflight    *)
(* loop and the runtime remediator of process_remediation.rs, called from  *)
(* the command loop of main.rs, over the elevated service of ExamService   *)
(* and the user-mode termination it falls back to.                         *)
(*                                                                         *)
(* Every termination names a process id found by an earlier scan: while    *)
(* the core waits for the service, processes end, start and take over ids. *)
(* A tick is given the processes of RuntimeStateEngine; here the list the  *)
(* tick has reconciled it with stands for them.                            *)
(***************************************************************************)
EXTENDS ExamService

CONSTANTS
    MinPasses, MaxPasses    \* PREFLIGHT_REMEDIATION_MAX_ATTEMPTS and its cap

ASSUME PassesAssumption ==
    MinPasses \in Nat \ {0} /\ MaxPasses \in Nat /\ MinPasses =< MaxPasses

VARIABLES
    pc,         \* what the command loop is doing
    mode,       \* for a preflight or for a tick
    exam,       \* a preflight was clear and a session may run
    seen,       \* the last scan
    todo,       \* the process ids of this pass still to be terminated
    passes, budget,
    lingers,    \* history: rescans of this preflight that found a target still ending
    actions,    \* what was done so far, by the preflight or by the tick
    outcome,    \* what the last tick made of its actions
    startBorn, scanBorn     \* history: processes started before either

coreVars == <<pc, mode, exam, seen, todo, passes, budget, lingers, actions,
              outcome, startBorn, scanBorn>>
vars == <<serviceVars, coreVars>>

Statuses == {"terminated", "failed", "allowedAfterFailure", "detected", "blocked",
             "allowedUnderIsolation", "allowedWithAudit"}

Nothing == [p \in Pids |-> NoProcess]

\* The decision for the process a scan found with id p
Decision(scan, p) ==
    IF scan[p] = NoProcess THEN "none" ELSE Resolve(scan[p].image, policy)

\* Mutant: every process the policy has an opinion of is terminated.
TargetsAll(scan) == {p \in Pids : Decision(scan, p) # "none"}

Targets(scan) == {p \in Pids : Terminates(Decision(scan, p))}
Blocking(scan) == {p \in Pids : Blocks(Decision(scan, p))}

Init ==
    /\ ServiceInit
    /\ pc = "idle" /\ mode = "preflight" /\ exam = FALSE
    /\ seen = Nothing /\ todo = {}
    /\ passes = 0 /\ budget = 0 /\ lingers = 0
    /\ actions = {}
    /\ outcome = "none"
    /\ startBorn = 0 /\ scanBorn = 0

-----------------------------------------------------------------------------
(* Terminating one process: terminate_with_service_fallback *)

Before(p, q) ==
    \/ Priority(Decision(seen, p)) > Priority(Decision(seen, q)) /\ mode = "tick"
    \/ p =< q /\ (mode = "tick" =>
                    Priority(Decision(seen, p)) = Priority(Decision(seen, q)))

\* The next one, by process id in a preflight, by severity in a tick
Current == CHOOSE p \in todo : \A q \in todo : Before(p, q)

FailedStatus ==
    IF mode = "tick" /\ Decision(seen, Current) = "attemptTerminateThenContinue"
    THEN "allowedAfterFailure" ELSE "failed"

\* The bookkeeping of either loop when the termination has answered
Recorded(ok) ==
    /\ todo' = todo \ {Current}
    /\ actions' = actions \cup {<<Current, IF ok THEN "terminated" ELSE FailedStatus>>}
    /\ pc' = "killing"
    /\ UNCHANGED <<mode, exam, seen, passes, budget, lingers, outcome,
                   startBorn, scanBorn>>

\* Mutant: the error is not looked at.
UserModeBlindly ==
    /\ dying' = IF os[Current] # NoProcess /\ os[Current].image \notin Backed
                THEN dying \cup {Current} ELSE dying
    /\ call' = NoWait
    /\ Recorded(TRUE)
    /\ UNCHANGED <<policyState, receipt, os, born, disabled, owed, serviceState, disturbed>>

\* terminate_process_user_mode: whatever has the id now, unless it is SYSTEM's.
\* As in the service, success is not the end of the process.
UserMode ==
    LET ok == os[Current] # NoProcess /\ os[Current].image \notin Backed
    IN /\ \/ ok /\ dying' = dying \cup {Current} /\ Recorded(TRUE)
          \/ (ok => Current \in dying) /\ Recorded(FALSE) /\ UNCHANGED dying
       /\ call' = NoWait
       /\ UNCHANGED <<policyState, receipt, os, born, disabled, owed, serviceState, disturbed>>

Unelevated == pc = "killing" /\ todo # {} /\ ~Elevated /\ UserMode

RequestElevated ==
    /\ pc = "killing" /\ todo # {} /\ Elevated
    /\ Connect(Current)
    /\ pc' = "calling"
    /\ UNCHANGED <<mode, exam, seen, todo, passes, budget, lingers, actions,
                   outcome, startBorn, scanBorn>>

ServiceTerminated ==
    /\ pc = "calling" /\ call.state = "ok"
    /\ call' = NoWait
    /\ Recorded(TRUE)
    /\ UNCHANGED <<policyState, receipt, osState, serviceState, disturbed>>

FallBack == pc = "calling" /\ call.state = "error" /\ UserMode

-----------------------------------------------------------------------------
(* preflight_remediate_policy_processes_using *)

Least(a, b) == IF a < b THEN a ELSE b
Most(a, b) == IF a < b THEN b ELSE a

\* The first scan sets how many passes there may be.
StartPreflight ==
    /\ pc = "idle" /\ ~exam
    /\ pc' = "scanning" /\ mode' = "preflight"
    /\ budget' = Least(Most(Cardinality(Targets(os)) + 1, MinPasses), MaxPasses)
    /\ outcome' = "none" /\ scanBorn' = 0
    /\ startBorn' = born /\ disturbed' = (owed # {} \/ dying # {})
    /\ UNCHANGED <<policyState, receipt, osState, serviceState, call, exam, seen, todo,
                   passes, lingers, actions>>

\* build_preflight_report: all is clear, and a session may start, when no process
\* is left that blocks it.
Finish(scan) ==
    /\ exam' = (Blocking(scan) = {})
    /\ pc' = "idle"
    /\ seen' = Nothing /\ actions' = {} /\ passes' = 0 /\ budget' = 0 /\ lingers' = 0
    /\ startBorn' = 0
    /\ UNCHANGED todo

\* A target of the last pass is still there: what it is found again for is no
\* new process.
Lingering(scan) == IF passes > 0 /\ Targets(scan) \cap dying # {} THEN 1 ELSE 0

\* Mutant: the passes are not counted.
PassUncounted(scan) ==
    /\ seen' = scan /\ todo' = Targets(scan)
    /\ pc' = "killing"
    /\ UNCHANGED <<passes, budget, lingers, exam, actions, startBorn>>

Pass(scan) ==
    /\ passes' = passes + 1 /\ seen' = scan /\ todo' = Targets(scan)
    /\ lingers' = lingers + Lingering(scan)
    /\ pc' = "killing"
    /\ UNCHANGED <<budget, exam, actions, startBorn>>

\* A process that is found while it ends is a disturbance.
Scanned(scan) ==
    /\ IF Targets(scan) = {} \/ passes = budget THEN Finish(scan) ELSE Pass(scan)
    /\ disturbed' = (disturbed \/ dying # {})
    /\ UNCHANGED <<policyState, receipt, osState, serviceState, call, mode, outcome>>

Scan == pc = "scanning" /\ scanBorn' = born /\ Scanned(os)

\* wait_before_rescan
PassDone ==
    /\ pc = "killing" /\ todo = {} /\ mode = "preflight"
    /\ pc' = "scanning"
    /\ UNCHANGED <<serviceVars, mode, exam, seen, todo, passes, budget, lingers, actions,
                   outcome, startBorn, scanBorn>>

-----------------------------------------------------------------------------
(* observe_policy_and_remediate_using, in a monitor tick *)

\* The status of a process that is not to be terminated now
Standing(decision) ==
    CASE Terminates(decision) -> "detected"
      [] decision = "hardBlock" -> "blocked"
      [] decision = "isolateAndProtect" -> "allowedUnderIsolation"
      [] OTHER -> "allowedWithAudit"

StartTick ==
    /\ pc = "idle" /\ exam
    /\ pc' = "killing" /\ mode' = "tick"
    /\ seen' = os /\ scanBorn' = born
    /\ todo' = IF policy.instantKill THEN Targets(os) ELSE {}
    /\ actions' = {<<p, Standing(Decision(os, p))>> :
                     p \in {q \in Pids : Decision(os, q) # "none"} \ todo'}
    /\ outcome' = "none"
    /\ UNCHANGED <<serviceVars, exam, passes, budget, lingers, startBorn>>

\* evaluate_runtime_policy, of what the terminations leave
Unresolved ==
    \E a \in actions : \/ a[2] \in {"blocked", "failed"}
                       \/ /\ a[2] = "detected"
                          /\ Decision(seen, a[1]) = "attemptTerminateThenBlock"

TickDone ==
    /\ pc = "killing" /\ todo = {} /\ mode = "tick"
    /\ pc' = "idle"
    /\ outcome' = IF ~Unresolved THEN "resolved"
                  ELSE IF policy.mode = "continueAndAudit" THEN "continued"
                  ELSE "recoveryRequired"
    /\ UNCHANGED <<serviceVars, mode, exam, seen, todo, passes, budget, lingers, actions,
                   startBorn, scanBorn>>

-----------------------------------------------------------------------------
CoreNext ==
    \/ StartPreflight \/ Scan \/ PassDone
    \/ StartTick \/ TickDone
    \/ Unelevated \/ RequestElevated \/ ServiceTerminated \/ FallBack

Outside == (EnvironmentNext \/ ServiceNext \/ GiveUp) /\ UNCHANGED coreVars

Next == CoreNext \/ Outside

Spec == Init /\ [][Next]_vars

FairSpec ==
    /\ Spec
    /\ WF_vars(Scan \/ PassDone \/ TickDone \/ Unelevated \/ RequestElevated
               \/ ServiceTerminated \/ FallBack)
    /\ \A c \in Slots : WF_vars(c \in DOMAIN work /\ Worker(c) /\ UNCHANGED coreVars)
    /\ WF_vars((CreateInstance \/ Listen \/ AcceptCount \/ Spawn \/ SeeStop \/ Join)
                  /\ UNCHANGED coreVars)
    /\ WF_vars((AcceptEnded \/ Stopped) /\ UNCHANGED coreVars)
    /\ WF_vars(GiveUp /\ UNCHANGED coreVars)

-----------------------------------------------------------------------------
(* Properties *)

\* The types of the service's variables and of the core's.
TypeOK ==
    /\ ServiceTypeOK
    /\ pc \in {"idle", "scanning", "killing", "calling"}
    /\ mode \in {"preflight", "tick"} /\ exam \in BOOLEAN
    /\ seen \in [Pids -> Processes \cup {NoProcess}] /\ todo \subseteq Pids
    /\ passes \in 0..MaxPasses /\ budget \in 0..MaxPasses /\ lingers \in 0..passes
    /\ actions \subseteq Pids \X Statuses
    /\ outcome \in {"none", "resolved", "continued", "recoveryRequired"}
    /\ startBorn =< born /\ scanBorn =< born

\* active_clients is the number of live workers and of the one about to be
\* started, whatever way they end and whether or not it can be started, and never
\* more than MAX_ACTIVE_CLIENTS.
ActiveMatches ==
    /\ active = Cardinality(DOMAIN work) + (IF accept = "spawning" THEN 1 ELSE 0)
    /\ active =< MaxClients

\* The service only ends a process, and only disables a Windows service, whose
\* own image the signed policy lists, whatever pid the core has asked for and
\* whatever has come to have that pid since.
ServiceActsOnListed ==
    [][/\ \A image \in disabled' \ disabled : ServiceLists(image, policy)
       /\ \A c \in DOMAIN work \cap DOMAIN work' :
             work'[c].stage = "terminated" /\ work[c].stage # "terminated"
                => ServiceLists(os[work[c].pid].image, policy)]_vars

\* In user mode the core ends a process that a rule of the policy lets it end,
\* or one that started after the scan that the pid was taken from.
UserModeKillsRuled ==
    [][\A p \in Pids :
          todo' = todo \ {p} /\ todo' # todo /\ dying' = dying \cup {p} /\ dying' # dying
             => \/ Terminates(Resolve(os[p].image, policy))
                \/ os[p].id > scanBorn]_vars

PreflightEnds == pc = "scanning" /\ pc' = "idle"

\* What the preflight says it has terminated and finds again is a process that
\* started after the preflight did, a restart or another user of the pid, or the
\* same one that "remained active after the termination request" and is ending.
TerminatedIsGone ==
    [][PreflightEnds =>
          \A p \in Targets(os) :
             <<p, "terminated">> \in actions => os[p].id > startBorn \/ p \in dying]_vars

\* A preflight in which no termination failed, and which no hard block stops,
\* keeps the student out only if for each pass one more process was started or
\* the scan after it found one that was still ending.
RespawnsOutnumberPasses ==
    [][/\ PreflightEnds /\ ~exam'
       /\ \A a \in actions : a[2] # "failed"
       /\ \A p \in Pids : Decision(os, p) # "hardBlock"
       => born - startBorn + lingers + Lingering(os) >= passes]_vars

\* A preflight that is clear leaves no process that stands in the way of the exam
\* but those that started since the scan; a tick that is resolved, which does not
\* scan again, also those that it has told to end.
ClearMeansClear ==
    pc = "idle" /\ exam /\ outcome \in {"none", "resolved"} =>
        \A p \in Blocking(os) :
            os[p].id > scanBorn \/ (outcome = "resolved" /\ p \in dying)

\* The promise of the elevated service: with a valid receipt, nobody
\* interfering and every service-backed target listed, a policy without hard
\* blocks lets the student in after one preflight.
ServiceClears ==
    [][/\ PreflightEnds /\ ~disturbed' /\ ~Stopping /\ receipt = "valid"
       /\ \A p \in Pids : Decision(os, p) # "hardBlock"
       /\ \A image \in Backed : ServiceLists(image, policy)
       => exam']_vars

\* The same of a service that can read the policy it is sent.
AgreeingServiceClears ==
    [][/\ agree
       /\ PreflightEnds /\ ~disturbed' /\ ~Stopping /\ receipt = "valid"
       /\ \A p \in Pids : Decision(os, p) # "hardBlock"
       /\ \A image \in Backed : ServiceLists(image, policy)
       => exam']_vars

\* A process exit of the service cuts a worker off only when the accept thread
\* has failed; a stop that is answered in time waits for every request.
CutOffOnlyByFailure ==
    [][svc' = "stopped" /\ DOMAIN work # {} => accept = "failed"]_vars

\* However the service behaves, whatever keeps coming back and whatever cannot
\* be ended, a preflight and a tick end and the command loop is free again.
CommandLoopFree == pc # "idle" ~> pc = "idle"

\* A stop of the service ends it, also while it waits for a client.
StopEnds == Stopping ~> svc = "stopped"
=============================================================================

----------------------------- MODULE ExamService -----------------------------
(***************************************************************************)
(* The elevated Windows service and the call the core makes to it:         *)
(* edulearn-exam-service (main.rs, transport.rs, authorization.rs),        *)
(* service_client.rs and the request of exam_key.rs.  The service has a    *)
(* control thread, an accept thread and one worker per connected client;   *)
(* the core has at most one call that it waits for, but the worker of a    *)
(* call it has given up goes on.                                           *)
(*                                                                         *)
(* Signatures are taken to be what they should be: the caller is the core  *)
(* the service is configured for and it signs what it sends.  What is left *)
(* is whether the service can read the policy it is sent, whether the      *)
(* receipt is still valid when it looks, and what the target is by then.   *)
(***************************************************************************)
EXTENDS ProcessPolicy, FiniteSets

CONSTANTS
    Pids,           \* process ids, numbers
    Backed,         \* images a Windows service keeps running, as SYSTEM
    MaxClients,     \* MAX_ACTIVE_CLIENTS
    Agreements,     \* whether the two declarations of ExamPolicy agree
    MaxStarts,      \* bound: processes started
    NoProcess, NoCall

Slots == 1..(MaxClients + 1)

Processes == [image : Images, id : Nat]

ASSUME ServiceAssumption ==
    /\ Pids \subseteq Nat \ {0} /\ IsFiniteSet(Pids)
    /\ Backed \subseteq Images
    /\ MaxClients \in Nat \ {0}
    /\ Agreements \subseteq BOOLEAN
    /\ MaxStarts \in Nat
    /\ NoProcess \notin Processes
    /\ NoCall \notin Slots

VARIABLES
    policy,         \* the signed policy the core has loaded
    agree,          \* the service can deserialize a policy of the core
    receipt,        \* the elevated-remediation receipt of the session
    os,             \* the process table of Windows
    dying,          \* ids of processes that have been told to end and still exist
    born,           \* processes started so far; numbers them
    disabled,       \* images whose Windows service has been disabled
    owed,           \* images Windows has yet to restart
    svc,            \* the state reported to the service control manager, and with
                    \* any but "running" the stop flag of the threads
    accept,         \* what the accept thread is doing
    instance,       \* the pipe instance offered to clients
    caller,         \* the client connected to the instance
    active,         \* active_clients
    work,           \* the live workers
    call,           \* the call the core waits for
    disturbed       \* history: something went wrong since the last preflight

policyState == <<policy, agree>>
osState == <<os, dying, born, disabled, owed>>
acceptState == <<svc, accept, instance, caller>>
serviceState == <<acceptState, active, work>>
serviceVars == <<policyState, receipt, osState, serviceState, call, disturbed>>

Stages == {"reading", "authorized", "disabled", "terminated", "closed"}

NoCaller == [slot |-> NoCall, pid |-> 0]
NoWait == [slot |-> NoCall, state |-> "none"]

ServiceTypeOK ==
    /\ policy \in Policies /\ agree \in Agreements
    /\ receipt \in {"valid", "invalid"}
    /\ os \in [Pids -> Processes \cup {NoProcess}] /\ born \in Nat
    /\ dying \subseteq Pids
    /\ disabled \subseteq Backed /\ owed \subseteq Backed
    /\ svc \in {"running", "stopPending", "stopped"}
    /\ accept \in {"loop", "created", "listening", "spawning", "joining", "failed",
                   "done"}
    /\ instance \in {"none", "free", "taken", "broken"}
    /\ caller \in [slot : Slots \cup {NoCall}, pid : Nat]
    /\ active \in 0..MaxClients
    /\ DOMAIN work \subseteq Slots
    /\ \A c \in DOMAIN work :
          work[c] \in [pid : Pids, stage : Stages, target : Processes \cup {NoProcess}]
    /\ call \in [slot : Slots \cup {NoCall},
                 state : {"none", "waiting", "ok", "error"}]
    /\ disturbed \in BOOLEAN

ServiceInit ==
    /\ policy \in Policies /\ agree \in Agreements
    /\ receipt \in {"valid", "invalid"}
    /\ os \in [Pids -> {[image |-> i, id |-> 0] : i \in Images} \cup {NoProcess}]
    /\ \A p, q \in Pids : p # q /\ os[p] # NoProcess /\ os[q] # NoProcess
                             => os[p].image # os[q].image
    /\ dying = {} /\ born = 0 /\ disabled = {} /\ owed = {}
    /\ svc = "running"
    /\ accept = "loop" /\ instance = "none" /\ caller = NoCaller
    /\ active = 0 /\ work = << >>
    /\ call = NoWait /\ disturbed = FALSE

-----------------------------------------------------------------------------
(* Windows *)

Running(image) == \E p \in Pids : os[p] # NoProcess /\ os[p].image = image

\* A process id is not used again while a worker holds a handle to it.
Held(p) == \E c \in DOMAIN work :
              work[c].pid = p /\ work[c].stage \notin {"reading", "closed"}

\* The process with id p ends.  Windows restarts one that a service keeps
\* running, unless the service is disabled by then.
Ended(p) ==
    /\ os' = [os EXCEPT ![p] = NoProcess] /\ dying' = dying \ {p}
    /\ owed' = (owed \cup {os[p].image}) \cap (Backed \ disabled)

Start(p, image) ==
    /\ born < MaxStarts
    /\ os[p] = NoProcess /\ ~Held(p)
    /\ image \in Backed => ~Running(image) /\ image \notin disabled
    /\ born' = born + 1
    /\ os' = [os EXCEPT ![p] = [image |-> image, id |-> born']]
    /\ owed' = owed \ {image}
    /\ UNCHANGED <<policyState, receipt, dying, disabled, serviceState, call>>

\* The user starts a program.
Launch(p, image) == Start(p, image) /\ disturbed' = TRUE

Restart(p) == \E image \in owed : Start(p, image) /\ UNCHANGED disturbed

\* A process is gone some time after a successful TerminateProcess, or after its
\* service was told to stop; any other ends when it likes.
Exit(p) ==
    /\ os[p] # NoProcess
    /\ Ended(p)
    /\ disturbed' = (disturbed \/ p \notin dying)
    /\ UNCHANGED <<policyState, receipt, born, disabled, serviceState, call>>

ReceiptExpires ==
    /\ receipt = "valid"
    /\ receipt' = "invalid" /\ disturbed' = TRUE
    /\ UNCHANGED <<policyState, osState, serviceState, call>>

-----------------------------------------------------------------------------
(* The core's side of a call *)

\* build_elevated_termination_request needs a signed policy and its receipt.
Elevated == receipt = "valid"

FreeSlots == Slots \ (DOMAIN work \cup {caller.slot, call.slot})

\* CreateFileW: an instance no client has taken, or the call fails at once.
Connect(pid) ==
    /\ call.state = "none"
    /\ IF instance = "free"
       THEN LET c == CHOOSE s \in FreeSlots : TRUE
            IN /\ call' = [slot |-> c, state |-> "waiting"]
               /\ instance' = "taken" /\ caller' = [slot |-> c, pid |-> pid]
               /\ UNCHANGED disturbed
       ELSE /\ call' = [slot |-> NoCall, state |-> "error"]
            /\ disturbed' = TRUE
            /\ UNCHANGED <<instance, caller>>
    /\ UNCHANGED <<policyState, receipt, osState, svc, accept, active, work>>

\* recv_timeout: the pipe is closed or left to its thread, the call has failed.
\* An instance whose client leaves before ConnectNamedPipe is called is broken.
GiveUp ==
    /\ call.state = "waiting"
    /\ call' = [call EXCEPT !.slot = NoCall, !.state = "error"]
    /\ instance' = IF caller.slot = call.slot /\ accept = "created" THEN "broken" ELSE instance
    /\ disturbed' = TRUE
    /\ UNCHANGED <<policyState, receipt, osState, svc, accept, caller, active, work>>

\* What the core learns when slot c is closed without an answer
Hung(c) == IF call.state = "waiting" /\ call.slot = c
           THEN [call EXCEPT !.slot = NoCall, !.state = "error"] ELSE call

-----------------------------------------------------------------------------
(* The accept thread: run_transport and create_and_connect_pipe *)

Stopping == svc # "running"

CreateInstance ==
    /\ accept = "loop" /\ ~Stopping /\ active < MaxClients
    /\ accept' = "created" /\ instance' = "free"
    /\ UNCHANGED <<policyState, receipt, osState, svc, caller, active, work,
                   call, disturbed>>

\* ConnectNamedPipe.  A client that is there already is ERROR_PIPE_CONNECTED,
\* one that has left again is an error, and an error ends the thread.
Listen ==
    /\ accept = "created"
    /\ IF instance = "broken"
       THEN accept' = "failed" /\ instance' = "none" /\ caller' = NoCaller
       ELSE accept' = "listening" /\ UNCHANGED <<instance, caller>>
    /\ UNCHANGED <<policyState, receipt, osState, svc, active, work, call, disturbed>>

\* Neither the pipe nor the thread that waits for its client can be created: the
\* error of create_and_connect_pipe ends the accept thread.
AcceptFails ==
    /\ \/ accept = "loop" /\ ~Stopping /\ active < MaxClients
       \/ accept = "created"
    /\ accept' = "failed" /\ instance' = "none" /\ caller' = NoCaller
    /\ call' = Hung(caller.slot)
    /\ disturbed' = TRUE
    /\ UNCHANGED <<policyState, receipt, osState, svc, active, work>>

\* A client has connected and is counted before its worker is there.
AcceptCount ==
    /\ accept = "listening" /\ instance = "taken"
    /\ accept' = "spawning" /\ instance' = "none"
    /\ active' = active + 1
    /\ UNCHANGED <<policyState, receipt, osState, svc, caller, work, call, disturbed>>

\* The worker is started; the thread goes back to its loop.
Spawn ==
    /\ accept = "spawning"
    /\ accept' = "loop" /\ caller' = NoCaller
    /\ work' = [c \in DOMAIN work \cup {caller.slot} |->
                  IF c \in DOMAIN work THEN work[c]
                  ELSE [pid |-> caller.pid, stage |-> "reading", target |-> NoProcess]]
    /\ UNCHANGED <<policyState, receipt, osState, svc, instance, active, call, disturbed>>

\* Mutant: the count is left to the worker's guard, which was never made.
SpawnFailsUncounted ==
    /\ accept = "spawning"
    /\ accept' = "failed" /\ caller' = NoCaller
    /\ call' = Hung(caller.slot)
    /\ disturbed' = TRUE
    /\ UNCHANGED <<policyState, receipt, osState, svc, instance, active, work>>

\* The worker cannot be started: its count is taken back, the pipe is dropped
\* with the closure, and the error ends the accept thread.
SpawnFails ==
    /\ accept = "spawning"
    /\ accept' = "failed" /\ caller' = NoCaller
    /\ active' = active - 1
    /\ call' = Hung(caller.slot)
    /\ disturbed' = TRUE
    /\ UNCHANGED <<policyState, receipt, osState, svc, instance, work>>

\* Mutant: the pending ConnectNamedPipe is not cancelled.
SeeStopBetween ==
    /\ Stopping /\ accept = "loop"
    /\ accept' = "joining" /\ instance' = "none" /\ caller' = NoCaller
    /\ call' = Hung(caller.slot)
    /\ UNCHANGED <<policyState, receipt, osState, svc, active, work, disturbed>>

\* The flag is seen between two clients, or while waiting for one: the pending
\* ConnectNamedPipe is cancelled, and a client that came meanwhile is dropped.
SeeStop ==
    /\ Stopping /\ accept \in {"loop", "listening"}
    /\ accept' = "joining" /\ instance' = "none" /\ caller' = NoCaller
    /\ call' = Hung(caller.slot)
    /\ UNCHANGED <<policyState, receipt, osState, svc, active, work, disturbed>>

\* Neither the cancellation nor the nudge woke the pending accept.
CancelFails ==
    /\ Stopping /\ accept = "listening"
    /\ accept' = "failed" /\ instance' = "none" /\ caller' = NoCaller
    /\ call' = Hung(caller.slot)
    /\ UNCHANGED <<policyState, receipt, osState, svc, active, work, disturbed>>

Join ==
    /\ accept = "joining" /\ DOMAIN work = {}
    /\ accept' = "done"
    /\ UNCHANGED <<policyState, receipt, osState, svc, instance, caller, active,
                   work, call, disturbed>>

-----------------------------------------------------------------------------
(* A worker: handle_client *)

\* handle_client returns and drops the pipe and the handle; the worker's guard of
\* active_clients is dropped after it.
Closed(c) ==
    /\ work' = [work EXCEPT ![c].stage = "closed", ![c].target = NoProcess]
    /\ UNCHANGED active

Rejects(c) == Closed(c) /\ call' = Hung(c)

\* The worker has a handle to its target and the signed policy with it.
Authorized(c) ==
    /\ work' = [work EXCEPT ![c].stage = "authorized", ![c].target = os[work[c].pid]]
    /\ UNCHANGED <<active, call>>

\* Mutant: the lists are looked up for the name the core has sent.
AuthorizeUnlisted(c) ==
    /\ work[c].stage = "reading"
    /\ \/ agree /\ receipt = "valid" /\ os[work[c].pid] # NoProcess /\ Authorized(c)
       \/ (call.slot # c \/ ~agree \/ receipt # "valid" \/ os[work[c].pid] = NoProcess)
            /\ Rejects(c)
    /\ UNCHANGED <<policyState, receipt, osState, acceptState, disturbed>>

\* The identity of the client, its request within PIPE_READ_IDLE_TIMEOUT_MS,
\* its JSON, a handle to the target, and authorize_termination under the
\* authorizer's lock.  A client that has left may leave its request behind.
Authorize(c) ==
    LET target == os[work[c].pid]
        granted == /\ agree /\ receipt = "valid" /\ target # NoProcess
                   /\ ServiceLists(target.image, policy)
    IN /\ work[c].stage = "reading"
       /\ \/ granted /\ Authorized(c)
          \/ (call.slot # c \/ ~granted) /\ Rejects(c)
       /\ UNCHANGED <<policyState, receipt, osState, acceptState, disturbed>>

\* Mutant: only the process is terminated.
DisableNothing(c) ==
    /\ work[c].stage = "authorized"
    /\ work' = [work EXCEPT ![c].stage = "disabled"]
    /\ UNCHANGED <<policyState, receipt, osState, acceptState, active, call, disturbed>>

\* stop_and_disable_service_for_pid.  A target that has ended is no service's
\* process any more.  Errors are only logged.  A service that is told to stop
\* may end its process by itself.
Disable(c) ==
    /\ work[c].stage = "authorized"
    /\ work' = [work EXCEPT ![c].stage = "disabled"]
    /\ LET p == work[c].pid
           owned == os[p] = work[c].target /\ work[c].target.image \in Backed
       IN \/ /\ owned
             /\ disabled' = disabled \cup {work[c].target.image}
             /\ dying' \in {dying, dying \cup {p}}
             /\ UNCHANGED disturbed
          \/ /\ disturbed' = (disturbed \/ owned)
             /\ UNCHANGED <<dying, disabled>>
    /\ UNCHANGED <<policyState, receipt, os, owed, born, acceptState, active, call>>

\* TerminateProcess through the handle.  Success means that the process will end,
\* not that it has.  The call fails for one that has ended, and may for one that
\* is ending.
Terminate(c) ==
    LET p == work[c].pid
        alive == os[p] = work[c].target
    IN /\ work[c].stage = "disabled"
       /\ \/ /\ alive
             /\ dying' = dying \cup {p}
             /\ work' = [work EXCEPT ![c].stage = "terminated"]
             /\ UNCHANGED <<active, call>>
          \/ (alive => p \in dying) /\ Rejects(c) /\ UNCHANGED dying
       /\ UNCHANGED <<policyState, receipt, os, owed, born, disabled, acceptState, disturbed>>

\* The answer reaches the core if it still waits.
Answer(c) ==
    /\ work[c].stage = "terminated"
    /\ Closed(c)
    /\ call' = IF call.slot = c THEN [call EXCEPT !.slot = NoCall, !.state = "ok"] ELSE call
    /\ UNCHANGED <<policyState, receipt, osState, acceptState, disturbed>>

\* The guard is dropped and the thread ends.
Leave(c) ==
    /\ work[c].stage = "closed"
    /\ work' = [d \in DOMAIN work \ {c} |-> work[d]]
    /\ active' = active - 1
    /\ UNCHANGED <<policyState, receipt, osState, acceptState, call, disturbed>>

Worker(c) == Authorize(c) \/ Disable(c) \/ Terminate(c) \/ Answer(c) \/ Leave(c)

-----------------------------------------------------------------------------
(* The control thread: run_service *)

\* SERVICE_CONTROL_STOP, or the accept thread is found to have ended.
StopPending ==
    /\ svc = "running"
    /\ svc' = "stopPending" /\ disturbed' = TRUE
    /\ UNCHANGED <<policyState, receipt, osState, accept, instance, caller, active, work,
                   call>>

StopControl == StopPending
AcceptEnded == accept \in {"failed", "done"} /\ StopPending

\* The accept thread is joined and the process exits, with every worker left.
Stopped ==
    /\ svc = "stopPending" /\ accept \in {"failed", "done"}
    /\ svc' = "stopped" /\ accept' = "done"
    /\ work' = << >> /\ active' = 0
    /\ call' = IF call.slot \in DOMAIN work THEN Hung(call.slot) ELSE call
    /\ UNCHANGED <<policyState, receipt, osState, instance, caller, disturbed>>

ServiceNext ==
    \/ CreateInstance \/ Listen \/ AcceptFails
    \/ AcceptCount \/ Spawn \/ SpawnFails
    \/ SeeStop \/ CancelFails \/ Join
    \/ \E c \in DOMAIN work : Worker(c)
    \/ StopControl \/ AcceptEnded \/ Stopped

EnvironmentNext ==
    \/ \E p \in Pids, image \in Images : Launch(p, image)
    \/ \E p \in Pids : Restart(p) \/ Exit(p)
    \/ ReceiptExpires
=============================================================================

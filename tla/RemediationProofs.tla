-------------------------- MODULE RemediationProofs --------------------------
(***************************************************************************)
(* For every set of processes, images and policies, every number of        *)
(* clients and every budget of passes: what the elevated service may end,  *)
(* what a termination that was reported is worth, and what a clear         *)
(* preflight and a resolved tick mean.                                     *)
(*                                                                         *)
(* The core is one of several actors: processes end and start, and the     *)
(* workers of calls it has given up go on.  The invariant follows the one  *)
(* call that is waited for from the pipe to its worker and back            *)
(* (CallFollowed), says that a process id of the last scan still names     *)
(* what was scanned or something started since (ScanHolds), and what each  *)
(* termination of this pass has left (PassAccounted, TickAccounted): a     *)
(* success is a process that is gone or will be, and until it is a scan    *)
(* may find it again.                                                      *)
(* That an agreeing service lets the student in has an invariant of its    *)
(* own, SInv, after the other theorems.                                    *)
(***************************************************************************)
EXTENDS Remediation, FiniteSetTheorems, WellFoundedInduction, TLAPS

\* Nothing with this process id is left from before the last scan but what has been
\* told to end.
Going(p) == os[p] # NoProcess => os[p].id > scanBorn \/ p \in dying

Types ==
    /\ TypeOK
    /\ startBorn \in Nat /\ scanBorn \in Nat
    /\ \A p \in dying : os[p] # NoProcess

(* The pipe, its client and the workers. *)
Offering == accept \in {"created", "listening"}

PipeKept ==
    /\ instance # "none" <=> Offering
    /\ instance \in {"none", "free"} /\ accept # "spawning" => caller = NoCaller
    /\ instance \in {"taken", "broken"} \/ accept = "spawning" =>
          caller.slot \in Slots \ DOMAIN work /\ caller.pid \in Pids
    /\ instance = "broken" => call.state # "waiting"
    /\ Offering => active < MaxClients
    /\ accept = "done" => DOMAIN work = {}
    /\ svc = "stopped" => accept = "done"
    /\ active = Cardinality(DOMAIN work) + (IF accept = "spawning" THEN 1 ELSE 0)
    /\ call.state = "waiting" <=> call.slot # NoCall

\* A worker past its authorization has a target that the policy lists.
Opened(c) == work[c].stage \notin {"reading", "closed"}

TargetsListed ==
    \A c \in DOMAIN work :
        Opened(c) =>
            work[c].target \in Processes /\ ServiceLists(work[c].target.image, policy)

\* The call waited for is at the pipe or with its worker, and is about Current.
CallFollowed ==
    /\ pc # "calling" => call = NoWait
    /\ pc = "calling" =>
        /\ todo # {}
        /\ call.state # "none"
        /\ call.state = "waiting" =>
              \/ caller.slot = call.slot /\ caller.pid = Current
              \/ /\ call.slot \in DOMAIN work
                 /\ work[call.slot].pid = Current
                 /\ work[call.slot].stage # "closed"
                 /\ work[call.slot].stage = "terminated" => Going(Current)
        /\ call.state = "ok" => Going(Current)

(* The scan the core works from. *)
Working == pc \in {"killing", "calling"}
Observing == Working \/ (pc = "scanning" /\ passes > 0)

Numbered == \A p \in Pids : os[p] # NoProcess => os[p].id =< born

ScanHolds ==
    /\ Working => todo \subseteq Targets(seen)
    /\ Observing => \A p \in Pids : os[p] # NoProcess /\ os[p].id =< scanBorn => os[p] = seen[p]

\* Which parts of the core's state are those of a preflight, and which of a tick.
Stepping ==
    /\ passes =< budget
    /\ pc = "idle" \/ mode = "tick" => passes = 0
    /\ mode = "tick" => exam
    /\ pc = "scanning" => mode = "preflight"
    /\ pc \in {"idle", "scanning"} => todo = {}
    /\ mode = "preflight" /\ pc # "idle" => ~exam /\ outcome = "none"
    /\ ~exam /\ pc = "idle" => actions = {}
    /\ Observing /\ mode = "preflight" => startBorn =< scanBorn

NoneFailed == \A a \in actions : a[2] # "failed"

\* What the terminations of a preflight have left, in this pass and since it began.
PassAccounted ==
    mode = "preflight" =>
        /\ Observing /\ NoneFailed =>
              /\ \A p \in Targets(seen) \ todo : Going(p)
              /\ passes + startBorn =< scanBorn + lingers + 1
        /\ pc # "idle" =>
              \A p \in Pids : <<p, "terminated">> \in actions /\ os[p] # NoProcess
                                 => os[p].id > startBorn \/ p \in dying

\* What a tick no longer has to terminate is going or stands in its result.
TickAccounted ==
    Working /\ mode = "tick" => \A p \in Blocking(seen) \ todo : Going(p) \/ Unresolved

IInv ==
    /\ Types /\ PipeKept /\ TargetsListed /\ CallFollowed
    /\ Numbered /\ ScanHolds /\ Stepping /\ PassAccounted /\ TickAccounted
    /\ ClearMeansClear

-----------------------------------------------------------------------------
(* Numbers, and the next process to terminate *)

LEMMA Smallest ==
    ASSUME NEW S \in SUBSET Nat, S # {}
    PROVE  \E m \in S : \A n \in S : m =< n
<1> DEFINE R == OpToRel(<, Nat)
<1>1. IsWellFoundedOn(R, Nat)
  BY NatLessThanWellFounded
<1>2. \A m, n \in Nat : <<n, m>> \in R <=> n < m
  BY DEF OpToRel
<1> HIDE DEF R
<1>3. PICK m \in S : \A n \in S : ~(<<n, m>> \in R)
  BY <1>1, WFMin
<1>4. m \in Nat /\ \A n \in S : n \in Nat /\ ~(n < m)
  BY <1>2, <1>3
<1> QED BY <1>4

LEMMA Priorities == \A action : Priority(action) \in 0..7
BY DEF Priority

\* A nonempty list always has a next one, in a preflight and in a tick.
LEMMA CurrentIsTodo ==
    ASSUME todo \subseteq Pids, todo # {}, mode \in {"preflight", "tick"}
    PROVE  Current \in todo
<1>1. todo \subseteq Nat
  BY ServiceAssumption
<1> SUFFICES ASSUME TRUE PROVE \E p \in todo : \A q \in todo : Before(p, q)
  BY DEF Current
<1>2. CASE mode = "preflight"
  <2>1. PICK p \in todo : \A q \in todo : p =< q
    BY <1>1, Smallest
  <2> QED BY <1>2, <2>1 DEF Before
<1>3. CASE mode = "tick"
  <2> DEFINE severity(p) == Priority(Decision(seen, p))
             mildness(p) == 7 - severity(p)
             milds == {mildness(p) : p \in todo}
  <2>1. \A p : severity(p) \in 0..7
    BY Priorities
  <2> HIDE DEF severity
  <2>2. milds \in SUBSET Nat /\ milds # {}
    BY <2>1
  <2>3. PICK m \in milds : \A n \in milds : m =< n
    BY <2>2, Smallest
  <2> DEFINE worst == {p \in todo : mildness(p) = m}
  <2>4. worst # {} /\ worst \in SUBSET Nat
    BY <2>3, <1>1
  <2>5. PICK p \in worst : \A q \in worst : p =< q
    BY <2>4, Smallest
  <2>6. ASSUME NEW q \in todo PROVE Before(p, q)
    <3>1. severity(p) \in 0..7 /\ severity(q) \in 0..7
      BY <2>1
    <3>2. 7 - severity(p) =< 7 - severity(q)
      BY <2>3, <2>5
    <3>3. severity(p) > severity(q) \/ severity(p) = severity(q)
      BY <3>1, <3>2
    <3>4. CASE severity(p) > severity(q)
      BY <1>3, <3>4 DEF Before, severity
    <3>5. CASE severity(p) = severity(q)
      <4>1. p =< q
        BY <2>5, <3>5
      <4> QED BY <1>3, <3>5, <4>1 DEF Before, severity
    <3> QED BY <3>3, <3>4, <3>5
  <2> QED BY <2>5, <2>6
<1> QED BY <1>2, <1>3

LEMMA CurrentStays ==
    ASSUME UNCHANGED <<todo, seen, mode, policy>>
    PROVE  Current' = Current
BY DEF Current, Before, Decision

LEMMA SlotsFinite ==
    /\ IsFiniteSet(Slots) /\ Cardinality(Slots) = MaxClients + 1
    /\ MaxClients \in Nat \ {0}
    /\ NoCall \notin Slots
<1>1. MaxClients \in Nat \ {0} /\ NoCall \notin Slots
  BY ServiceAssumption
<1> QED BY <1>1, FS_Interval DEF Slots

LEMMA NoWorkers ==
    ASSUME work' = << >>
    PROVE  DOMAIN work' = {}
BY DEF Slots

-----------------------------------------------------------------------------
(* The process table *)

\* What any step may make of the processes: they end, and new ones are numbered.
OsMoves ==
    /\ os' \in [Pids -> Processes \cup {NoProcess}]
    /\ dying' \subseteq Pids /\ \A p \in dying' : os'[p] # NoProcess
    /\ born' \in {born, born + 1}
    /\ \A p \in Pids :
          os'[p] # NoProcess =>
            \/ os'[p] = os[p] /\ (p \in dying => p \in dying')
            \/ os'[p].id = born + 1 /\ born' = born + 1

LEMMA OsStill ==
    ASSUME Types, UNCHANGED <<os, dying, born>>
    PROVE  OsMoves
BY DEF OsMoves, Types, TypeOK, ServiceTypeOK

LEMMA OsEnds ==
    ASSUME Types, NEW p, os' = [os EXCEPT ![p] = NoProcess], dying' = dying \ {p},
           UNCHANGED born
    PROVE  OsMoves
BY DEF OsMoves, Types, TypeOK, ServiceTypeOK

\* A process is told to end.
LEMMA OsMarks ==
    ASSUME Types, NEW p \in Pids, os[p] # NoProcess, dying' \in {dying, dying \cup {p}},
           UNCHANGED <<os, born>>
    PROVE  OsMoves
BY DEF OsMoves, Types, TypeOK, ServiceTypeOK

LEMMA OsStarts ==
    ASSUME Types, NEW p \in Pids, NEW image \in Images, dying' = dying,
           born' = born + 1, os' = [os EXCEPT ![p] = [image |-> image, id |-> born']]
    PROVE  OsMoves
<1>1. /\ born \in Nat /\ os \in [Pids -> Processes \cup {NoProcess}]
      /\ dying \subseteq Pids /\ \A q \in dying : os[q] # NoProcess
  BY DEF Types, TypeOK, ServiceTypeOK
<1>2. [image |-> image, id |-> born'] \in Processes /\ NoProcess \notin Processes
  BY <1>1, ServiceAssumption DEF Processes
<1>3. \A q \in dying' : os'[q] # NoProcess
  BY <1>1, <1>2
<1> QED BY <1>1, <1>2, <1>3 DEF OsMoves

\* What is left from before some number stays so, or is still told to end.
LEMMA OldStays ==
    ASSUME Types, OsMoves, NEW p \in Pids, NEW n \in Nat, n =< born,
           os[p] # NoProcess => os[p].id > n \/ p \in dying
    PROVE  os'[p] # NoProcess => os'[p].id > n \/ p \in dying'
<1>1. born \in Nat
  BY DEF Types, TypeOK, ServiceTypeOK
<1> SUFFICES ASSUME os'[p] # NoProcess PROVE os'[p].id > n \/ p \in dying'
  OBVIOUS
<1>2. CASE os'[p] = os[p] /\ (p \in dying => p \in dying')
  BY <1>2
<1>3. CASE os'[p].id = born + 1
  BY <1>1, <1>3
<1> QED BY <1>2, <1>3 DEF OsMoves

LEMMA GoingStays ==
    ASSUME Types, OsMoves, NEW p \in Pids, Going(p), UNCHANGED scanBorn
    PROVE  Going(p)'
BY OldStays DEF Types, TypeOK, Going

LEMMA NumberedStays ==
    ASSUME Types, OsMoves, Numbered
    PROVE  Numbered'
<1> SUFFICES ASSUME NEW p \in Pids, os'[p] # NoProcess PROVE os'[p].id =< born'
  BY DEF Numbered
<1>1. born \in Nat /\ born' \in {born, born + 1}
  BY DEF Types, TypeOK, ServiceTypeOK, OsMoves
<1>2. CASE os'[p] = os[p]
  <2>1. os[p].id =< born /\ os[p] \in Processes
    BY <1>2 DEF Numbered, Types, TypeOK, ServiceTypeOK
  <2>2. os[p].id \in Nat
    BY <2>1 DEF Processes
  <2> QED BY <1>1, <1>2, <2>1, <2>2
<1>3. CASE os'[p].id = born + 1 /\ born' = born + 1
  BY <1>1, <1>3
<1> QED BY <1>2, <1>3 DEF OsMoves

\* A pid of the last scan still names what was scanned, or something started since.
SameSince == \A p \in Pids : os[p] # NoProcess /\ os[p].id =< scanBorn => os[p] = seen[p]

LEMMA SameStays ==
    ASSUME Types, OsMoves, SameSince, UNCHANGED <<scanBorn, seen>>
    PROVE  SameSince'
<1> SUFFICES ASSUME NEW p \in Pids, os'[p] # NoProcess, os'[p].id =< scanBorn
             PROVE  os'[p] = seen[p]
  BY DEF SameSince
<1>1. born \in Nat /\ scanBorn \in Nat /\ scanBorn =< born
  BY DEF Types, TypeOK, ServiceTypeOK
<1>2. os'[p] = os[p]
  BY <1>1 DEF OsMoves
<1> QED BY <1>2 DEF SameSince

-----------------------------------------------------------------------------
(* What the core knows, in the steps that are not its own *)

LEMMA CoreKeeps ==
    ASSUME IInv, OsMoves, UNCHANGED <<coreVars, policy>>
    PROVE  /\ ServiceTypeOK' => Types'
           /\ Numbered' /\ ScanHolds' /\ Stepping' /\ PassAccounted' /\ TickAccounted'
           /\ ClearMeansClear'
<1> USE DEF coreVars
<1>1. /\ Types /\ born \in Nat /\ born' \in {born, born + 1}
      /\ startBorn \in Nat /\ scanBorn \in Nat /\ startBorn =< born /\ scanBorn =< born
  BY DEF IInv, Types, TypeOK, ServiceTypeOK, OsMoves
<1>2. ASSUME ServiceTypeOK' PROVE Types'
  <2>1. startBorn' =< born' /\ scanBorn' =< born'
    BY <1>1
  <2> QED BY <1>1, <1>2, <2>1 DEF Types, TypeOK, OsMoves
<1>3. Numbered'
  BY <1>1, NumberedStays DEF IInv
<1>4. \A p \in Pids : Going(p) => Going(p)'
  BY <1>1, GoingStays
<1>5. Targets(seen)' = Targets(seen) /\ Blocking(seen)' = Blocking(seen)
  BY DEF Targets, Blocking, Decision
<1>6. ScanHolds'
  <2>1. Observing => SameSince
    BY DEF IInv, ScanHolds, SameSince
  <2>2. Observing' => SameSince'
    BY <1>1, <2>1, SameStays DEF Observing, Working
  <2> QED BY <1>5, <2>2 DEF IInv, ScanHolds, SameSince, Working
<1>7. Stepping'
  BY DEF IInv, Stepping, Observing, Working
<1>8. PassAccounted'
  <2>1. ASSUME NEW p \in Pids, os[p] # NoProcess => os[p].id > startBorn \/ p \in dying,
               os'[p] # NoProcess
        PROVE  os'[p].id > startBorn \/ p \in dying'
    BY <1>1, <2>1, OldStays
  <2>2. mode = "preflight" /\ pc # "idle" =>
           \A p \in Pids : <<p, "terminated">> \in actions /\ os'[p] # NoProcess
                              => os'[p].id > startBorn \/ p \in dying'
    BY <2>1 DEF IInv, PassAccounted
  <2>3. \A p \in Targets(seen) : Going(p) => Going(p)'
    BY <1>4 DEF Targets
  <2> QED BY <1>5, <2>2, <2>3 DEF IInv, PassAccounted, Observing, Working, NoneFailed
<1>9. TickAccounted'
  <2>1. Unresolved' <=> Unresolved
    BY DEF Unresolved, Decision
  <2>2. \A p \in Blocking(seen) : Going(p) => Going(p)'
    BY <1>4 DEF Blocking
  <2> QED BY <1>5, <2>1, <2>2 DEF IInv, TickAccounted, Working
<1>10. ClearMeansClear'
  <2> SUFFICES ASSUME pc = "idle", exam, outcome \in {"none", "resolved"},
                      NEW p \in Blocking(os)'
               PROVE  os'[p].id > scanBorn \/ (outcome = "resolved" /\ p \in dying')
    BY DEF ClearMeansClear
  <2>1. p \in Pids /\ os'[p] # NoProcess
    BY DEF Blocking, Decision, Blocks
  <2>2. CASE os'[p] = os[p] /\ (p \in dying => p \in dying')
    <3>1. p \in Blocking(os)
      BY <2>1, <2>2 DEF Blocking, Decision
    <3> QED BY <2>2, <3>1 DEF IInv, ClearMeansClear
  <2>3. CASE os'[p].id = born + 1
    BY <1>1, <2>3
  <2> QED BY <2>1, <2>2, <2>3 DEF OsMoves
<1> QED BY <1>2, <1>3, <1>6, <1>7, <1>8, <1>9, <1>10

-----------------------------------------------------------------------------
(* The service, its pipe and its workers, in the steps that are not the core's *)

ServiceKept == ServiceTypeOK /\ PipeKept /\ TargetsListed /\ CallFollowed

LEMMA WorkersFinite ==
    ASSUME ServiceTypeOK
    PROVE  IsFiniteSet(DOMAIN work) /\ Cardinality(DOMAIN work) \in Nat
BY SlotsFinite, FS_Subset, FS_CardinalityType DEF ServiceTypeOK

\* What CallFollowed says of the steps of others: it stays about the same process.
LEMMA CurrentHeld ==
    ASSUME IInv, OsMoves, UNCHANGED <<coreVars, policy>>
    PROVE  /\ Current' = Current
           /\ pc = "calling" => Current \in Pids /\ (Going(Current) => Going(Current)')
<1>1. Current' = Current
  BY CurrentStays DEF coreVars
<1>2. ASSUME pc = "calling"
      PROVE  Current \in Pids /\ (Going(Current) => Going(Current)')
  <2>1. todo # {} /\ todo \subseteq Pids /\ mode \in {"preflight", "tick"} /\ Types
    BY <1>2 DEF IInv, CallFollowed, Types, TypeOK
  <2>2. Current \in Pids
    BY <2>1, CurrentIsTodo
  <2>3. \A p \in Pids :
           Going(p) => (os'[p] # NoProcess => os'[p].id > scanBorn' \/ p \in dying')
    BY <2>1, GoingStays DEF coreVars, Going
  <2>4. Going(Current)' =
           (os'[Current'] # NoProcess => os'[Current'].id > scanBorn' \/ Current' \in dying')
    BY DEF Going
  <2> HIDE DEF Current
  <2> QED BY <1>1, <2>2, <2>3, <2>4
<1> QED BY <1>1, <1>2

\* A step that neither the pipe nor the call is part of.
LEMMA ServiceStill ==
    ASSUME IInv, OsMoves, UNCHANGED <<coreVars, policyState, serviceState, call>>
    PROVE  PipeKept' /\ TargetsListed' /\ CallFollowed'
<1> USE DEF policyState, serviceState, acceptState
<1>1. /\ Current' = Current
      /\ pc = "calling" => Current \in Pids /\ (Going(Current) => Going(Current)')
  BY CurrentHeld
<1>2. PipeKept'
  BY DEF IInv, PipeKept, Offering
<1>3. TargetsListed'
  BY DEF IInv, TargetsListed, Opened
<1>4. CallFollowed'
  BY <1>1 DEF IInv, CallFollowed, coreVars
<1> QED BY <1>2, <1>3, <1>4

(* Windows and its user. *)
LEMMA EnvironmentSteps ==
    ASSUME IInv, EnvironmentNext, UNCHANGED coreVars
    PROVE  OsMoves /\ UNCHANGED policy /\ ServiceKept'
<1> USE DEF policyState, serviceState, acceptState, osState
<1>1. Types /\ ServiceTypeOK
  BY DEF IInv, Types, TypeOK
<1>2. ASSUME NEW p \in Pids, NEW image \in Images, Start(p, image), disturbed' \in BOOLEAN
      PROVE  OsMoves /\ UNCHANGED <<policyState, serviceState, call>> /\ ServiceTypeOK'
  <2>1. OsMoves
    BY <1>1, <1>2, OsStarts DEF Start
  <2>2. born' \in Nat /\ owed' \subseteq Backed
    BY <1>1, <1>2 DEF Start, ServiceTypeOK
  <2> QED BY <1>1, <1>2, <2>1, <2>2 DEF Start, ServiceTypeOK, OsMoves
<1>3. ASSUME NEW p \in Pids, Exit(p)
      PROVE  OsMoves /\ UNCHANGED <<policyState, serviceState, call>> /\ ServiceTypeOK'
  <2>1. OsMoves
    BY <1>1, <1>3, OsEnds DEF Exit, Ended
  <2>2. owed' \subseteq Backed /\ disturbed' \in BOOLEAN
    BY <1>3 DEF Exit, Ended
  <2> QED BY <1>1, <1>3, <2>1, <2>2 DEF Exit, Ended, ServiceTypeOK, OsMoves
<1>4. ASSUME ReceiptExpires
      PROVE  OsMoves /\ UNCHANGED <<policyState, serviceState, call>> /\ ServiceTypeOK'
  BY <1>1, <1>4, OsStill DEF ReceiptExpires, ServiceTypeOK
<1>5. OsMoves /\ UNCHANGED <<policyState, serviceState, call>> /\ ServiceTypeOK'
  <2>1. ASSUME NEW p \in Pids, NEW image \in Images, Launch(p, image)
        PROVE  Start(p, image) /\ disturbed' \in BOOLEAN
    BY <2>1 DEF Launch
  <2>2. ASSUME NEW p \in Pids, Restart(p)
        PROVE  \E image \in Images : Start(p, image) /\ disturbed' \in BOOLEAN
    BY <1>1, <2>2, ServiceAssumption DEF Restart, ServiceTypeOK
  <2> QED BY <1>2, <1>3, <1>4, <2>1, <2>2 DEF EnvironmentNext
<1>6. PipeKept' /\ TargetsListed' /\ CallFollowed'
  BY <1>5, ServiceStill
<1> QED BY <1>5, <1>6 DEF ServiceKept

-----------------------------------------------------------------------------
(* The accept thread *)

\* A call that nobody waits for is not answered by a slot that closes.
LEMMA HungKeeps ==
    ASSUME ServiceTypeOK, PipeKept, NEW c
    PROVE  /\ Hung(c) \in [slot : Slots \cup {NoCall}, state : {"none", "waiting", "ok", "error"}]
           /\ Hung(c).state = "waiting" <=> Hung(c).slot # NoCall
           /\ call = NoWait => Hung(c) = call
           /\ call.state # "none" => Hung(c).state # "none"
           /\ Hung(c).state = "waiting" => Hung(c) = call /\ call.slot # c
           /\ Hung(c).state = "ok" => call.state = "ok"
<1>1. call \in [slot : Slots \cup {NoCall}, state : {"none", "waiting", "ok", "error"}]
  BY DEF ServiceTypeOK
<1>2. CASE call.state = "waiting" /\ call.slot = c
  <2>1. Hung(c) = [slot |-> NoCall, state |-> "error"]
    BY <1>1, <1>2 DEF Hung
  <2> QED BY <1>2, <2>1 DEF NoWait
<1>3. CASE ~(call.state = "waiting" /\ call.slot = c)
  <2>1. Hung(c) = call
    BY <1>3 DEF Hung
  <2> QED BY <1>1, <1>3, <2>1 DEF PipeKept
<1> QED BY <1>2, <1>3

LEMMA AcceptSteps ==
    ASSUME IInv, UNCHANGED coreVars,
           CreateInstance \/ Listen \/ AcceptCount \/ Spawn \/ Join
    PROVE  OsMoves /\ UNCHANGED policy /\ ServiceKept'
<1> USE DEF policyState, serviceState, acceptState, osState
<1>1. Types /\ ServiceTypeOK /\ PipeKept /\ TargetsListed /\ CallFollowed
  BY DEF IInv, Types, TypeOK
<1>2. OsMoves /\ UNCHANGED policyState
  BY <1>1, OsStill DEF CreateInstance, Listen, AcceptCount, Spawn, Join
<1>3. /\ Current' = Current
      /\ pc = "calling" => Current \in Pids /\ (Going(Current) => Going(Current)')
  BY <1>2, CurrentHeld
<1> HIDE DEF Current
<1>4. /\ NoCall \notin Slots /\ MaxClients \in Nat
      /\ IsFiniteSet(DOMAIN work) /\ Cardinality(DOMAIN work) \in Nat
  BY <1>1, SlotsFinite, WorkersFinite
<1>5. CASE CreateInstance
  <2>1. ServiceTypeOK'
    BY <1>1, <1>5 DEF CreateInstance, ServiceTypeOK
  <2>2. PipeKept'
    BY <1>1, <1>5 DEF CreateInstance, PipeKept, Offering, ServiceTypeOK
  <2>3. TargetsListed' /\ CallFollowed'
    BY <1>1, <1>3, <1>5 DEF CreateInstance, TargetsListed, Opened, CallFollowed, coreVars
  <2> QED BY <1>2, <2>1, <2>2, <2>3 DEF ServiceKept
<1>6. CASE Listen
  <2>1. ServiceTypeOK'
    BY <1>1, <1>6 DEF Listen, ServiceTypeOK, NoCaller
  <2>2. PipeKept'
    BY <1>1, <1>6 DEF Listen, PipeKept, Offering
  <2>3. TargetsListed'
    BY <1>1, <1>6 DEF Listen, TargetsListed, Opened
  <2>4. CallFollowed'
    <3>1. call.state = "waiting" => caller' = caller
      BY <1>1, <1>6 DEF Listen, PipeKept
    <3> QED BY <1>1, <1>3, <1>6, <3>1 DEF Listen, CallFollowed, coreVars
  <2> QED BY <1>2, <2>1, <2>2, <2>3, <2>4 DEF ServiceKept
<1>7. CASE AcceptCount
  <2>1. /\ caller.slot \in Slots \ DOMAIN work /\ caller.pid \in Pids
        /\ active < MaxClients /\ active = Cardinality(DOMAIN work)
    BY <1>1, <1>4, <1>7 DEF AcceptCount, PipeKept, Offering
  <2>2. ServiceTypeOK'
    BY <1>1, <1>4, <1>7, <2>1 DEF AcceptCount, ServiceTypeOK
  <2>3. PipeKept'
    BY <1>1, <1>7, <2>1 DEF AcceptCount, PipeKept, Offering
  <2>4. TargetsListed' /\ CallFollowed'
    BY <1>1, <1>3, <1>7 DEF AcceptCount, TargetsListed, Opened, CallFollowed, coreVars
  <2> QED BY <1>2, <2>2, <2>3, <2>4 DEF ServiceKept
<1>8. CASE Spawn
  <2>1. /\ caller.slot \in Slots \ DOMAIN work /\ caller.pid \in Pids
        /\ active = Cardinality(DOMAIN work) + 1
    BY <1>1, <1>8 DEF Spawn, PipeKept, Offering
  <2>2. /\ DOMAIN work' = DOMAIN work \cup {caller.slot}
        /\ \A c \in DOMAIN work : work'[c] = work[c]
        /\ work'[caller.slot] = [pid |-> caller.pid, stage |-> "reading", target |-> NoProcess]
    BY <1>8, <2>1 DEF Spawn
  <2>3. active' = Cardinality(DOMAIN work')
    BY <1>1, <1>4, <1>8, <2>1, <2>2, FS_AddElement DEF Spawn, ServiceTypeOK
  <2>4. ServiceTypeOK'
    <3>1. DOMAIN work' \subseteq Slots
      BY <1>1, <2>1, <2>2 DEF ServiceTypeOK
    <3>2. \A c \in DOMAIN work' :
             work'[c] \in [pid : Pids, stage : Stages, target : Processes \cup {NoProcess}]
      BY <1>1, <2>1, <2>2 DEF ServiceTypeOK, Stages
    <3> QED BY <1>1, <1>8, <3>1, <3>2 DEF Spawn, ServiceTypeOK, NoCaller
  <2>5. PipeKept'
    BY <1>1, <1>4, <1>8, <2>3, FS_CardinalityType DEF Spawn, PipeKept, Offering
  <2>6. TargetsListed'
    BY <1>1, <1>8, <2>2 DEF Spawn, TargetsListed, Opened
  <2>7. CallFollowed'
    <3>1. ASSUME pc = "calling", call.state = "waiting"
          PROVE  /\ call.slot \in DOMAIN work'
                 /\ work'[call.slot].pid = Current
                 /\ work'[call.slot].stage # "closed"
                 /\ work'[call.slot].stage = "terminated" => Going(Current)
      BY <1>1, <2>1, <2>2, <3>1 DEF CallFollowed
    <3> QED BY <1>1, <1>3, <1>8, <3>1 DEF Spawn, CallFollowed, coreVars
  <2> QED BY <1>2, <2>4, <2>5, <2>6, <2>7 DEF ServiceKept
<1>9. CASE Join
  <2>1. ServiceTypeOK'
    BY <1>1, <1>9 DEF Join, ServiceTypeOK
  <2>2. PipeKept'
    BY <1>1, <1>9 DEF Join, PipeKept, Offering
  <2>3. TargetsListed' /\ CallFollowed'
    BY <1>1, <1>3, <1>9 DEF Join, TargetsListed, Opened, CallFollowed, coreVars
  <2> QED BY <1>2, <2>1, <2>2, <2>3 DEF ServiceKept
<1> QED BY <1>5, <1>6, <1>7, <1>8, <1>9

\* The thread leaves its client, or ends: whoever it was about to serve is told so.
LEMMA AcceptEndSteps ==
    ASSUME IInv, UNCHANGED coreVars, SeeStop \/ CancelFails \/ AcceptFails \/ SpawnFails
    PROVE  OsMoves /\ UNCHANGED policy /\ ServiceKept'
<1> USE DEF policyState, serviceState, acceptState, osState
<1>1. Types /\ ServiceTypeOK /\ PipeKept /\ TargetsListed /\ CallFollowed
  BY DEF IInv, Types, TypeOK
<1>2. OsMoves /\ UNCHANGED policyState
  BY <1>1, OsStill DEF SeeStop, CancelFails, AcceptFails, SpawnFails
<1>3. /\ Current' = Current
      /\ pc = "calling" => Current \in Pids /\ (Going(Current) => Going(Current)')
  BY <1>2, CurrentHeld
<1> HIDE DEF Current
<1>4. NoCall \notin Slots /\ MaxClients \in Nat /\ Cardinality(DOMAIN work) \in Nat
  BY <1>1, SlotsFinite, WorkersFinite
<1>5. /\ instance' = "none" /\ caller' = NoCaller /\ call' = Hung(caller.slot)
      /\ accept \in {"loop", "listening", "created", "spawning"}
      /\ accept' \in {"joining", "failed"}
      /\ active' = IF accept = "spawning" THEN active - 1 ELSE active
      /\ disturbed' \in {disturbed, TRUE}
      /\ UNCHANGED <<policyState, receipt, osState, svc, work>>
  <2>1. instance = "none" \/ Offering
    BY <1>1 DEF PipeKept
  <2>2. CASE SeeStop
    BY <2>2 DEF SeeStop
  <2>3. CASE CancelFails
    BY <2>3 DEF CancelFails
  <2>4. CASE AcceptFails
    BY <2>4 DEF AcceptFails
  <2>5. CASE SpawnFails
    BY <2>1, <2>5 DEF SpawnFails, Offering
  <2> QED BY <2>2, <2>3, <2>4, <2>5
<1> DEFINE next == Hung(caller.slot)
<1>6. /\ next \in [slot : Slots \cup {NoCall}, state : {"none", "waiting", "ok", "error"}]
      /\ next.state = "waiting" <=> next.slot # NoCall
      /\ call = NoWait => next = call
      /\ call.state # "none" => next.state # "none"
      /\ next.state = "waiting" => next = call /\ call.slot # caller.slot
      /\ next.state = "ok" => call.state = "ok"
  BY <1>1, HungKeeps
<1> HIDE DEF next
<1>7. call' = next
  BY <1>5 DEF next
<1>8. active' = Cardinality(DOMAIN work) /\ active' \in 0..MaxClients
  BY <1>1, <1>4, <1>5 DEF PipeKept, ServiceTypeOK
<1>9. ServiceTypeOK'
  BY <1>1, <1>5, <1>6, <1>7, <1>8 DEF ServiceTypeOK, NoCaller
<1>10. PipeKept'
  BY <1>1, <1>5, <1>6, <1>7, <1>8 DEF PipeKept, Offering
<1>11. TargetsListed'
  BY <1>1, <1>5 DEF TargetsListed, Opened
<1>12. CallFollowed'
  BY <1>1, <1>3, <1>5, <1>6, <1>7 DEF CallFollowed, coreVars
<1> QED BY <1>2, <1>9, <1>10, <1>11, <1>12 DEF ServiceKept

-----------------------------------------------------------------------------
(* The workers *)

\* What a worker that closes its pipe leaves of the others, and of the call.
LEMMA CloseKeeps ==
    ASSUME IInv, OsMoves, UNCHANGED <<coreVars, policyState, acceptState>>,
           NEW c \in DOMAIN work, Closed(c),
           ServiceTypeOK => os' \in [Pids -> Processes \cup {NoProcess}] /\ born' \in Nat
                            /\ disabled' \subseteq Backed /\ owed' \subseteq Backed
                            /\ receipt' = receipt /\ disturbed' = disturbed,
           call' \in [slot : Slots \cup {NoCall}, state : {"none", "waiting", "ok", "error"}],
           call'.state = "waiting" <=> call'.slot # NoCall,
           call = NoWait => call' = call,
           call.state # "none" => call'.state # "none",
           call'.state = "waiting" => call' = call /\ call.slot # c,
           call'.state = "ok" =>
              call.state = "ok" \/ (call.slot = c /\ work[c].stage = "terminated")
    PROVE  ServiceKept'
<1> USE DEF policyState, acceptState
<1>1. Types /\ ServiceTypeOK /\ PipeKept /\ TargetsListed /\ CallFollowed
  BY DEF IInv, Types, TypeOK
<1>2. /\ Current' = Current
      /\ pc = "calling" => Current \in Pids /\ (Going(Current) => Going(Current)')
  BY CurrentHeld
<1> HIDE DEF Current
<1>3. NoCall \notin Slots /\ DOMAIN work \subseteq Slots
      /\ work[c] \in [pid : Pids, stage : Stages, target : Processes \cup {NoProcess}]
  BY <1>1, SlotsFinite DEF ServiceTypeOK
<1>4. /\ DOMAIN work' = DOMAIN work
      /\ \A d \in DOMAIN work : d # c => work'[d] = work[d]
      /\ work'[c] = [work[c] EXCEPT !.stage = "closed", !.target = NoProcess]
      /\ active' = active
  BY <1>3 DEF Closed
<1>5. /\ work'[c].pid = work[c].pid /\ work'[c].stage = "closed"
      /\ work'[c] \in [pid : Pids, stage : Stages, target : Processes \cup {NoProcess}]
  BY <1>3, <1>4 DEF Stages
<1>6. ServiceTypeOK'
  <2>1. \A d \in DOMAIN work' :
           work'[d] \in [pid : Pids, stage : Stages, target : Processes \cup {NoProcess}]
    BY <1>1, <1>4, <1>5 DEF ServiceTypeOK
  <2> QED BY <1>1, <1>4, <2>1 DEF ServiceTypeOK, OsMoves
<1>7. PipeKept'
  BY <1>1, <1>4 DEF PipeKept, Offering
<1>8. TargetsListed'
  BY <1>1, <1>4, <1>5 DEF TargetsListed, Opened
<1>9. CallFollowed'
  <2>1. pc = "calling" /\ call'.state = "ok" => Going(Current)
    <3>1. ASSUME pc = "calling", call.slot = c, work[c].stage = "terminated"
          PROVE  Going(Current)
      <4>1. call.state = "waiting"
        BY <1>1, <1>3, <3>1 DEF PipeKept, ServiceTypeOK
      <4>2. caller.slot # call.slot
        BY <1>1, <1>3, <3>1 DEF PipeKept, NoCaller, ServiceTypeOK
      <4> QED BY <1>1, <3>1, <4>1, <4>2 DEF CallFollowed
    <3> QED BY <1>1, <3>1 DEF CallFollowed
  <2> QED BY <1>1, <1>2, <1>4, <2>1 DEF CallFollowed, coreVars
<1> QED BY <1>6, <1>7, <1>8, <1>9 DEF ServiceKept

LEMMA RejectKeeps ==
    ASSUME IInv, OsMoves, UNCHANGED <<coreVars, policyState, receipt, osState, acceptState, disturbed>>,
           NEW c \in DOMAIN work, Rejects(c)
    PROVE  ServiceKept'
<1>1. ServiceTypeOK /\ PipeKept
  BY DEF IInv, Types, TypeOK
<1> DEFINE next == Hung(c)
<1>2. /\ next \in [slot : Slots \cup {NoCall}, state : {"none", "waiting", "ok", "error"}]
      /\ next.state = "waiting" <=> next.slot # NoCall
      /\ call = NoWait => next = call
      /\ call.state # "none" => next.state # "none"
      /\ next.state = "waiting" => next = call /\ call.slot # c
      /\ next.state = "ok" => call.state = "ok"
  BY <1>1, HungKeeps
<1> HIDE DEF next
<1>3. call' = next /\ Closed(c)
  BY DEF Rejects, next
<1>4. ServiceTypeOK => os' \in [Pids -> Processes \cup {NoProcess}] /\ born' \in Nat
                       /\ disabled' \subseteq Backed /\ owed' \subseteq Backed
                       /\ receipt' = receipt /\ disturbed' = disturbed
  BY DEF ServiceTypeOK, osState
<1> QED BY <1>2, <1>3, <1>4, CloseKeeps

\* A step of a worker that goes on: the others and the call are as they were.
LEMMA WorkKeeps ==
    ASSUME IInv, OsMoves, UNCHANGED <<coreVars, policyState, receipt, acceptState, active, call>>,
           NEW c \in DOMAIN work,
           DOMAIN work' = DOMAIN work,
           \A d \in DOMAIN work : d # c => work'[d] = work[d],
           work'[c] \in [pid : Pids, stage : Stages, target : Processes \cup {NoProcess}],
           work'[c].pid = work[c].pid,
           work'[c].stage \notin {"reading", "closed"},
           work'[c].target \in Processes /\ ServiceLists(work'[c].target.image, policy),
           work'[c].stage = "terminated" => work[c].pid \in dying',
           os' \in [Pids -> Processes \cup {NoProcess}], born' \in Nat,
           disabled' \subseteq Backed, owed' \subseteq Backed, disturbed' \in BOOLEAN
    PROVE  ServiceKept'
<1> USE DEF policyState, acceptState
<1>1. Types /\ ServiceTypeOK /\ PipeKept /\ TargetsListed /\ CallFollowed
  BY DEF IInv, Types, TypeOK
<1>2. /\ Current' = Current
      /\ pc = "calling" => Current \in Pids /\ (Going(Current) => Going(Current)')
  BY CurrentHeld
<1> HIDE DEF Current
<1>3. \A d \in DOMAIN work' :
         work'[d] \in [pid : Pids, stage : Stages, target : Processes \cup {NoProcess}]
  BY <1>1 DEF ServiceTypeOK
<1>4. ServiceTypeOK'
  BY <1>1, <1>3 DEF ServiceTypeOK, OsMoves
<1>5. PipeKept'
  BY <1>1 DEF PipeKept, Offering
<1>6. TargetsListed'
  BY <1>1 DEF TargetsListed, Opened
<1>7. CallFollowed'
  <2>1. ASSUME pc = "calling", call.slot = c, call.slot \in DOMAIN work, work[c].pid = Current,
               work[c].stage = "terminated" => Going(Current)
        PROVE  work'[c].stage = "terminated" => Going(Current)'
    <3>1. Current \in dying' => Going(Current)'
      BY <1>2 DEF Going
    <3> QED BY <1>2, <2>1, <3>1
  <2>2. ASSUME pc = "calling", call.state = "waiting",
               ~(caller.slot = call.slot /\ caller.pid = Current)
        PROVE  /\ call.slot \in DOMAIN work'
               /\ work'[call.slot].pid = Current
               /\ work'[call.slot].stage # "closed"
               /\ work'[call.slot].stage = "terminated" => Going(Current)'
    <3>1. /\ call.slot \in DOMAIN work
          /\ work[call.slot].pid = Current
          /\ work[call.slot].stage # "closed"
          /\ work[call.slot].stage = "terminated" => Going(Current)
      BY <1>1, <2>2 DEF CallFollowed
    <3>2. CASE call.slot = c
      BY <2>1, <2>2, <3>1, <3>2
    <3>3. CASE call.slot # c
      BY <1>2, <2>2, <3>1, <3>3
    <3> QED BY <3>2, <3>3
  <2> QED BY <1>1, <1>2, <2>2 DEF CallFollowed, coreVars
<1> QED BY <1>4, <1>5, <1>6, <1>7 DEF ServiceKept

LEMMA AuthorizeStep ==
    ASSUME IInv, UNCHANGED coreVars, NEW c \in DOMAIN work, Authorize(c)
    PROVE  OsMoves /\ UNCHANGED policy /\ ServiceKept'
<1>1. Types /\ ServiceTypeOK
  BY DEF IInv, Types, TypeOK
<1>2. OsMoves /\ UNCHANGED <<policyState, receipt, osState, acceptState, disturbed>>
  BY <1>1, OsStill DEF Authorize, osState
<1>3. CASE Rejects(c)
  BY <1>2, <1>3, RejectKeeps DEF policyState
<1>4. CASE ~Rejects(c)
  <2>1. /\ Authorized(c) /\ work[c].stage = "reading"
        /\ os[work[c].pid] # NoProcess /\ ServiceLists(os[work[c].pid].image, policy)
    BY <1>4 DEF Authorize
  <2>2. work[c] \in [pid : Pids, stage : Stages, target : Processes \cup {NoProcess}]
    BY <1>1 DEF ServiceTypeOK
  <2>3. os[work[c].pid] \in Processes
    BY <1>1, <2>1, <2>2 DEF ServiceTypeOK
  <2>4. /\ DOMAIN work' = DOMAIN work
        /\ \A d \in DOMAIN work : d # c => work'[d] = work[d]
        /\ work'[c] = [work[c] EXCEPT !.stage = "authorized", !.target = os[work[c].pid]]
        /\ UNCHANGED <<active, call>>
    BY <2>1 DEF Authorized
  <2>5. /\ work'[c].pid = work[c].pid /\ work'[c].stage = "authorized"
        /\ work'[c].target = os[work[c].pid]
        /\ work'[c] \in [pid : Pids, stage : Stages, target : Processes \cup {NoProcess}]
    BY <2>2, <2>3, <2>4 DEF Stages
  <2>6. /\ os' \in [Pids -> Processes \cup {NoProcess}] /\ born' \in Nat
        /\ disabled' \subseteq Backed /\ owed' \subseteq Backed /\ disturbed' \in BOOLEAN
    BY <1>1, <1>2 DEF ServiceTypeOK, osState
  <2>7. ServiceKept'
    BY <1>2, <2>1, <2>3, <2>4, <2>5, <2>6, WorkKeeps
  <2> QED BY <1>2, <2>7 DEF policyState
<1> QED BY <1>3, <1>4

LEMMA DisableStep ==
    ASSUME IInv, UNCHANGED coreVars, NEW c \in DOMAIN work, Disable(c)
    PROVE  OsMoves /\ UNCHANGED policy /\ ServiceKept'
<1>1. Types /\ ServiceTypeOK /\ TargetsListed
  BY DEF IInv, Types, TypeOK
<1>2. /\ UNCHANGED <<policyState, receipt, born, acceptState, active, call>>
      /\ work[c].stage = "authorized"
      /\ work' = [work EXCEPT ![c].stage = "disabled"]
      /\ UNCHANGED <<os, owed>>
      /\ \/ dying' = dying
         \/ os[work[c].pid] = work[c].target /\ dying' = dying \cup {work[c].pid}
  BY DEF Disable
<1>4. work[c] \in [pid : Pids, stage : Stages, target : Processes \cup {NoProcess}]
  BY <1>1 DEF ServiceTypeOK
<1>5. work[c].target \in Processes /\ ServiceLists(work[c].target.image, policy)
  BY <1>1, <1>2 DEF TargetsListed, Opened
<1>3. OsMoves
  <2>1. work[c].target # NoProcess /\ work[c].pid \in Pids
    BY <1>4, <1>5, ServiceAssumption
  <2> QED BY <1>1, <1>2, <2>1, OsStill, OsMarks
<1>6. /\ DOMAIN work' = DOMAIN work
      /\ \A d \in DOMAIN work : d # c => work'[d] = work[d]
      /\ work'[c] = [work[c] EXCEPT !.stage = "disabled"]
  BY <1>2
<1>7. /\ work'[c].pid = work[c].pid /\ work'[c].stage = "disabled"
      /\ work'[c].target = work[c].target
      /\ work'[c] \in [pid : Pids, stage : Stages, target : Processes \cup {NoProcess}]
  BY <1>4, <1>6 DEF Stages
<1>8. disabled' \subseteq Backed /\ disturbed' \in BOOLEAN
  BY <1>1 DEF Disable, ServiceTypeOK
<1>9. os' \in [Pids -> Processes \cup {NoProcess}] /\ born' \in Nat /\ owed' \subseteq Backed
  BY <1>1, <1>2, <1>3 DEF ServiceTypeOK, OsMoves
<1>10. ServiceKept'
  BY <1>2, <1>3, <1>5, <1>6, <1>7, <1>8, <1>9, WorkKeeps
<1> QED BY <1>2, <1>3, <1>10 DEF policyState

LEMMA TerminateStep ==
    ASSUME IInv, UNCHANGED coreVars, NEW c \in DOMAIN work, Terminate(c)
    PROVE  OsMoves /\ UNCHANGED policy /\ ServiceKept'
<1>1. Types /\ ServiceTypeOK /\ TargetsListed
  BY DEF IInv, Types, TypeOK
<1>2. /\ UNCHANGED <<policyState, receipt, os, owed, born, disabled, acceptState, disturbed>>
      /\ work[c].stage = "disabled"
  BY DEF Terminate
<1>3. CASE Rejects(c) /\ UNCHANGED dying
  <2>1. UNCHANGED osState
    BY <1>2, <1>3 DEF osState
  <2>2. OsMoves
    BY <1>1, <2>1, OsStill DEF osState
  <2> QED BY <1>2, <1>3, <2>1, <2>2, RejectKeeps DEF policyState
<1>4. ASSUME os[work[c].pid] = work[c].target, dying' = dying \cup {work[c].pid},
             work' = [work EXCEPT ![c].stage = "terminated"], UNCHANGED <<active, call>>
      PROVE  OsMoves /\ UNCHANGED policy /\ ServiceKept'
  <2>1. work[c] \in [pid : Pids, stage : Stages, target : Processes \cup {NoProcess}]
    BY <1>1 DEF ServiceTypeOK
  <2>2. work[c].target \in Processes /\ ServiceLists(work[c].target.image, policy)
    BY <1>1, <1>2 DEF TargetsListed, Opened
  <2>3. OsMoves
    <3>1. work[c].target # NoProcess /\ work[c].pid \in Pids
      BY <2>1, <2>2, ServiceAssumption
    <3> QED BY <1>1, <1>2, <1>4, <3>1, OsMarks
  <2>4. /\ DOMAIN work' = DOMAIN work
        /\ \A d \in DOMAIN work : d # c => work'[d] = work[d]
        /\ work'[c] = [work[c] EXCEPT !.stage = "terminated"]
    BY <1>4
  <2>5. /\ work'[c].pid = work[c].pid /\ work'[c].target = work[c].target
        /\ work'[c].stage = "terminated"
        /\ work'[c] \in [pid : Pids, stage : Stages, target : Processes \cup {NoProcess}]
    BY <2>1, <2>4 DEF Stages
  <2>6. /\ os' \in [Pids -> Processes \cup {NoProcess}] /\ born' \in Nat
        /\ disabled' \subseteq Backed /\ owed' \subseteq Backed /\ disturbed' \in BOOLEAN
    BY <1>1, <1>2 DEF ServiceTypeOK
  <2>7. work[c].pid \in dying'
    BY <1>4
  <2>8. ServiceKept'
    BY <1>2, <1>4, <2>2, <2>3, <2>4, <2>5, <2>6, <2>7, WorkKeeps
  <2> QED BY <1>2, <2>3, <2>8 DEF policyState
<1> QED BY <1>3, <1>4 DEF Terminate

LEMMA AnswerStep ==
    ASSUME IInv, UNCHANGED coreVars, NEW c \in DOMAIN work, Answer(c)
    PROVE  OsMoves /\ UNCHANGED policy /\ ServiceKept'
<1>1. Types /\ ServiceTypeOK /\ PipeKept
  BY DEF IInv, Types, TypeOK
<1>2. /\ UNCHANGED <<policyState, receipt, osState, acceptState, disturbed>>
      /\ work[c].stage = "terminated" /\ Closed(c)
  BY DEF Answer
<1>3. OsMoves
  BY <1>1, <1>2, OsStill DEF osState
<1>4. call \in [slot : Slots \cup {NoCall}, state : {"none", "waiting", "ok", "error"}]
      /\ c \in Slots /\ NoCall \notin Slots
  BY <1>1, SlotsFinite DEF ServiceTypeOK
<1>5. /\ call' \in [slot : Slots \cup {NoCall}, state : {"none", "waiting", "ok", "error"}]
      /\ call'.state = "waiting" <=> call'.slot # NoCall
      /\ call = NoWait => call' = call
      /\ call.state # "none" => call'.state # "none"
      /\ call'.state = "waiting" => call' = call /\ call.slot # c
      /\ call'.state = "ok" => call.state = "ok" \/ (call.slot = c /\ work[c].stage = "terminated")
  <2>1. CASE call.slot = c
    <3>1. call' = [slot |-> NoCall, state |-> "ok"]
      BY <1>4, <2>1 DEF Answer
    <3> QED BY <1>2, <1>4, <2>1, <3>1 DEF NoWait
  <2>2. CASE call.slot # c
    <3>1. call' = call
      BY <2>2 DEF Answer
    <3> QED BY <1>1, <1>4, <2>2, <3>1 DEF PipeKept
  <2> QED BY <2>1, <2>2
<1>6. ServiceTypeOK => os' \in [Pids -> Processes \cup {NoProcess}] /\ born' \in Nat
                       /\ disabled' \subseteq Backed /\ owed' \subseteq Backed
                       /\ receipt' = receipt /\ disturbed' = disturbed
  BY <1>2 DEF ServiceTypeOK, osState
<1>7. ServiceKept'
  BY <1>2, <1>3, <1>5, <1>6, CloseKeeps
<1> QED BY <1>2, <1>3, <1>7 DEF policyState

\* A worker goes after its pipe is closed: no call is waiting for it any more.
LEMMA LeaveStep ==
    ASSUME IInv, UNCHANGED coreVars, NEW c \in DOMAIN work, Leave(c)
    PROVE  OsMoves /\ UNCHANGED policy /\ ServiceKept'
<1> USE DEF policyState, acceptState, osState
<1>1. Types /\ ServiceTypeOK /\ PipeKept /\ TargetsListed /\ CallFollowed
  BY DEF IInv, Types, TypeOK
<1>2. /\ UNCHANGED <<policyState, receipt, osState, acceptState, call, disturbed>>
      /\ work[c].stage = "closed"
      /\ DOMAIN work' = DOMAIN work \ {c} /\ \A d \in DOMAIN work' : work'[d] = work[d]
      /\ active' = active - 1
  BY DEF Leave
<1>3. OsMoves
  BY <1>1, <1>2, OsStill
<1>4. /\ Current' = Current
      /\ pc = "calling" => Current \in Pids /\ (Going(Current) => Going(Current)')
  BY <1>2, <1>3, CurrentHeld
<1> HIDE DEF Current
<1>5. IsFiniteSet(DOMAIN work) /\ Cardinality(DOMAIN work) \in Nat
  BY <1>1, WorkersFinite
<1>6. /\ Cardinality(DOMAIN work') = Cardinality(DOMAIN work) - 1
      /\ active' \in 0..MaxClients /\ active' =< active /\ active \in Nat
  <2>1. IsFiniteSet(DOMAIN work') /\ Cardinality(DOMAIN work') = Cardinality(DOMAIN work) - 1
    BY <1>2, <1>5, FS_RemoveElement
  <2>2. Cardinality(DOMAIN work') \in Nat
    BY <2>1, FS_CardinalityType
  <2> QED BY <1>1, <1>2, <1>5, <2>1, <2>2, ServiceAssumption DEF PipeKept, ServiceTypeOK
<1>7. ServiceTypeOK'
  BY <1>1, <1>2, <1>6 DEF ServiceTypeOK
<1>8. PipeKept'
  <2>1. MaxClients \in Nat
    BY ServiceAssumption
  <2> QED BY <1>1, <1>2, <1>5, <1>6, <2>1 DEF PipeKept, Offering
<1>9. TargetsListed'
  BY <1>1, <1>2 DEF TargetsListed, Opened
<1>10. CallFollowed'
  BY <1>1, <1>2, <1>4 DEF CallFollowed, coreVars
<1> QED BY <1>2, <1>3, <1>7, <1>8, <1>9, <1>10 DEF ServiceKept

-----------------------------------------------------------------------------
(* The control thread, and the core's timeout *)

LEMMA ControlSteps ==
    ASSUME IInv, UNCHANGED coreVars, StopControl \/ AcceptEnded
    PROVE  OsMoves /\ UNCHANGED policy /\ ServiceKept'
<1> USE DEF policyState, serviceState, acceptState, osState
<1>1. Types /\ ServiceTypeOK /\ PipeKept /\ TargetsListed /\ CallFollowed
  BY DEF IInv, Types, TypeOK
<1>2. StopPending
  BY DEF StopControl, AcceptEnded
<1>3. OsMoves /\ UNCHANGED policy
  BY <1>1, <1>2, OsStill DEF StopPending
<1>4. /\ Current' = Current
      /\ pc = "calling" => Current \in Pids /\ (Going(Current) => Going(Current)')
  BY <1>2, <1>3, CurrentHeld DEF StopPending
<1> HIDE DEF Current
<1>5. ServiceTypeOK'
  BY <1>1, <1>2 DEF StopPending, ServiceTypeOK
<1>6. PipeKept' /\ TargetsListed'
  BY <1>1, <1>2 DEF StopPending, PipeKept, Offering, TargetsListed, Opened
<1>7. CallFollowed'
  BY <1>1, <1>2, <1>4 DEF StopPending, CallFollowed, coreVars
<1> QED BY <1>3, <1>5, <1>6, <1>7 DEF ServiceKept

LEMMA StoppedStep ==
    ASSUME IInv, UNCHANGED coreVars, Stopped
    PROVE  OsMoves /\ UNCHANGED policy /\ ServiceKept'
<1> USE DEF policyState, serviceState, acceptState, osState
<1>1. Types /\ ServiceTypeOK /\ PipeKept /\ TargetsListed /\ CallFollowed
  BY DEF IInv, Types, TypeOK
<1>2. OsMoves /\ UNCHANGED policyState
  BY <1>1, OsStill DEF Stopped
<1>3. /\ Current' = Current
      /\ pc = "calling" => Current \in Pids /\ (Going(Current) => Going(Current)')
  BY <1>2, CurrentHeld
<1> HIDE DEF Current
<1>4. DOMAIN work' = {} /\ active' = 0 /\ Cardinality({}) = 0
  BY NoWorkers, FS_EmptySet DEF Stopped
<1>5. instance = "none" /\ caller = NoCaller /\ caller.slot = NoCall /\ NoCall \notin Slots
  BY <1>1, SlotsFinite DEF Stopped, PipeKept, Offering, ServiceTypeOK, NoCaller
<1>6. /\ call' \in [slot : Slots \cup {NoCall}, state : {"none", "waiting", "ok", "error"}]
      /\ call'.state = "waiting" <=> call'.slot # NoCall
      /\ call = NoWait => call' = call
      /\ call.state # "none" => call'.state # "none"
      /\ call'.state = "waiting" => call' = call /\ call.slot \notin DOMAIN work
      /\ call'.state = "ok" => call.state = "ok"
  <2>1. CASE call.slot \in DOMAIN work
    <3> DEFINE next == Hung(call.slot)
    <3>1. /\ next \in [slot : Slots \cup {NoCall}, state : {"none", "waiting", "ok", "error"}]
          /\ next.state = "waiting" <=> next.slot # NoCall
          /\ call = NoWait => next = call
          /\ call.state # "none" => next.state # "none"
          /\ next.state = "waiting" => next = call /\ call.slot # call.slot
          /\ next.state = "ok" => call.state = "ok"
      BY <1>1, HungKeeps
    <3> HIDE DEF next
    <3>2. call' = next
      BY <2>1 DEF Stopped, next
    <3> QED BY <3>1, <3>2
  <2>2. CASE call.slot \notin DOMAIN work
    <3>1. call' = call
      BY <2>2 DEF Stopped
    <3> QED BY <1>1, <2>2, <3>1 DEF PipeKept, ServiceTypeOK
  <2> QED BY <2>1, <2>2
<1>7. ServiceTypeOK'
  BY <1>1, <1>4, <1>6, ServiceAssumption DEF Stopped, ServiceTypeOK
<1>8. PipeKept'
  BY <1>1, <1>4, <1>5, <1>6 DEF Stopped, PipeKept, Offering
<1>9. TargetsListed'
  BY <1>4 DEF TargetsListed
<1>10. CallFollowed'
  <2>1. pc = "calling" => call'.state # "waiting"
    BY <1>1, <1>5, <1>6 DEF CallFollowed, PipeKept
  <2> QED BY <1>1, <1>3, <1>6, <2>1 DEF CallFollowed, coreVars
<1> QED BY <1>2, <1>7, <1>8, <1>9, <1>10 DEF ServiceKept

LEMMA GiveUpStep ==
    ASSUME IInv, UNCHANGED coreVars, GiveUp
    PROVE  OsMoves /\ UNCHANGED policy /\ ServiceKept'
<1> USE DEF policyState, serviceState, acceptState, osState
<1>1. Types /\ ServiceTypeOK /\ PipeKept /\ TargetsListed /\ CallFollowed
  BY DEF IInv, Types, TypeOK
<1>2. OsMoves /\ UNCHANGED policyState
  BY <1>1, OsStill DEF GiveUp
<1>3. /\ Current' = Current
      /\ pc = "calling" => Current \in Pids /\ (Going(Current) => Going(Current)')
  BY <1>2, CurrentHeld
<1> HIDE DEF Current
<1>4. call' = [slot |-> NoCall, state |-> "error"] /\ NoCall \notin Slots
  BY <1>1, SlotsFinite DEF GiveUp, ServiceTypeOK
<1>5. instance' = instance \/ (instance' = "broken" /\ caller.slot = call.slot /\ accept = "created")
  BY DEF GiveUp
<1>6. ServiceTypeOK'
  BY <1>1, <1>4, <1>5 DEF GiveUp, ServiceTypeOK
<1>7. PipeKept'
  <2>1. call.slot # NoCall
    BY <1>1 DEF GiveUp, PipeKept
  <2>2. caller.slot = call.slot /\ accept = "created" => instance \in {"taken", "broken"}
    BY <1>1, <2>1 DEF PipeKept, NoCaller, ServiceTypeOK
  <2> QED BY <1>1, <1>4, <1>5, <2>2 DEF GiveUp, PipeKept, Offering
<1>8. TargetsListed'
  BY <1>1 DEF GiveUp, TargetsListed, Opened
<1>9. CallFollowed'
  <2>1. pc = "calling"
    BY <1>1 DEF GiveUp, CallFollowed, NoWait
  <2> QED BY <1>1, <1>3, <1>4, <2>1 DEF CallFollowed, coreVars
<1> QED BY <1>2, <1>6, <1>7, <1>8, <1>9 DEF ServiceKept

\* Every step that is not the core's.
LEMMA OutsideKeepsIInv ==
    ASSUME IInv, Outside
    PROVE  IInv'
<1>1. OsMoves /\ UNCHANGED policy /\ ServiceKept' /\ UNCHANGED coreVars
  BY EnvironmentSteps, AcceptSteps, AcceptEndSteps, AuthorizeStep, DisableStep, TerminateStep,
     AnswerStep, LeaveStep, ControlSteps, StoppedStep, GiveUpStep
     DEF Outside, ServiceNext, Worker
<1> QED BY <1>1, CoreKeeps DEF IInv, ServiceKept

-----------------------------------------------------------------------------
(* The core: the initial states, and a termination that has answered *)

LEMMA InitIInv == Init => IInv
<1> SUFFICES ASSUME Init PROVE IInv
  OBVIOUS
<1> USE DEF Init, ServiceInit
<1>1. DOMAIN work = {}
  BY DEF Slots
<1>2. Cardinality({}) = 0
  BY FS_EmptySet
<1>3. os \in [Pids -> Processes \cup {NoProcess}]
  BY DEF Processes
<1>4. ServiceTypeOK
  <2>1. /\ NoCaller \in [slot : Slots \cup {NoCall}, pid : Nat]
        /\ NoWait \in [slot : Slots \cup {NoCall}, state : {"none", "waiting", "ok", "error"}]
    BY DEF NoCaller, NoWait
  <2>2. 0 \in 0..MaxClients
    BY ServiceAssumption
  <2>3. \A c \in DOMAIN work :
           work[c] \in [pid : Pids, stage : Stages, target : Processes \cup {NoProcess}]
    BY <1>1
  <2> QED BY <1>1, <1>3, <2>1, <2>2, <2>3 DEF ServiceTypeOK
<1>5. Types
  <2>1. Nothing \in [Pids -> Processes \cup {NoProcess}]
    BY DEF Nothing
  <2>2. 0 \in 0..MaxPasses
    BY PassesAssumption
  <2>3. startBorn =< born /\ scanBorn =< born /\ startBorn \in Nat /\ scanBorn \in Nat
    OBVIOUS
  <2>4. /\ actions \subseteq Pids \X Statuses /\ todo \subseteq Pids
        /\ lingers \in 0..passes /\ \A p \in dying : os[p] # NoProcess
    OBVIOUS
  <2>5. /\ pc = "idle" /\ mode = "preflight" /\ exam = FALSE /\ outcome = "none"
        /\ seen = Nothing /\ passes = 0 /\ budget = 0
    OBVIOUS
  <2> HIDE DEF Init, ServiceInit
  <2> QED BY <1>4, <2>1, <2>2, <2>3, <2>4, <2>5 DEF Types, TypeOK
<1>6. PipeKept
  BY <1>1, <1>2 DEF PipeKept, Offering, NoCaller, NoWait
<1>7. TargetsListed /\ CallFollowed
  BY <1>1 DEF TargetsListed, CallFollowed
<1>8. Numbered
  <2> SUFFICES ASSUME NEW p \in Pids, os[p] # NoProcess PROVE os[p].id =< born
    BY DEF Numbered
  <2>1. os[p] \in {[image |-> i, id |-> 0] : i \in Images}
    OBVIOUS
  <2> QED BY <2>1
<1>9. ScanHolds /\ PassAccounted /\ TickAccounted /\ ClearMeansClear
  BY DEF ScanHolds, PassAccounted, TickAccounted, ClearMeansClear, Observing, Working
<1>10. Stepping
  BY DEF Stepping, Observing, Working
<1> QED BY <1>4, <1>5, <1>6, <1>7, <1>8, <1>9, <1>10 DEF IInv

\* The bookkeeping is right when a process that is called terminated is going.
LEMMA RecordKeeps ==
    ASSUME IInv, Working, todo # {}, OsMoves, UNCHANGED policy,
           NEW ok \in BOOLEAN, Recorded(ok),
           ok => (os'[Current] # NoProcess => os'[Current].id > scanBorn \/ Current \in dying')
    PROVE  /\ ServiceTypeOK' => Types'
           /\ Numbered' /\ ScanHolds' /\ Stepping' /\ PassAccounted' /\ TickAccounted'
           /\ ClearMeansClear'
<1>1. /\ Types /\ born \in Nat /\ born' \in {born, born + 1}
      /\ startBorn \in Nat /\ scanBorn \in Nat /\ startBorn =< born /\ scanBorn =< born
      /\ todo \subseteq Pids /\ mode \in {"preflight", "tick"} /\ actions \subseteq Pids \X Statuses
  BY DEF IInv, Types, TypeOK, ServiceTypeOK, OsMoves
<1>2. Current \in todo /\ Current \in Pids
  BY <1>1, CurrentIsTodo
<1> DEFINE status == IF ok THEN "terminated" ELSE FailedStatus
<1>3. /\ todo' = todo \ {Current} /\ actions' = actions \cup {<<Current, status>>}
      /\ pc' = "killing"
      /\ UNCHANGED <<mode, exam, seen, passes, budget, lingers, outcome, startBorn, scanBorn>>
  BY DEF Recorded
<1>4. /\ status \in Statuses
      /\ ~ok /\ mode = "preflight" => status = "failed"
      /\ ~ok /\ Current \in Blocking(seen) => status = "failed"
      /\ status = "terminated" => ok
  BY DEF FailedStatus, Statuses, Blocking, Blocks
<1> HIDE DEF Current, status
<1>5. \A p \in Pids : Going(p) => Going(p)'
  BY <1>1, <1>3, GoingStays
<1>6. \A p \in Pids : ok /\ p = Current => Going(p)'
  BY <1>3 DEF Going
<1>7. Targets(seen)' = Targets(seen) /\ Blocking(seen)' = Blocking(seen)
  BY <1>3 DEF Targets, Blocking, Decision
<1>8. ASSUME ServiceTypeOK' PROVE Types'
  <2>1. startBorn' =< born' /\ scanBorn' =< born'
    BY <1>1, <1>3
  <2>2. actions' \subseteq Pids \X Statuses /\ todo' \subseteq Pids
    BY <1>1, <1>2, <1>3, <1>4
  <2> QED BY <1>1, <1>3, <1>8, <2>1, <2>2 DEF Types, TypeOK, OsMoves
<1>9. Numbered'
  BY <1>1, NumberedStays DEF IInv
<1>10. ScanHolds'
  <2>1. SameSince
    BY DEF IInv, ScanHolds, SameSince, Observing
  <2>2. SameSince'
    BY <1>1, <1>3, <2>1, SameStays
  <2> QED BY <1>3, <1>7, <2>2 DEF IInv, ScanHolds, SameSince, Working
<1>11. Stepping'
  BY <1>3 DEF IInv, Stepping, Observing, Working
<1>12. PassAccounted'
  <2> SUFFICES ASSUME mode = "preflight" PROVE PassAccounted'
    BY <1>3 DEF PassAccounted
  <2>1. NoneFailed' => NoneFailed /\ ok
    <3>1. ~ok => <<Current, "failed">> \in actions'
      BY <1>3, <1>4
    <3>2. NoneFailed' => ok
      BY <3>1 DEF NoneFailed
    <3> QED BY <1>3, <3>2 DEF NoneFailed
  <2>2. ASSUME NoneFailed'
        PROVE  /\ \A p \in Targets(seen) \ todo' : Going(p)'
               /\ passes + startBorn =< scanBorn + lingers + 1
    <3>1. /\ \A p \in Targets(seen) \ todo : Going(p)
          /\ passes + startBorn =< scanBorn + lingers + 1
      BY <2>1, <2>2 DEF IInv, PassAccounted, Observing
    <3>2. Targets(seen) \subseteq Pids
      BY DEF Targets
    <3> QED BY <1>3, <1>5, <1>6, <2>1, <2>2, <3>1, <3>2
  <2>3. ASSUME NEW p \in Pids, <<p, "terminated">> \in actions', os'[p] # NoProcess
        PROVE  os'[p].id > startBorn \/ p \in dying'
    <3>1. CASE <<p, "terminated">> \in actions
      <4>1. os[p] # NoProcess => os[p].id > startBorn \/ p \in dying
        BY <3>1 DEF IInv, PassAccounted, Working
      <4> QED BY <1>1, <2>3, <4>1, OldStays
    <3>2. CASE p = Current /\ ok
      <4>1. (os'[p].id > scanBorn \/ p \in dying') /\ startBorn =< scanBorn
        BY <2>3, <3>2 DEF IInv, Stepping, Observing
      <4>2. p \in Pids /\ os'[p] \in Processes
        BY <2>3 DEF OsMoves
      <4>3. os'[p].id \in Nat
        BY <4>2 DEF Processes
      <4> QED BY <1>1, <4>1, <4>3
    <3> QED BY <1>3, <1>4, <2>3, <3>1, <3>2
  <2> QED BY <1>3, <1>7, <2>2, <2>3 DEF PassAccounted
<1>13. TickAccounted'
  <2> SUFFICES ASSUME mode = "tick", NEW p \in Blocking(seen) \ todo', ~Going(p)'
               PROVE  Unresolved'
    BY <1>3, <1>7 DEF TickAccounted
  <2>1. p \in Pids
    BY DEF Blocking
  <2>2. Unresolved => Unresolved'
    BY <1>3 DEF Unresolved, Decision
  <2>3. CASE p \notin todo
    BY <1>5, <2>1, <2>2, <2>3 DEF IInv, TickAccounted
  <2>4. CASE p = Current
    <3>1. status = "failed"
      BY <1>4, <1>6, <2>1, <2>4
    <3>2. <<p, "failed">> \in actions'
      BY <1>3, <2>4, <3>1
    <3> QED BY <3>2 DEF Unresolved
  <2> QED BY <1>3, <2>3, <2>4
<1>14. ClearMeansClear'
  BY <1>3 DEF ClearMeansClear
<1> QED BY <1>8, <1>9, <1>10, <1>11, <1>12, <1>13, <1>14

\* The core no longer waits: the call it made is forgotten.
LEMMA ForgetKeeps ==
    ASSUME IInv, OsMoves, UNCHANGED <<policyState, receipt, disabled, owed, serviceState, disturbed>>,
           call' = NoWait, pc' # "calling"
    PROVE  ServiceKept'
<1> USE DEF policyState, serviceState, acceptState
<1>1. ServiceTypeOK /\ PipeKept /\ TargetsListed /\ born \in Nat
  BY DEF IInv, Types, TypeOK, ServiceTypeOK
<1>2. call' = [slot |-> NoCall, state |-> "none"]
  BY DEF NoWait
<1>3. born' \in Nat
  BY <1>1 DEF OsMoves
<1>4. ServiceTypeOK'
  BY <1>1, <1>2, <1>3 DEF ServiceTypeOK, OsMoves
<1>5. PipeKept' /\ TargetsListed' /\ CallFollowed'
  BY <1>1, <1>2 DEF PipeKept, Offering, TargetsListed, Opened, CallFollowed
<1> QED BY <1>4, <1>5 DEF ServiceKept

\* terminate_process_user_mode: it may mark a process that ends later, or fail.
LEMMA UserModeMarks ==
    ASSUME IInv, Working, todo # {}, UserMode
    PROVE  \E ok \in BOOLEAN :
              /\ Recorded(ok) /\ OsMoves /\ call' = NoWait
              /\ ok => Current \in dying'
              /\ ok \/ os[Current] = NoProcess \/ os[Current].image \in Backed
                    \/ Current \in dying
              /\ UNCHANGED <<policyState, receipt, os, born, disabled, owed, serviceState,
                            disturbed>>
<1>1. Types /\ todo \subseteq Pids /\ mode \in {"preflight", "tick"}
  BY DEF IInv, Types, TypeOK
<1>2. Current \in Pids
  BY <1>1, CurrentIsTodo
<1>3. UNCHANGED <<policyState, receipt, os, born, disabled, owed, serviceState, disturbed>>
      /\ call' = NoWait
  BY DEF UserMode
<1>4. CASE os[Current] # NoProcess /\ dying' = dying \cup {Current} /\ Recorded(TRUE)
  <2>1. OsMoves
    <3> HIDE DEF Current
    <3> QED BY <1>1, <1>2, <1>3, <1>4, OsMarks
  <2> QED BY <1>3, <1>4, <2>1
<1>5. CASE /\ os[Current] = NoProcess \/ os[Current].image \in Backed \/ Current \in dying
           /\ Recorded(FALSE) /\ dying' = dying
  <2>1. OsMoves
    BY <1>1, <1>3, <1>5, OsStill
  <2> QED BY <1>3, <1>5, <2>1
<1> QED BY <1>4, <1>5 DEF UserMode

LEMMA UserModeKeeps ==
    ASSUME IInv, Working, todo # {}, UserMode
    PROVE  IInv'
<1>1. PICK ok \in BOOLEAN :
         /\ Recorded(ok) /\ OsMoves /\ call' = NoWait
         /\ ok => Current \in dying'
         /\ UNCHANGED <<policyState, receipt, os, born, disabled, owed, serviceState, disturbed>>
  BY UserModeMarks
<1>2. pc' = "killing" /\ UNCHANGED policy
  BY <1>1 DEF Recorded, policyState
<1> HIDE DEF Current
<1>3. /\ ServiceTypeOK' => Types'
      /\ Numbered' /\ ScanHolds' /\ Stepping' /\ PassAccounted' /\ TickAccounted'
      /\ ClearMeansClear'
  BY <1>1, <1>2, RecordKeeps
<1>4. ServiceKept'
  BY <1>1, <1>2, ForgetKeeps
<1> QED BY <1>3, <1>4 DEF IInv, ServiceKept

LEMMA ServiceTerminatedKeeps ==
    ASSUME IInv, ServiceTerminated
    PROVE  IInv'
<1>1. /\ pc = "calling" /\ call.state = "ok" /\ call' = NoWait /\ Recorded(TRUE)
      /\ UNCHANGED <<policyState, receipt, osState, serviceState, disturbed>>
  BY DEF ServiceTerminated
<1>2. Types /\ todo # {} /\ Going(Current) /\ Working
  BY <1>1 DEF IInv, CallFollowed, Working
<1>3. OsMoves /\ os' = os /\ dying' = dying
  BY <1>1, <1>2, OsStill DEF osState
<1>4. pc' = "killing" /\ UNCHANGED policy
  BY <1>1 DEF Recorded, policyState
<1> HIDE DEF Current
<1>5. os'[Current] # NoProcess => os'[Current].id > scanBorn \/ Current \in dying'
  BY <1>2, <1>3 DEF Going
<1>6. /\ ServiceTypeOK' => Types'
      /\ Numbered' /\ ScanHolds' /\ Stepping' /\ PassAccounted' /\ TickAccounted'
      /\ ClearMeansClear'
  BY <1>1, <1>2, <1>3, <1>4, <1>5, RecordKeeps
<1>7. ServiceKept'
  BY <1>1, <1>3, <1>4, ForgetKeeps DEF osState
<1> QED BY <1>6, <1>7 DEF IInv, ServiceKept

\* There is always a slot for a new client: one more than there may be workers.
LEMMA SlotIsFree ==
    ASSUME ServiceTypeOK, PipeKept, instance = "free", call.state = "none"
    PROVE  FreeSlots # {} /\ FreeSlots \subseteq Slots \ DOMAIN work
<1>1. /\ IsFiniteSet(Slots) /\ Cardinality(Slots) = MaxClients + 1 /\ MaxClients \in Nat
      /\ NoCall \notin Slots
  BY SlotsFinite
<1>2. caller.slot = NoCall /\ call.slot = NoCall /\ Offering /\ accept # "spawning"
  BY DEF PipeKept, NoCaller, Offering
<1>3. Cardinality(DOMAIN work) < MaxClients /\ DOMAIN work \subseteq Slots
  BY <1>2, WorkersFinite DEF PipeKept, ServiceTypeOK
<1>4. Slots # DOMAIN work
  BY <1>1, <1>3, WorkersFinite
<1>5. FreeSlots = Slots \ DOMAIN work
  BY <1>1, <1>2 DEF FreeSlots
<1> QED BY <1>3, <1>4, <1>5

LEMMA RequestKeeps ==
    ASSUME IInv, RequestElevated
    PROVE  IInv'
<1> USE DEF policyState, osState
<1>1. /\ pc = "killing" /\ todo # {} /\ pc' = "calling" /\ Connect(Current)
      /\ UNCHANGED <<mode, exam, seen, todo, passes, budget, lingers, actions, outcome, startBorn,
                     scanBorn>>
  BY DEF RequestElevated
<1>2. /\ UNCHANGED <<policyState, receipt, osState, svc, accept, active, work>>
      /\ call.state = "none"
  BY <1>1 DEF Connect
<1>3. Types /\ ServiceTypeOK /\ PipeKept /\ TargetsListed /\ CallFollowed
  BY DEF IInv, Types, TypeOK
<1>4. Current \in Pids /\ Current \in Nat
  BY <1>1, <1>3, CurrentIsTodo, ServiceAssumption DEF Types, TypeOK
<1>5. Current' = Current
  BY <1>1, <1>2, CurrentStays
<1> HIDE DEF Current
<1>6. NoCall \notin Slots
  BY SlotsFinite
<1>7. ASSUME instance = "free"
      PROVE  ServiceTypeOK' /\ PipeKept' /\ CallFollowed'
  <2> DEFINE c == CHOOSE s \in FreeSlots : TRUE
  <2>1. c \in Slots \ DOMAIN work
    BY <1>2, <1>3, <1>7, SlotIsFree
  <2>2. /\ call' = [slot |-> c, state |-> "waiting"]
        /\ instance' = "taken" /\ caller' = [slot |-> c, pid |-> Current]
        /\ UNCHANGED disturbed
    BY <1>1, <1>7 DEF Connect
  <2> HIDE DEF c
  <2>3. ServiceTypeOK'
    BY <1>2, <1>3, <1>4, <2>1, <2>2 DEF ServiceTypeOK
  <2>4. PipeKept'
    BY <1>2, <1>3, <1>4, <1>6, <1>7, <2>1, <2>2 DEF PipeKept, Offering
  <2>5. CallFollowed'
    BY <1>1, <1>5, <2>2 DEF CallFollowed
  <2> QED BY <2>3, <2>4, <2>5
<1>8. ASSUME instance # "free"
      PROVE  ServiceTypeOK' /\ PipeKept' /\ CallFollowed'
  <2>1. /\ call' = [slot |-> NoCall, state |-> "error"] /\ disturbed' = TRUE
        /\ UNCHANGED <<instance, caller>>
    BY <1>1, <1>8 DEF Connect
  <2>2. ServiceTypeOK'
    BY <1>2, <1>3, <2>1 DEF ServiceTypeOK
  <2>3. PipeKept'
    BY <1>2, <1>3, <2>1 DEF PipeKept, Offering
  <2>4. CallFollowed'
    BY <1>1, <1>5, <2>1 DEF CallFollowed
  <2> QED BY <2>2, <2>3, <2>4
<1>9. Types' /\ ServiceTypeOK' /\ PipeKept' /\ CallFollowed'
  BY <1>1, <1>2, <1>3, <1>7, <1>8 DEF Types, TypeOK
<1>10. TargetsListed' /\ Numbered' /\ ClearMeansClear'
  BY <1>1, <1>2, <1>3 DEF IInv, TargetsListed, Opened, Numbered, ClearMeansClear
<1>11. /\ Targets(seen)' = Targets(seen) /\ Blocking(seen)' = Blocking(seen)
       /\ (Unresolved' <=> Unresolved) /\ \A p \in Pids : Going(p)' <=> Going(p)
  BY <1>1, <1>2 DEF Targets, Blocking, Decision, Unresolved, Going
<1>12. ScanHolds' /\ Stepping'
  BY <1>1, <1>2, <1>11 DEF IInv, ScanHolds, Stepping, Observing, Working
<1>13. PassAccounted'
  <2>1. Targets(seen) \subseteq Pids
    BY DEF Targets
  <2> QED BY <1>1, <1>2, <1>11, <2>1 DEF IInv, PassAccounted, Observing, Working, NoneFailed
<1>14. TickAccounted'
  <2>1. Blocking(seen) \subseteq Pids
    BY DEF Blocking
  <2> QED BY <1>1, <1>11, <2>1 DEF IInv, TickAccounted, Working
<1> QED BY <1>9, <1>10, <1>12, <1>13, <1>14 DEF IInv

-----------------------------------------------------------------------------
(* The preflight *)

LEMMA ServiceIdle ==
    ASSUME IInv, pc # "calling", pc' # "calling",
           UNCHANGED <<policyState, receipt, osState, serviceState, call>>,
           disturbed' \in BOOLEAN
    PROVE  ServiceKept' /\ OsMoves
<1> USE DEF policyState, osState, serviceState, acceptState
<1>1. Types /\ ServiceTypeOK /\ PipeKept /\ TargetsListed /\ CallFollowed
  BY DEF IInv, Types, TypeOK
<1>2. ServiceTypeOK'
  BY <1>1 DEF ServiceTypeOK
<1>3. PipeKept' /\ TargetsListed' /\ CallFollowed'
  BY <1>1 DEF PipeKept, Offering, TargetsListed, Opened, CallFollowed
<1> QED BY <1>1, <1>2, <1>3, OsStill DEF ServiceKept

LEMMA StartPreflightKeeps ==
    ASSUME IInv, StartPreflight
    PROVE  IInv'
<1> DEFINE count == Cardinality(Targets(os)) + 1
<1>1. /\ pc = "idle" /\ ~exam /\ pc' = "scanning" /\ mode' = "preflight"
      /\ budget' = Least(Most(count, MinPasses), MaxPasses)
      /\ outcome' = "none" /\ scanBorn' = 0 /\ startBorn' = born
      /\ UNCHANGED <<policyState, receipt, osState, serviceState, call, exam, seen, todo,
                     passes, lingers, actions>>
      /\ disturbed' \in BOOLEAN
  BY DEF StartPreflight
<1>2. Types /\ ServiceTypeOK /\ Numbered /\ Stepping /\ passes = 0 /\ actions = {} /\ born \in Nat
  BY <1>1 DEF IInv, Types, TypeOK, ServiceTypeOK, Stepping
<1>3. count \in Nat
  <2>1. Targets(os) \in SUBSET Pids /\ IsFiniteSet(Pids)
    BY ServiceAssumption DEF Targets
  <2> QED BY <2>1, FS_Subset, FS_CardinalityType
<1> HIDE DEF count
<1>4. budget' \in 0..MaxPasses
  BY <1>1, <1>3, PassesAssumption DEF Least, Most
<1>5. ServiceKept'
  BY <1>1, ServiceIdle
<1>6. Types'
  <2>1. startBorn' =< born' /\ scanBorn' =< born' /\ startBorn' \in Nat /\ scanBorn' \in Nat
    BY <1>1, <1>2 DEF osState
  <2> QED BY <1>1, <1>2, <1>4, <1>5, <2>1 DEF Types, TypeOK, ServiceKept, osState
<1>7. Numbered'
  BY <1>1, <1>2 DEF Numbered, osState
<1>8. ScanHolds' /\ TickAccounted' /\ ClearMeansClear'
  BY <1>1, <1>2 DEF ScanHolds, TickAccounted, ClearMeansClear, Observing, Working
<1>9. Stepping'
  BY <1>1, <1>2, <1>4 DEF Stepping, Observing, Working
<1>10. PassAccounted'
  BY <1>1, <1>2 DEF PassAccounted, Observing, Working
<1> QED BY <1>5, <1>6, <1>7, <1>8, <1>9, <1>10 DEF IInv, ServiceKept

\* What a scan finds besides what the last pass has left.
LEMMA FoundSince ==
    ASSUME IInv, pc = "scanning", NoneFailed, passes > 0, todo = {},
           NEW p \in Targets(os)
    PROVE  (os[p].id > scanBorn /\ born > scanBorn) \/ p \in dying
<1>1. /\ p \in Pids /\ os[p] # NoProcess /\ Terminates(Decision(os, p))
      /\ os[p].id =< born /\ os[p].id \in Nat /\ scanBorn \in Nat /\ born \in Nat
  <2>1. p \in Pids /\ os[p] # NoProcess /\ Terminates(Decision(os, p))
    BY DEF Targets, Decision, Terminates
  <2>2. os[p] \in Processes
    BY <2>1 DEF IInv, Types, TypeOK, ServiceTypeOK
  <2> QED BY <2>1, <2>2 DEF IInv, Numbered, Processes, Types, TypeOK, ServiceTypeOK
<1>2. os[p].id > scanBorn \/ p \in dying
  <2> SUFFICES ASSUME os[p].id =< scanBorn PROVE p \in dying
    BY <1>1
  <2>1. os[p] = seen[p]
    BY <1>1 DEF IInv, ScanHolds, Observing
  <2>2. p \in Targets(seen) \ todo
    BY <1>1, <2>1 DEF Targets, Decision
  <2>3. Going(p)
    BY <2>2 DEF IInv, PassAccounted, Stepping, Observing
  <2> QED BY <1>1, <2>3 DEF Going
<1> QED BY <1>1, <1>2

LEMMA ScanKeeps ==
    ASSUME IInv, Scan
    PROVE  IInv'
<1>1. /\ pc = "scanning" /\ scanBorn' = born
      /\ UNCHANGED <<policyState, receipt, osState, serviceState, call, mode, outcome>>
      /\ disturbed' = (disturbed \/ dying # {})
      /\ IF Targets(os) = {} \/ passes = budget THEN Finish(os) ELSE Pass(os)
  BY DEF Scan, Scanned
<1>2. /\ Types /\ ServiceTypeOK /\ Numbered /\ Stepping /\ born \in Nat /\ startBorn \in Nat
      /\ startBorn =< born /\ mode = "preflight" /\ outcome = "none"
      /\ os \in [Pids -> Processes \cup {NoProcess}]
      /\ passes \in Nat /\ budget \in 0..MaxPasses /\ passes =< budget
      /\ lingers \in Nat /\ lingers =< passes
  BY <1>1, PassesAssumption DEF IInv, Types, TypeOK, ServiceTypeOK, Stepping
<1>3. pc' # "calling"
  BY <1>1 DEF Finish, Pass
<1>4. disturbed' \in BOOLEAN
  BY <1>1, <1>2 DEF ServiceTypeOK
<1>5. ServiceKept'
  BY <1>1, <1>3, <1>4, ServiceIdle
<1>6. Numbered'
  BY <1>1, <1>2 DEF Numbered, osState
<1>7. ASSUME Finish(os) PROVE IInv'
  <2>1. /\ exam' = (Blocking(os) = {}) /\ pc' = "idle" /\ seen' = Nothing /\ actions' = {}
        /\ passes' = 0 /\ budget' = 0 /\ lingers' = 0 /\ startBorn' = 0 /\ todo' = todo
    BY <1>7 DEF Finish
  <2>2. Types'
    <3>1. startBorn' =< born' /\ scanBorn' =< born' /\ startBorn' \in Nat /\ scanBorn' \in Nat
      BY <1>1, <1>2, <2>1 DEF osState
    <3>2. seen' \in [Pids -> Processes \cup {NoProcess}] /\ 0 \in 0..MaxPasses
      BY <2>1, PassesAssumption DEF Nothing
    <3>3. exam' \in BOOLEAN
      BY <2>1
    <3> QED BY <1>1, <1>2, <1>5, <2>1, <3>1, <3>2, <3>3 DEF Types, TypeOK, ServiceKept, osState
  <2>3. ScanHolds' /\ TickAccounted' /\ PassAccounted'
    BY <1>1, <1>2, <2>1 DEF ScanHolds, TickAccounted, PassAccounted, Observing, Working
  <2>4. Stepping'
    BY <1>1, <1>2, <2>1 DEF Stepping, Observing, Working
  <2>5. ClearMeansClear'
    <3>1. Blocking(os)' = Blocking(os)
      BY <1>1 DEF Blocking, Decision, osState, policyState
    <3> QED BY <2>1, <3>1 DEF ClearMeansClear
  <2> QED BY <1>5, <1>6, <2>2, <2>3, <2>4, <2>5 DEF IInv, ServiceKept
<1>8. ASSUME Pass(os), Targets(os) # {}, passes # budget PROVE IInv'
  <2>1. /\ passes' = passes + 1 /\ seen' = os /\ todo' = Targets(os) /\ pc' = "killing"
        /\ lingers' = lingers + Lingering(os) /\ Lingering(os) \in {0, 1}
        /\ passes > 0 /\ Targets(os) \cap dying # {} => Lingering(os) = 1
        /\ UNCHANGED <<budget, exam, actions, startBorn>>
    BY <1>8 DEF Pass, Lingering
  <2>2. Targets(os) \subseteq Pids
    BY DEF Targets
  <2>3. Types'
    <3>1. startBorn' =< born' /\ scanBorn' =< born' /\ startBorn' \in Nat /\ scanBorn' \in Nat
      BY <1>1, <1>2, <2>1 DEF osState
    <3>2. passes' \in 0..MaxPasses /\ lingers' \in 0..passes'
      BY <1>2, <1>8, <2>1, PassesAssumption
    <3> QED BY <1>1, <1>2, <1>5, <2>1, <2>2, <3>1, <3>2 DEF Types, TypeOK, ServiceKept, osState
  <2>4. /\ Targets(seen)' = Targets(os)
        /\ \A p \in Pids : os'[p] = seen'[p]
    BY <1>1, <2>1 DEF Targets, Decision, osState, policyState
  <2>5. ScanHolds'
    BY <2>1, <2>4 DEF ScanHolds, Working
  <2>6. TickAccounted' /\ ClearMeansClear'
    BY <1>1, <1>2, <2>1 DEF TickAccounted, ClearMeansClear
  <2>7. Stepping'
    <3>1. passes' =< budget'
      BY <1>2, <1>8, <2>1
    <3> QED BY <1>1, <1>2, <2>1, <3>1 DEF Stepping, Observing, Working
  <2>8. PassAccounted'
    <3>1. ASSUME NoneFailed PROVE passes' + startBorn' =< scanBorn' + lingers' + 1
      <4>1. CASE passes = 0
        BY <1>1, <1>2, <2>1, <4>1
      <4>2. CASE passes > 0
        <5>1. passes + startBorn =< scanBorn + lingers + 1 /\ scanBorn \in Nat
              /\ scanBorn =< born
          BY <1>1, <1>2, <3>1, <4>2 DEF IInv, PassAccounted, Observing, Types, TypeOK
        <5>2. PICK p \in Targets(os) : TRUE
          BY <1>8
        <5>3. born > scanBorn \/ Lingering(os) = 1
          BY <1>1, <1>2, <2>1, <3>1, <4>2, <5>2, FoundSince DEF Stepping
        <5> QED BY <1>1, <1>2, <2>1, <5>1, <5>3
      <4> QED BY <1>2, <4>1, <4>2
    <3>2. \A p \in Pids : <<p, "terminated">> \in actions' /\ os'[p] # NoProcess
                             => os'[p].id > startBorn' \/ p \in dying'
      BY <1>1, <1>2, <2>1 DEF IInv, PassAccounted, osState
    <3> QED BY <2>1, <2>4, <3>1, <3>2 DEF PassAccounted, NoneFailed
  <2> QED BY <1>5, <1>6, <2>3, <2>5, <2>6, <2>7, <2>8 DEF IInv, ServiceKept
<1> QED BY <1>1, <1>7, <1>8

LEMMA PassDoneKeeps ==
    ASSUME IInv, PassDone
    PROVE  IInv'
<1>1. /\ pc = "killing" /\ todo = {} /\ mode = "preflight" /\ pc' = "scanning"
      /\ UNCHANGED <<serviceVars, mode, exam, seen, todo, passes, budget, lingers, actions,
                     outcome, startBorn, scanBorn>>
  BY DEF PassDone
<1>2. UNCHANGED <<policyState, receipt, osState, serviceState, call, disturbed>>
  BY <1>1 DEF serviceVars
<1>3. Types /\ ServiceTypeOK /\ Stepping /\ disturbed' \in BOOLEAN
  BY <1>2 DEF IInv, Types, TypeOK, ServiceTypeOK
<1>4. ServiceKept'
  BY <1>1, <1>2, <1>3, ServiceIdle
<1>5. Types'
  BY <1>1, <1>2, <1>3, <1>4 DEF Types, TypeOK, ServiceKept, osState
<1>6. /\ Targets(seen)' = Targets(seen) /\ \A p \in Pids : Going(p)' <=> Going(p)
      /\ UNCHANGED <<os, dying>>
  BY <1>1, <1>2 DEF Targets, Decision, Going, osState, policyState
<1>7. Numbered' /\ TickAccounted' /\ ClearMeansClear' /\ Stepping'
  BY <1>1, <1>2, <1>3 DEF IInv, Numbered, TickAccounted, ClearMeansClear, Stepping, Observing,
     Working, osState
<1>8. ScanHolds'
  BY <1>1, <1>6 DEF IInv, ScanHolds, Observing, Working
<1>9. PassAccounted'
  <2>1. Targets(seen) \subseteq Pids
    BY DEF Targets
  <2> QED BY <1>1, <1>6, <2>1 DEF IInv, PassAccounted, Observing, Working, NoneFailed
<1> QED BY <1>4, <1>5, <1>7, <1>8, <1>9 DEF IInv, ServiceKept

-----------------------------------------------------------------------------
(* The tick *)

LEMMA StartTickKeeps ==
    ASSUME IInv, StartTick
    PROVE  IInv'
<1>1. /\ pc = "idle" /\ exam /\ pc' = "killing" /\ mode' = "tick"
      /\ seen' = os /\ scanBorn' = born /\ outcome' = "none"
      /\ todo' = IF policy.instantKill THEN Targets(os) ELSE {}
      /\ actions' = {<<p, Standing(Decision(os, p))>> :
                       p \in {q \in Pids : Decision(os, q) # "none"} \ todo'}
      /\ UNCHANGED <<serviceVars, exam, passes, budget, lingers, startBorn>>
  BY DEF StartTick
<1>2. UNCHANGED <<policyState, receipt, osState, serviceState, call, disturbed>>
  BY <1>1 DEF serviceVars
<1>3. /\ Types /\ ServiceTypeOK /\ Stepping /\ disturbed' \in BOOLEAN /\ Numbered
      /\ os \in [Pids -> Processes \cup {NoProcess}] /\ born \in Nat
      /\ startBorn \in Nat /\ startBorn =< born
  BY <1>2 DEF IInv, Types, TypeOK, ServiceTypeOK
<1>4. ServiceKept'
  BY <1>1, <1>2, <1>3, ServiceIdle
<1>5. todo' \subseteq Targets(os) /\ Targets(os) \subseteq Pids
  BY <1>1 DEF Targets
<1>6. actions' \subseteq Pids \X Statuses
  <2>1. \A decision : Standing(decision) \in Statuses
    BY DEF Standing, Statuses
  <2> QED BY <1>1, <2>1
<1>7. Types'
  <2>1. startBorn' =< born' /\ scanBorn' =< born' /\ startBorn' \in Nat /\ scanBorn' \in Nat
    BY <1>1, <1>2, <1>3 DEF osState
  <2> QED BY <1>1, <1>2, <1>3, <1>4, <1>5, <1>6, <2>1 DEF Types, TypeOK, ServiceKept, osState
<1>8. /\ Targets(seen)' = Targets(os) /\ Blocking(seen)' = Blocking(os)
      /\ \A p \in Pids : os'[p] = seen'[p]
  BY <1>1, <1>2 DEF Targets, Blocking, Decision, osState, policyState
<1>9. Numbered' /\ ClearMeansClear' /\ PassAccounted'
  BY <1>1, <1>2, <1>3 DEF Numbered, ClearMeansClear, PassAccounted, osState
<1>10. ScanHolds' /\ Stepping'
  BY <1>1, <1>3, <1>5, <1>8 DEF ScanHolds, Stepping, Observing, Working
<1>11. TickAccounted'
  <2> SUFFICES ASSUME NEW p \in Blocking(os) \ todo' PROVE Unresolved'
    BY <1>8 DEF TickAccounted
  <2>1. p \in Pids /\ Decision(os, p) \in {"hardBlock", "attemptTerminateThenBlock"}
    BY DEF Blocking, Blocks
  <2>2. <<p, Standing(Decision(os, p))>> \in actions'
    BY <1>1, <2>1
  <2>3. Decision(seen, p)' = Decision(os, p)
    BY <1>1, <1>2 DEF Decision, policyState
  <2>4. CASE Decision(os, p) = "hardBlock"
    <3>1. Standing(Decision(os, p)) = "blocked"
      BY <2>4 DEF Standing, Terminates
    <3> QED BY <2>2, <3>1 DEF Unresolved
  <2>5. CASE Decision(os, p) = "attemptTerminateThenBlock"
    <3>1. Standing(Decision(os, p)) = "detected"
      BY <2>5 DEF Standing, Terminates
    <3> QED BY <2>2, <2>3, <2>5, <3>1 DEF Unresolved
  <2> QED BY <2>1, <2>4, <2>5
<1> QED BY <1>4, <1>7, <1>9, <1>10, <1>11 DEF IInv, ServiceKept

LEMMA TickDoneKeeps ==
    ASSUME IInv, TickDone
    PROVE  IInv'
<1>1. /\ pc = "killing" /\ todo = {} /\ mode = "tick" /\ pc' = "idle"
      /\ outcome' = "resolved" => ~Unresolved
      /\ outcome' \in {"resolved", "continued", "recoveryRequired"}
      /\ UNCHANGED <<serviceVars, mode, exam, seen, todo, passes, budget, lingers, actions,
                     startBorn, scanBorn>>
  BY DEF TickDone
<1>2. UNCHANGED <<policyState, receipt, osState, serviceState, call, disturbed>>
  BY <1>1 DEF serviceVars
<1>3. Types /\ ServiceTypeOK /\ Stepping /\ disturbed' \in BOOLEAN /\ scanBorn \in Nat
  BY <1>2 DEF IInv, Types, TypeOK, ServiceTypeOK
<1>4. ServiceKept'
  BY <1>1, <1>2, <1>3, ServiceIdle
<1>5. Types'
  BY <1>1, <1>2, <1>3, <1>4 DEF Types, TypeOK, ServiceKept, osState
<1>6. Numbered' /\ TickAccounted' /\ Stepping' /\ ScanHolds' /\ PassAccounted'
  BY <1>1, <1>2, <1>3 DEF IInv, Numbered, TickAccounted, Stepping, ScanHolds, PassAccounted,
     Observing, Working, osState
<1>7. ClearMeansClear'
  <2> SUFFICES ASSUME ~Unresolved, NEW p \in Blocking(os)
               PROVE  os[p].id > scanBorn \/ p \in dying
    <3>1. Blocking(os)' = Blocking(os) /\ os' = os /\ dying' = dying
      BY <1>2 DEF Blocking, Decision, osState, policyState
    <3> QED BY <1>1, <3>1 DEF ClearMeansClear
  <2>1. p \in Pids /\ os[p] # NoProcess
    BY DEF Blocking, Decision, Blocks
  <2>2. os[p].id \in Nat
    <3>1. os[p] \in Processes
      BY <1>3, <2>1 DEF ServiceTypeOK
    <3> QED BY <3>1 DEF Processes
  <2>3. CASE os[p].id =< scanBorn
    <3>1. os[p] = seen[p]
      BY <1>1, <2>1, <2>3 DEF IInv, ScanHolds, Observing, Working
    <3>2. p \in Blocking(seen) \ todo
      BY <1>1, <2>1, <3>1 DEF Blocking, Decision
    <3>3. Going(p)
      BY <1>1, <3>2 DEF IInv, TickAccounted, Working
    <3> QED BY <2>1, <3>3 DEF Going
  <2> QED BY <1>3, <2>2, <2>3
<1> QED BY <1>4, <1>5, <1>6, <1>7 DEF IInv, ServiceKept

-----------------------------------------------------------------------------
(* The invariant, and what follows from it *)

LEMMA NextKeepsIInv == IInv /\ [Next]_vars => IInv'
<1> SUFFICES ASSUME IInv, [Next]_vars PROVE IInv'
  OBVIOUS
<1>1. CASE CoreNext
  <2>1. (Unelevated \/ FallBack) => Working /\ todo # {} /\ UserMode
    BY DEF Unelevated, FallBack, Working, IInv, CallFollowed
  <2> QED BY <1>1, <2>1, StartPreflightKeeps, ScanKeeps, PassDoneKeeps, StartTickKeeps,
        TickDoneKeeps, UserModeKeeps, RequestKeeps, ServiceTerminatedKeeps DEF CoreNext
<1>2. CASE Outside
  BY <1>2, OutsideKeepsIInv
<1>3. CASE UNCHANGED vars
  <2>1. UNCHANGED <<coreVars, policyState, receipt, osState, serviceState, call, disturbed>>
    BY <1>3 DEF vars, serviceVars
  <2>2. UNCHANGED <<pc, policy>> /\ Types /\ ServiceTypeOK
    BY <2>1 DEF coreVars, policyState, IInv, Types, TypeOK
  <2>3. OsMoves
    BY <2>1, <2>2, OsStill DEF osState
  <2>4. PipeKept' /\ TargetsListed' /\ CallFollowed'
    BY <2>1, <2>3, ServiceStill
  <2>5. ServiceTypeOK'
    BY <2>1, <2>2 DEF ServiceTypeOK, policyState, osState, serviceState, acceptState
  <2> QED BY <2>1, <2>2, <2>3, <2>4, <2>5, CoreKeeps DEF IInv
<1> QED BY <1>1, <1>2, <1>3 DEF Next

\* The state of the core, of its call and of the service, whatever processes do.
THEOREM RemediationInvariant == Spec => []IInv
BY InitIInv, NextKeepsIInv, PTL DEF Spec

\* Every reachable state of the core and the service is well typed.
THEOREM RemediationTypes == Spec => []TypeOK
<1>1. IInv => TypeOK
  BY DEF IInv, Types
<1> QED BY <1>1, RemediationInvariant, PTL

\* ActiveClientGuard: active_clients is the number of live workers, and no more
\* than MAX_ACTIVE_CLIENTS, however they end.
THEOREM ActiveIsExact == Spec => []ActiveMatches
<1>1. IInv => ActiveMatches
  BY ServiceAssumption DEF IInv, Types, TypeOK, ServiceTypeOK, PipeKept, ActiveMatches
<1> QED BY <1>1, RemediationInvariant, PTL

\* build_preflight_report and evaluate_runtime_policy: a clear preflight and a
\* resolved tick leave nothing that blocks the exam but what started since.
THEOREM ClearIsClear == Spec => []ClearMeansClear
<1>1. IInv => ClearMeansClear
  BY DEF IInv
<1> QED BY <1>1, RemediationInvariant, PTL

-----------------------------------------------------------------------------
(* What no step does *)

\* The core's own steps leave the workers and the Windows services alone.
LEMMA CoreLeavesWorkers ==
    ASSUME CoreNext
    PROVE  UNCHANGED <<work, disabled, svc, accept>>
BY DEF CoreNext, StartPreflight, Scan, Scanned, PassDone, StartTick, TickDone, Unelevated,
       RequestElevated, Connect, ServiceTerminated, FallBack, UserMode, serviceVars, serviceState,
       acceptState, osState

\* authorize_termination: whatever pid the core has asked for and whatever has come
\* to have it, the service only ends and only disables what the policy lists.
THEOREM ServiceEndsListed == Spec => ServiceActsOnListed
<1> DEFINE Listed == /\ \A image \in disabled' \ disabled : ServiceLists(image, policy)
                     /\ \A c \in DOMAIN work \cap DOMAIN work' :
                          work'[c].stage = "terminated" /\ work[c].stage # "terminated"
                             => ServiceLists(os[work[c].pid].image, policy)
<1>1. ASSUME IInv, [Next]_vars PROVE Listed
  <2>1. ASSUME UNCHANGED <<work, disabled>> PROVE Listed
    BY <2>1
  <2>2. CASE UNCHANGED vars
    BY <2>1, <2>2 DEF vars, serviceVars, serviceState, osState
  <2>3. CASE CoreNext
    BY <2>1, <2>3, CoreLeavesWorkers
  <2>4. CASE EnvironmentNext
    BY <2>1, <2>4 DEF EnvironmentNext, Launch, Restart, Start, Exit, Ended, ReceiptExpires,
       serviceState, osState
  <2>5. CASE CreateInstance \/ Listen \/ AcceptFails \/ AcceptCount \/ SpawnFails \/ SeeStop
             \/ CancelFails \/ Join \/ GiveUp \/ StopControl \/ AcceptEnded
    BY <2>1, <2>5 DEF CreateInstance, Listen, AcceptFails, AcceptCount, SpawnFails, SeeStop,
       CancelFails, Join, GiveUp, StopControl, AcceptEnded, StopPending, osState
  <2>6. CASE Spawn
    BY <2>6 DEF Spawn, osState
  <2>7. CASE Stopped
    BY <2>7, NoWorkers DEF Stopped, osState
  <2>8. ASSUME NEW c \in DOMAIN work, Worker(c) PROVE Listed
    <3>1. ASSUME Closed(c), UNCHANGED disabled PROVE Listed
      BY <3>1 DEF Closed
    <3>2. CASE Authorize(c)
      <4>1. CASE Rejects(c)
        BY <3>1, <3>2, <4>1 DEF Authorize, Rejects, osState
      <4>2. CASE Authorized(c)
        BY <3>2, <4>2 DEF Authorize, Authorized, osState
      <4> QED BY <3>2, <4>1, <4>2 DEF Authorize
    <3>3. CASE Disable(c)
      <4>1. /\ work[c].stage = "authorized" /\ work' = [work EXCEPT ![c].stage = "disabled"]
            /\ disabled' \subseteq disabled \cup {work[c].target.image}
        BY <3>3 DEF Disable
      <4>2. ServiceLists(work[c].target.image, policy)
        BY <1>1, <4>1 DEF IInv, TargetsListed, Opened
      <4> QED BY <4>1, <4>2
    <3>4. CASE Terminate(c)
      <4>1. CASE Rejects(c)
        BY <3>1, <3>4, <4>1 DEF Terminate, Rejects
      <4>2. CASE ~Rejects(c)
        <5>1. /\ os[work[c].pid] = work[c].target /\ work[c].stage = "disabled"
              /\ work' = [work EXCEPT ![c].stage = "terminated"] /\ UNCHANGED disabled
          BY <3>4, <4>2 DEF Terminate
        <5>2. ServiceLists(work[c].target.image, policy)
          BY <1>1, <5>1 DEF IInv, TargetsListed, Opened
        <5> QED BY <5>1, <5>2
      <4> QED BY <4>1, <4>2
    <3>5. CASE Answer(c)
      BY <3>1, <3>5 DEF Answer, osState
    <3>6. CASE Leave(c)
      BY <3>6 DEF Leave, osState
    <3> QED BY <2>8, <3>2, <3>3, <3>4, <3>5, <3>6 DEF Worker
  <2> QED BY <1>1, <2>2, <2>3, <2>4, <2>5, <2>6, <2>7, <2>8 DEF Next, Outside, ServiceNext
<1>2. IInv /\ [Next]_vars => [Listed]_vars
  BY <1>1
<1>3. ServiceActsOnListed <=> [][Listed]_vars
  BY PTL DEF ServiceActsOnListed
<1> QED BY <1>2, <1>3, RemediationInvariant, PTL DEF Spec

\* terminate_process_user_mode: what the core itself ends is what a rule lets it end,
\* or came to have the pid after the scan.
THEOREM CoreEndsRuled == Spec => UserModeKillsRuled
<1> DEFINE Ruled(p) ==
      todo' = todo \ {p} /\ todo' # todo /\ dying' = dying \cup {p} /\ dying' # dying
         => \/ Terminates(Resolve(os[p].image, policy))
            \/ os[p].id > scanBorn
<1>1. ASSUME IInv, [Next]_vars, NEW p \in Pids PROVE Ruled(p)
  <2> SUFFICES ASSUME todo' = todo \ {p}, todo' # todo, p \notin dying,
                      dying' = dying \cup {p}
               PROVE  \/ Terminates(Resolve(os[p].image, policy))
                      \/ os[p].id > scanBorn
    OBVIOUS
  <2>1. (Unelevated \/ FallBack) => Working /\ todo # {} /\ UserMode
    BY <1>1 DEF Unelevated, FallBack, Working, IInv, CallFollowed
  <2>2. UserMode /\ Working /\ todo # {}
    <3>1. ~UNCHANGED vars /\ ~Outside
      BY DEF vars, Outside, coreVars
    <3>2. dying' # dying
      OBVIOUS
    <3>3. ~(StartPreflight \/ Scan \/ PassDone \/ StartTick \/ TickDone \/ RequestElevated
            \/ ServiceTerminated)
      BY <3>2 DEF StartPreflight, Scan, Scanned, PassDone, StartTick, TickDone, RequestElevated,
         Connect, ServiceTerminated, serviceVars, osState
    <3>4. Unelevated \/ FallBack
      BY <1>1, <3>1, <3>3 DEF Next, CoreNext
    <3> QED BY <2>1, <3>4
  <2>3. p \in todo
    OBVIOUS
  <2>4. os[p] # NoProcess
    <3>1. dying' = dying \cup {Current} /\ os[Current] # NoProcess
      BY <2>2 DEF UserMode
    <3> HIDE DEF Current
    <3>2. p = Current
      BY <3>1
    <3> QED BY <3>1, <3>2
  <2>5. os[p].id \in Nat /\ scanBorn \in Nat
    <3>1. os[p] \in Processes
      BY <1>1, <2>4 DEF IInv, Types, TypeOK, ServiceTypeOK
    <3> QED BY <1>1, <3>1 DEF IInv, Types, Processes
  <2>6. CASE os[p].id =< scanBorn
    <3>1. p \in Targets(seen) /\ os[p] = seen[p]
      BY <1>1, <2>2, <2>3, <2>4, <2>6 DEF IInv, ScanHolds, Observing
    <3> QED BY <2>4, <3>1 DEF Targets, Decision
  <2> QED BY <2>5, <2>6
<1>2. IInv /\ [Next]_vars => [\A p \in Pids : Ruled(p)]_vars
  BY <1>1
<1>3. UserModeKillsRuled <=> [][\A p \in Pids : Ruled(p)]_vars
  BY PTL DEF UserModeKillsRuled
<1> QED BY <1>2, <1>3, RemediationInvariant, PTL DEF Spec

\* preflight_remediate_policy_processes: a process that was called terminated and is
\* found by the last scan was started during the preflight, or is still ending.
THEOREM TerminatedStaysGone == Spec => TerminatedIsGone
<1> DEFINE Fresh ==
      PreflightEnds =>
          \A p \in Targets(os) :
             <<p, "terminated">> \in actions => os[p].id > startBorn \/ p \in dying
<1>1. IInv => Fresh
  <2> SUFFICES ASSUME IInv, pc = "scanning", NEW p \in Targets(os), <<p, "terminated">> \in actions
               PROVE  os[p].id > startBorn \/ p \in dying
    BY DEF PreflightEnds
  <2>1. p \in Pids /\ os[p] # NoProcess
    BY DEF Targets, Decision, Terminates
  <2>2. mode = "preflight"
    BY DEF IInv, Stepping
  <2> QED BY <2>1, <2>2 DEF IInv, PassAccounted
<1>2. TerminatedIsGone <=> [][Fresh]_vars
  BY PTL DEF TerminatedIsGone
<1> QED BY <1>1, <1>2, RemediationInvariant, PTL

\* A preflight in which no termination failed keeps the student out only if for each of
\* its passes a process was started, or the scan after it found one still ending.
THEOREM EachPassRespawned == Spec => RespawnsOutnumberPasses
<1> DEFINE Respawned ==
      /\ PreflightEnds /\ ~exam'
      /\ \A a \in actions : a[2] # "failed"
      /\ \A p \in Pids : Decision(os, p) # "hardBlock"
      => born - startBorn + lingers + Lingering(os) >= passes
<1>1. ASSUME IInv, [Next]_vars PROVE Respawned
  <2> SUFFICES ASSUME pc = "scanning", pc' = "idle", ~exam', NoneFailed,
                      \A p \in Pids : Decision(os, p) # "hardBlock"
               PROVE  born - startBorn + lingers + Lingering(os) >= passes
    BY DEF PreflightEnds, NoneFailed
  <2>1. Scan
    <3>1. ~UNCHANGED vars /\ ~Outside
      BY DEF vars, Outside, coreVars
    <3> QED BY <1>1, <3>1 DEF Next, CoreNext, StartPreflight, PassDone, StartTick, TickDone,
          Unelevated, RequestElevated, ServiceTerminated, FallBack
  <2>2. Blocking(os) # {}
    BY <2>1 DEF Scan, Scanned, Finish, Pass
  <2>3. PICK p \in Blocking(os) : TRUE
    BY <2>2
  <2>4. p \in Targets(os)
    BY <2>3 DEF Blocking, Targets, Blocks, Terminates
  <2>5. /\ born \in Nat /\ startBorn \in Nat /\ scanBorn \in Nat /\ passes \in Nat
        /\ startBorn =< born /\ scanBorn =< born /\ mode = "preflight" /\ todo = {}
        /\ lingers \in Nat /\ Lingering(os) \in {0, 1}
        /\ passes > 0 /\ Targets(os) \cap dying # {} => Lingering(os) = 1
    BY <1>1, PassesAssumption DEF IInv, Types, TypeOK, ServiceTypeOK, Stepping, Lingering
  <2>6. CASE passes = 0
    BY <2>5, <2>6
  <2>7. CASE passes > 0
    <3>1. born > scanBorn \/ Lingering(os) = 1
      BY <1>1, <2>4, <2>5, <2>7, FoundSince
    <3>2. passes + startBorn =< scanBorn + lingers + 1
      BY <1>1, <2>5, <2>7 DEF IInv, PassAccounted, Observing
    <3> QED BY <2>5, <3>1, <3>2
  <2> QED BY <2>5, <2>6, <2>7
<1>2. IInv /\ [Next]_vars => [Respawned]_vars
  BY <1>1
<1>3. RespawnsOutnumberPasses <=> [][Respawned]_vars
  BY PTL DEF RespawnsOutnumberPasses
<1> QED BY <1>2, <1>3, RemediationInvariant, PTL DEF Spec

\* run_service joins the accept thread, which joins the workers: only when it has failed
\* does the process exit with a request under way.
THEOREM CutOffByFailure == Spec => CutOffOnlyByFailure
<1> DEFINE Finished == svc' = "stopped" /\ DOMAIN work # {} => accept = "failed"
<1>1. ASSUME IInv, [Next]_vars PROVE Finished
  <2> SUFFICES ASSUME svc' = "stopped", DOMAIN work # {}, accept # "failed" PROVE FALSE
    OBVIOUS
  <2>1. svc # "stopped" /\ accept # "done"
    BY <1>1 DEF IInv, PipeKept
  <2>2. ~Stopped
    BY <2>1 DEF Stopped
  <2>3. ~CoreNext /\ ~UNCHANGED vars
    BY <2>1, CoreLeavesWorkers DEF vars, serviceVars, serviceState, acceptState
  <2>4. ~EnvironmentNext /\ ~GiveUp
    BY <2>1 DEF EnvironmentNext, Launch, Restart, Start, Exit, ReceiptExpires, GiveUp,
       serviceState, acceptState
  <2>5. ~(CreateInstance \/ Listen \/ AcceptFails \/ AcceptCount \/ Spawn \/ SpawnFails
          \/ SeeStop \/ CancelFails \/ Join \/ StopControl \/ AcceptEnded)
    BY <2>1 DEF CreateInstance, Listen, AcceptFails, AcceptCount, Spawn, SpawnFails, SeeStop,
       CancelFails, Join, StopControl, AcceptEnded, StopPending
  <2>6. ASSUME NEW c \in DOMAIN work PROVE ~Worker(c)
    BY <2>1 DEF Worker, Authorize, Disable, Terminate, Answer, Leave, acceptState
  <2> QED BY <1>1, <2>2, <2>3, <2>4, <2>5, <2>6 DEF Next, Outside, ServiceNext
<1>2. IInv /\ [Next]_vars => [Finished]_vars
  BY <1>1
<1>3. CutOffOnlyByFailure <=> [][Finished]_vars
  BY PTL DEF CutOffOnlyByFailure
<1> QED BY <1>2, <1>3, RemediationInvariant, PTL DEF Spec

-----------------------------------------------------------------------------
(***************************************************************************)
(* The promise of the service.  A call given up in an earlier preflight    *)
(* leaves a worker behind, which may end a process before the present one  *)
(* has its Windows service disabled; Windows then starts it again, once.   *)
(* Each pass after the first is due to such a restart (PassesLeft), and    *)
(* every image can do so once: MaxPasses must be more than there are.      *)
(***************************************************************************)

\* Nothing stands in the way of the service since the preflight began.
Promised ==
    /\ agree /\ ~disturbed /\ svc = "running" /\ receipt = "valid"
    /\ \A image \in Backed : ServiceLists(image, policy)

Promising == Promised /\ mode = "preflight" /\ pc # "idle"

TargetsNumbered ==
    \A c \in DOMAIN work : Opened(c) => work[c].target.id =< born

\* A worker about to terminate what was started since has disabled its service.
DisabledFirst ==
    \A c \in DOMAIN work :
        /\ work[c].stage = "disabled" /\ os[work[c].pid] = work[c].target
        /\ work[c].target.id > startBorn /\ work[c].target.image \in Backed
        => work[c].target.image \in disabled

\* So has whoever told it to end.
DyingDisabled ==
    \A p \in dying :
        os[p].id > startBorn /\ os[p].image \in Backed => os[p].image \in disabled

\* The call fails for a process that is going or that the core can end itself.
FailsForNone ==
    pc = "calling" =>
        /\ call.state = "error" => Going(Current) \/ os[Current].image \notin Backed
        /\ /\ call.slot \in DOMAIN work
           /\ work[call.slot].stage \in {"authorized", "disabled"}
           => os[Current] = work[call.slot].target \/ Going(Current)

ScannedGoing == Observing => \A p \in Targets(seen) \ todo : Going(p)

\* The images that may yet be started again, once each, and are to be terminated.
Restartable ==
    {image \in Backed :
        /\ Terminates(Resolve(image, policy))
        /\ \/ image \in owed
           \/ \E p \in Pids : os[p] # NoProcess /\ os[p].image = image /\ os[p].id =< startBorn}

Restarted == \E p \in Targets(os) : os[p].id > scanBorn

PassesLeft ==
    /\ pc = "scanning" /\ passes = 0 => Cardinality(Restartable) < budget
    /\ Observing =>
        /\ Cardinality(Restartable) + passes =< budget
        /\ Restarted => Cardinality(Restartable) + passes < budget
    /\ Working => passes > 0

Honoured == DisabledFirst /\ DyingDisabled /\ FailsForNone /\ ScannedGoing /\ PassesLeft

SInv == TargetsNumbered /\ (Promising => Honoured)

-----------------------------------------------------------------------------
(* What steps may happen while the promise holds *)

LEMMA OutsideMoves ==
    ASSUME IInv, Outside
    PROVE  OsMoves /\ UNCHANGED coreVars
BY EnvironmentSteps, AcceptSteps, AcceptEndSteps, AuthorizeStep, DisableStep, TerminateStep,
   AnswerStep, LeaveStep, ControlSteps, StoppedStep, GiveUpStep
   DEF Outside, ServiceNext, Worker

LEMMA CoreLeavesService ==
    ASSUME CoreNext
    PROVE  /\ UNCHANGED <<policyState, receipt, os, born, disabled, owed, svc, work>>
           /\ StartPreflight \/ disturbed' \/ ~disturbed
<1>1. CASE Scan
  <2>1. disturbed' = (disturbed \/ dying # {})
    BY <1>1 DEF Scan, Scanned
  <2>2. disturbed' \/ ~disturbed
    BY <2>1
  <2> QED BY <1>1, <2>2 DEF Scan, Scanned, osState, serviceState, acceptState
<1>2. CASE ~Scan
  <2>1. /\ UNCHANGED <<policyState, receipt, os, born, disabled, owed, svc, work>>
        /\ StartPreflight \/ disturbed' = disturbed \/ disturbed' = TRUE
    BY <1>2 DEF CoreNext, StartPreflight, PassDone, StartTick, TickDone, Unelevated,
         RequestElevated, Connect, ServiceTerminated, FallBack, UserMode, serviceVars,
         serviceState, acceptState, osState
  <2>2. disturbed' = disturbed => disturbed' \/ ~disturbed
    OBVIOUS
  <2> QED BY <2>1, <2>2
<1> QED BY <1>1, <1>2

LEMMA WorkerLeaves ==
    ASSUME NEW c \in DOMAIN work, Worker(c)
    PROVE  /\ UNCHANGED <<policyState, receipt, born, acceptState>>
           /\ disturbed \in BOOLEAN => disturbed' = disturbed \/ disturbed' = TRUE
<1>1. CASE Authorize(c)
  BY <1>1 DEF Authorize, osState
<1>2. CASE Disable(c)
  BY <1>2 DEF Disable
<1>3. CASE Terminate(c)
  BY <1>3 DEF Terminate
<1>4. CASE Answer(c)
  BY <1>4 DEF Answer, osState
<1>5. CASE Leave(c)
  BY <1>5 DEF Leave, osState
<1> QED BY <1>1, <1>2, <1>3, <1>4, <1>5 DEF Worker

\* The steps of others that do not break it.
LEMMA PromisedSteps ==
    ASSUME IInv, Outside, Promised'
    PROVE  /\ Promised
           /\ \/ CreateInstance \/ Listen \/ AcceptCount \/ Spawn \/ Join
              \/ \E c \in DOMAIN work : Worker(c)
              \/ \E p \in Pids : Restart(p) \/ (Exit(p) /\ p \in dying)
<1>1. disturbed \in BOOLEAN /\ receipt \in {"valid", "invalid"}
  BY DEF IInv, Types, TypeOK, ServiceTypeOK
<1>2. ~GiveUp /\ ~ReceiptExpires
  BY DEF GiveUp, ReceiptExpires, Promised
<1>3. \A p \in Pids : (Exit(p) => p \in dying) /\ \A image \in Images : ~Launch(p, image)
  BY DEF Launch, Exit, Promised
<1>4. ~(AcceptFails \/ SpawnFails \/ SeeStop \/ CancelFails \/ StopControl \/ AcceptEnded \/ Stopped)
  BY DEF AcceptFails, SpawnFails, SeeStop, CancelFails, StopControl, AcceptEnded, StopPending,
     Stopped, Stopping, Promised
<1>5. CASE CreateInstance \/ Listen \/ AcceptCount \/ Spawn \/ Join
  <2>1. UNCHANGED <<policyState, receipt, svc, disturbed>>
    BY <1>5 DEF CreateInstance, Listen, AcceptCount, Spawn, Join
  <2>2. Promised
    BY <2>1 DEF Promised, policyState
  <2> QED BY <1>5, <2>2
<1>6. ASSUME NEW c \in DOMAIN work, Worker(c) PROVE Promised
  BY <1>1, <1>6, WorkerLeaves DEF Promised, policyState, acceptState
<1>7. ASSUME NEW p \in Pids, Restart(p) \/ Exit(p) PROVE Promised
  <2>1. CASE Restart(p)
    BY <2>1 DEF Restart, Start, Promised, policyState, serviceState, acceptState
  <2>2. CASE Exit(p)
    <3>1. UNCHANGED <<policyState, receipt, serviceState>> /\ ~disturbed
      BY <2>2 DEF Exit, Promised
    <3> QED BY <3>1 DEF Promised, policyState, serviceState, acceptState
  <2> QED BY <1>7, <2>1, <2>2
<1>8. CASE EnvironmentNext
  <2>1. \E p \in Pids : Restart(p) \/ (Exit(p) /\ p \in dying)
    BY <1>2, <1>3, <1>8 DEF EnvironmentNext
  <2> QED BY <1>7, <2>1
<1>9. CASE ServiceNext
  BY <1>4, <1>5, <1>6, <1>9, Zenon DEF ServiceNext
<1> QED BY <1>2, <1>8, <1>9 DEF Outside

\* Only the start of a preflight makes a promise anew.
LEMMA PromiseBefore ==
    ASSUME IInv, Next, ~StartPreflight, Promising'
    PROVE  Promising
<1>1. disturbed \in BOOLEAN
  BY DEF IInv, Types, TypeOK, ServiceTypeOK
<1>2. CASE CoreNext
  <2>1. Promised
    BY <1>1, <1>2, CoreLeavesService DEF Promising, Promised, policyState
  <2>2. mode = "preflight" /\ pc # "idle"
    <3>1. ~StartTick /\ ~TickDone
      BY DEF StartTick, TickDone, Promising
    <3>2. pc # "idle" /\ mode' = mode
      BY <1>2, <3>1 DEF CoreNext, Scan, Scanned, PassDone, Unelevated, RequestElevated,
         ServiceTerminated, FallBack, UserMode, Recorded
    <3> QED BY <3>2 DEF Promising
  <2> QED BY <2>1, <2>2 DEF Promising
<1>3. CASE Outside
  BY <1>3, PromisedSteps DEF Promising, Outside, coreVars
<1> QED BY <1>2, <1>3 DEF Next

-----------------------------------------------------------------------------
(* Each part of it, over the steps *)

LEMMA TargetsNumberedStays ==
    ASSUME IInv, TargetsNumbered, [Next]_vars
    PROVE  TargetsNumbered'
<1>1. /\ born \in Nat
      /\ \A c \in DOMAIN work : Opened(c) => work[c].target.id \in Nat
  BY DEF IInv, Types, TypeOK, ServiceTypeOK, TargetsListed, Processes
<1>2. ASSUME born' \in {born, born + 1},
             \A c \in DOMAIN work' :
                Opened(c)' =>
                    c \in DOMAIN work /\ Opened(c) /\ work'[c].target = work[c].target
      PROVE  TargetsNumbered'
  BY <1>1, <1>2 DEF TargetsNumbered
<1>3. CASE UNCHANGED <<work, born>>
  BY <1>3 DEF TargetsNumbered, Opened
<1>4. CASE CoreNext
  BY <1>3, <1>4, CoreLeavesService
<1>5. ASSUME Outside PROVE TargetsNumbered'
  <2>1. born' \in {born, born + 1}
    BY <1>5, OutsideMoves DEF OsMoves
  <2>2. CASE EnvironmentNext \/ GiveUp \/ CreateInstance \/ Listen \/ AcceptFails \/ AcceptCount
             \/ SpawnFails \/ SeeStop \/ CancelFails \/ Join \/ StopControl \/ AcceptEnded
    <3>1. work' = work
      BY <2>2 DEF EnvironmentNext, Launch, Restart, Start, Exit, ReceiptExpires, GiveUp,
         CreateInstance, Listen, AcceptFails, AcceptCount, SpawnFails, SeeStop, CancelFails, Join,
         StopControl, AcceptEnded, StopPending, serviceState
    <3> QED BY <1>2, <2>1, <3>1 DEF Opened
  <2>3. CASE Stopped
    BY <2>3, NoWorkers DEF Stopped, TargetsNumbered
  <2>4. CASE Spawn
    <3>1. \A c \in DOMAIN work' : Opened(c)' => c \in DOMAIN work /\ work'[c] = work[c]
      BY <2>4 DEF Spawn, Opened
    <3> QED BY <1>2, <2>1, <3>1 DEF Opened
  <2>5. ASSUME NEW c \in DOMAIN work, Worker(c) PROVE TargetsNumbered'
    <3>1. ASSUME Closed(c) PROVE TargetsNumbered'
      BY <1>2, <2>1, <3>1 DEF Closed, Opened
    <3>2. CASE Authorized(c) /\ UNCHANGED osState /\ os[work[c].pid] # NoProcess
      <4>1. work[c].pid \in Pids
        BY DEF IInv, Types, TypeOK, ServiceTypeOK
      <4>2. os[work[c].pid].id =< born
        BY <3>2, <4>1 DEF IInv, Numbered
      <4> QED BY <3>2, <4>2 DEF Authorized, TargetsNumbered, Opened, osState
    <3>3. CASE Disable(c)
      <4>1. work[c].stage = "authorized" /\ work' = [work EXCEPT ![c].stage = "disabled"]
        BY <3>3 DEF Disable
      <4> QED BY <1>2, <2>1, <4>1 DEF Opened
    <3>4. CASE Terminate(c)
      <4>1. \/ Closed(c)
            \/ work[c].stage = "disabled" /\ work' = [work EXCEPT ![c].stage = "terminated"]
        BY <3>4 DEF Terminate, Rejects
      <4>2. ASSUME work[c].stage = "disabled", work' = [work EXCEPT ![c].stage = "terminated"]
            PROVE  TargetsNumbered'
        BY <1>2, <2>1, <4>2 DEF Opened
      <4> QED BY <3>1, <4>1, <4>2
    <3>5. CASE Leave(c)
      BY <1>2, <2>1, <3>5 DEF Leave, Opened
    <3> QED BY <2>5, <3>1, <3>2, <3>3, <3>4, <3>5 DEF Worker, Authorize, Rejects, Answer
  <2> QED BY <1>5, <2>2, <2>3, <2>4, <2>5 DEF Outside, ServiceNext
<1>6. CASE UNCHANGED vars
  BY <1>3, <1>6 DEF vars, serviceVars, serviceState, osState
<1> QED BY <1>4, <1>5, <1>6 DEF Next

\* Processes that end leave fewer that can be started again, and fewer targets.
LEMMA FewerRestarts ==
    ASSUME UNCHANGED <<policy, startBorn, scanBorn>>,
           \A p \in Pids : os'[p] \in {os[p], NoProcess},
           \A image \in owed' :
              image \in owed \/ image \in Restartable \/ ~Terminates(Resolve(image, policy))
    PROVE  Restartable' \subseteq Restartable /\ (Restarted' => Restarted)
<1>1. Restartable' \subseteq Restartable
  BY DEF Restartable
<1>2. ASSUME NEW p \in Targets(os)', os'[p].id > scanBorn'
      PROVE  Restarted
  <2>1. p \in Pids /\ os'[p] # NoProcess
    BY <1>2 DEF Targets, Decision, Terminates
  <2>2. os'[p] = os[p]
    BY <2>1
  <2>3. p \in Targets(os)
    BY <1>2, <2>2 DEF Targets, Decision
  <2> QED BY <1>2, <2>2, <2>3 DEF Restarted
<1> QED BY <1>1, <1>2 DEF Restarted

LEMMA RestartsCounted ==
    ASSUME IsFiniteSet(Backed)
    PROVE  IsFiniteSet(Restartable) /\ Cardinality(Restartable) \in Nat
BY FS_Subset, FS_CardinalityType DEF Restartable

LEMMA PassesStay ==
    ASSUME IInv, IsFiniteSet(Backed), PassesLeft, UNCHANGED <<passes, budget>>,
           Restartable' \subseteq Restartable, Restarted' => Restarted,
           pc' = "scanning" /\ passes' = 0 => pc = "scanning",
           Observing' => Observing, Working' => Working
    PROVE  PassesLeft'
<1>1. passes \in Nat /\ budget \in Nat
  BY PassesAssumption DEF IInv, Types, TypeOK
<1> DEFINE before == Cardinality(Restartable)
           after == Cardinality(Restartable')
<1>2. before \in Nat /\ after \in Nat /\ after =< before
  BY RestartsCounted, FS_Subset, FS_CardinalityType
<1>3. Cardinality(Restartable)' = after
  OBVIOUS
<1> HIDE DEF before, after
<1>4. /\ pc = "scanning" /\ passes = 0 => before < budget
      /\ Observing => before + passes =< budget /\ (Restarted => before + passes < budget)
      /\ Working => passes > 0
  BY DEF PassesLeft, before
<1>5. /\ pc' = "scanning" /\ passes' = 0 => after < budget'
      /\ Observing' => after + passes' =< budget' /\ (Restarted' => after + passes' < budget')
      /\ Working' => passes' > 0
  BY <1>1, <1>2, <1>4
<1> QED BY <1>3, <1>5 DEF PassesLeft

LEMMA ScannedStay ==
    ASSUME IInv, OsMoves, ScannedGoing, UNCHANGED <<seen, policy, scanBorn>>,
           Observing' => Observing,
           \A p \in todo \ todo' : os'[p] # NoProcess => os'[p].id > scanBorn \/ p \in dying'
    PROVE  ScannedGoing'
<1>1. Types
  BY DEF IInv
<1>2. Targets(seen)' = Targets(seen) /\ Targets(seen) \subseteq Pids
  BY DEF Targets, Decision
<1>3. \A p \in Pids : Going(p) => Going(p)'
  BY <1>1, GoingStays
<1>4. \A p \in todo \ todo' : Going(p)'
  BY DEF Going
<1> QED BY <1>2, <1>3, <1>4 DEF ScannedGoing

\* What the workers are about stays so where processes only end.
LEMMA DisabledStays ==
    ASSUME IInv, DisabledFirst, UNCHANGED startBorn, disabled \subseteq disabled',
           \A p \in Pids : os'[p] \in {os[p], NoProcess},
           \A c \in DOMAIN work' :
              work'[c].stage = "disabled" => c \in DOMAIN work /\ work'[c] = work[c]
    PROVE  DisabledFirst'
<1> SUFFICES ASSUME NEW c \in DOMAIN work, work[c].stage = "disabled",
                    os'[work[c].pid] = work[c].target,
                    work[c].target.id > startBorn, work[c].target.image \in Backed
             PROVE  work[c].target.image \in disabled
  BY DEF DisabledFirst
<1>1. work[c].target # NoProcess /\ work[c].pid \in Pids
  BY ServiceAssumption DEF IInv, TargetsListed, Opened, Types, TypeOK, ServiceTypeOK
<1>2. os[work[c].pid] = work[c].target
  BY <1>1
<1> QED BY <1>2 DEF DisabledFirst

LEMMA DyingStays ==
    ASSUME DyingDisabled, UNCHANGED startBorn, disabled \subseteq disabled',
           \A p \in dying' :
              \/ p \in dying /\ os'[p] = os[p]
              \/ os'[p].id > startBorn /\ os'[p].image \in Backed => os'[p].image \in disabled'
    PROVE  DyingDisabled'
BY DEF DyingDisabled

\* Another's step in which processes may end: the core goes on as it was.
LEMMA OthersEnd ==
    ASSUME IInv, IsFiniteSet(Backed), OsMoves, ScannedGoing, PassesLeft,
           UNCHANGED <<coreVars, policy>>,
           \A p \in Pids : os'[p] \in {os[p], NoProcess},
           \A image \in owed' :
              image \in owed \/ image \in Restartable \/ ~Terminates(Resolve(image, policy))
    PROVE  ScannedGoing' /\ PassesLeft'
<1> USE DEF coreVars
<1>1. (Observing' <=> Observing) /\ (Working' <=> Working) /\ todo \ todo' = {}
  BY DEF Observing, Working
<1>2. ScannedGoing'
  BY <1>1, ScannedStay
<1>3. Restartable' \subseteq Restartable /\ (Restarted' => Restarted)
  BY FewerRestarts
<1>4. PassesLeft'
  BY <1>1, <1>3, PassesStay
<1> QED BY <1>2, <1>4

-----------------------------------------------------------------------------
(* The steps of the service *)

LEMMA CallersWorker ==
    ASSUME IInv, pc = "calling", call.slot \in DOMAIN work
    PROVE  /\ call.state = "waiting"
           /\ work[call.slot].pid = Current /\ work[call.slot].stage # "closed"
           /\ work[call.slot].stage = "terminated" => Going(Current)
<1>1. ServiceTypeOK /\ PipeKept /\ CallFollowed /\ NoCall \notin Slots
  BY SlotsFinite DEF IInv, Types, TypeOK
<1>2. call.state = "waiting"
  BY <1>1 DEF PipeKept, ServiceTypeOK
<1>3. caller.slot # call.slot
  BY <1>1 DEF PipeKept, NoCaller, ServiceTypeOK
<1> QED BY <1>1, <1>2, <1>3 DEF CallFollowed

\* What a call about Current is worth, when other processes may have ended.
LEMMA CallHonoured ==
    ASSUME IInv, FailsForNone, OsMoves, UNCHANGED <<coreVars, policy>>,
           \A p \in Pids : os'[p] \in {os[p], NoProcess},
           pc = "calling" /\ call'.state = "error" =>
               call' = call \/ Going(Current) \/ os[Current].image \notin Backed,
           pc = "calling" /\ call'.slot \in DOMAIN work'
             /\ work'[call'.slot].stage \in {"authorized", "disabled"} =>
               \/ call'.slot = call.slot /\ call.slot \in DOMAIN work
                  /\ work[call.slot].stage \in {"authorized", "disabled"}
                  /\ work'[call'.slot].target = work[call.slot].target
               \/ work'[call'.slot].target = os[Current]
    PROVE  FailsForNone'
<1> SUFFICES ASSUME pc = "calling" PROVE FailsForNone'
  BY DEF FailsForNone, coreVars
<1>1. Current' = Current /\ Current \in Pids /\ (Going(Current) => Going(Current)')
  BY CurrentHeld
<1> DEFINE p == Current
<1>2. /\ os[Current]' = os'[p]
      /\ os'[p] = os[p] \/ os'[p] = NoProcess
      /\ Going(Current)' <=> (os'[p] # NoProcess => os'[p].id > scanBorn \/ p \in dying')
  BY <1>1 DEF Going, coreVars
<1>3. Going(Current) <=> (os[p] # NoProcess => os[p].id > scanBorn \/ p \in dying)
  BY DEF Going
<1>4. /\ call.state = "error" => Going(Current) \/ os[p].image \notin Backed
      /\ /\ call.slot \in DOMAIN work
         /\ work[call.slot].stage \in {"authorized", "disabled"}
         => os[p] = work[call.slot].target \/ Going(Current)
  BY DEF FailsForNone
<1> HIDE DEF Current, p, Going
<1>5. call'.state = "error" => Going(Current)' \/ os'[p].image \notin Backed
  BY <1>1, <1>2, <1>4 DEF p
<1>6. call'.slot \in DOMAIN work' /\ work'[call'.slot].stage \in {"authorized", "disabled"}
         => os'[p] = work'[call'.slot].target \/ Going(Current)'
  BY <1>1, <1>2, <1>4 DEF p
<1> QED BY <1>2, <1>5, <1>6 DEF FailsForNone

LEMMA AcceptHonoured ==
    ASSUME IInv, IsFiniteSet(Backed), Honoured, Outside,
           CreateInstance \/ Listen \/ AcceptCount \/ Spawn \/ Join, Promised'
    PROVE  Honoured'
<1>1. /\ UNCHANGED <<policyState, osState, coreVars, call>> /\ OsMoves
      /\ DisabledFirst /\ DyingDisabled /\ FailsForNone /\ ScannedGoing /\ PassesLeft
  BY OutsideMoves DEF CreateInstance, Listen, AcceptCount, Spawn, Join, Honoured
<1>2. /\ os' = os /\ dying' = dying /\ owed' = owed /\ disabled' = disabled /\ policy' = policy
      /\ call' = call /\ startBorn' = startBorn
  BY <1>1 DEF osState, policyState, coreVars
<1>3. ScannedGoing' /\ PassesLeft'
  BY <1>1, <1>2, OthersEnd
<1>4. \A c \in DOMAIN work' :
         work'[c].stage # "reading" => c \in DOMAIN work /\ work'[c] = work[c]
  BY DEF CreateInstance, Listen, AcceptCount, Spawn, Join
<1>5. DisabledFirst' /\ DyingDisabled'
  BY <1>1, <1>2, <1>4, DisabledStays, DyingStays
<1>6. FailsForNone'
  BY <1>1, <1>2, <1>4, CallHonoured
<1> QED BY <1>3, <1>5, <1>6 DEF Honoured

\* The policy is read as the core reads it: only what is gone or not backed is refused.
LEMMA AuthorizeHonoured ==
    ASSUME IInv, IsFiniteSet(Backed), Honoured, UNCHANGED coreVars, OsMoves, Promised,
           NEW c \in DOMAIN work, Authorize(c)
    PROVE  Honoured'
<1>1. /\ UNCHANGED <<policyState, osState>> /\ work[c].stage = "reading"
      /\ DisabledFirst /\ DyingDisabled /\ FailsForNone /\ ScannedGoing /\ PassesLeft
  BY DEF Authorize, Honoured
<1>2. /\ os' = os /\ dying' = dying /\ owed' = owed /\ disabled' = disabled /\ policy' = policy
      /\ startBorn' = startBorn
  BY <1>1 DEF osState, policyState, coreVars
<1>3. ScannedGoing' /\ PassesLeft'
  BY <1>1, <1>2, OthersEnd
<1>4. /\ DOMAIN work' = DOMAIN work
      /\ \A d \in DOMAIN work : d # c => work'[d] = work[d]
      /\ \/ work'[c].stage = "closed"
         \/ /\ work'[c].stage = "authorized" /\ work'[c].target = os[work[c].pid]
            /\ call' = call
  <2>1. work[c] \in [pid : Pids, stage : Stages, target : Processes \cup {NoProcess}]
    BY DEF IInv, Types, TypeOK, ServiceTypeOK
  <2>2. CASE Rejects(c)
    BY <2>1, <2>2 DEF Rejects, Closed
  <2>3. CASE Authorized(c)
    BY <2>1, <2>3 DEF Authorized
  <2> QED BY <2>2, <2>3 DEF Authorize
<1>5. DisabledFirst' /\ DyingDisabled'
  <2>1. \A d \in DOMAIN work' :
           work'[d].stage = "disabled" => d \in DOMAIN work /\ work'[d] = work[d]
    BY <1>4
  <2> QED BY <1>1, <1>2, <2>1, DisabledStays, DyingStays
<1>6. pc = "calling" /\ call'.state = "error" =>
         call' = call \/ Going(Current) \/ os[Current].image \notin Backed
  <2> SUFFICES ASSUME pc = "calling", call' # call
               PROVE  Going(Current) \/ os[Current].image \notin Backed
    OBVIOUS
  <2>1. Rejects(c) /\ call.slot = c
    BY DEF Authorize, Authorized, Rejects, Hung
  <2>2. work[c].pid = Current
    BY <2>1, CallersWorker
  <2>3. os[work[c].pid] = NoProcess \/ ~ServiceLists(os[work[c].pid].image, policy)
    BY <2>1 DEF Authorize, Authorized, Rejects, Promised
  <2> HIDE DEF Current
  <2>4. CASE os[Current] = NoProcess
    BY <2>4 DEF Going
  <2>5. CASE ~ServiceLists(os[Current].image, policy)
    BY <2>5 DEF Promised
  <2> QED BY <2>2, <2>3, <2>4, <2>5
<1>7. ASSUME pc = "calling", call'.slot \in DOMAIN work',
             work'[call'.slot].stage \in {"authorized", "disabled"}
      PROVE  \/ call'.slot = call.slot /\ call.slot \in DOMAIN work
                /\ work[call.slot].stage \in {"authorized", "disabled"}
                /\ work'[call'.slot].target = work[call.slot].target
             \/ work'[call'.slot].target = os[Current]
  <2>1. NoCall \notin Slots /\ DOMAIN work \subseteq Slots
        /\ call \in [slot : Slots \cup {NoCall}, state : {"none", "waiting", "ok", "error"}]
    BY SlotsFinite DEF IInv, Types, TypeOK, ServiceTypeOK
  <2>2. CASE call'.slot = c
    <3>1. work'[c].stage = "authorized"
      BY <1>4, <1>7, <2>2
    <3>2. call' = call /\ work'[c].target = os[work[c].pid]
      BY <1>4, <3>1
    <3> QED BY <1>7, <2>2, <3>2, CallersWorker
  <2>3. CASE call'.slot # c
    <3>1. work'[call'.slot] = work[call'.slot]
      BY <1>4, <1>7, <2>3
    <3>2. call' = call
      <4>1. call' = call \/ call' = Hung(c)
        BY DEF Authorize, Authorized, Rejects
      <4> QED BY <1>4, <1>7, <2>1, <4>1 DEF Hung
    <3> QED BY <1>4, <1>7, <3>1, <3>2
  <2> QED BY <2>2, <2>3
<1>8. FailsForNone'
  BY <1>1, <1>2, <1>6, <1>7, CallHonoured
<1> QED BY <1>3, <1>5, <1>8 DEF Honoured

\* stop_and_disable_service_for_pid has done its part, unless it has failed.
LEMMA DisableHonoured ==
    ASSUME IInv, IsFiniteSet(Backed), Honoured, UNCHANGED coreVars, OsMoves, Promised',
           NEW c \in DOMAIN work, Disable(c)
    PROVE  Honoured'
<1>1. /\ UNCHANGED <<policyState, call>> /\ work[c].stage = "authorized"
      /\ os' = os /\ owed' = owed /\ disabled \subseteq disabled'
      /\ work' = [work EXCEPT ![c].stage = "disabled"]
      /\ \/ dying' = dying
         \/ /\ dying' = dying \cup {work[c].pid}
            /\ os[work[c].pid] = work[c].target /\ work[c].target.image \in disabled'
      /\ DisabledFirst /\ DyingDisabled /\ FailsForNone /\ ScannedGoing /\ PassesLeft
  BY DEF Disable, Honoured
<1>2. policy' = policy /\ startBorn' = startBorn
  BY <1>1 DEF policyState, coreVars
<1>3. DyingDisabled'
  BY <1>1, <1>2, DyingStays
<1>4. ScannedGoing' /\ PassesLeft'
  BY <1>1, <1>2, OthersEnd
<1>5. /\ DOMAIN work' = DOMAIN work
      /\ \A d \in DOMAIN work : d # c => work'[d] = work[d]
      /\ work'[c] = [work[c] EXCEPT !.stage = "disabled"]
      /\ \A d \in DOMAIN work : work'[d].pid = work[d].pid /\ work'[d].target = work[d].target
      /\ work'[c].stage = "disabled"
  <2>1. work[c] \in [pid : Pids, stage : Stages, target : Processes \cup {NoProcess}]
    BY DEF IInv, Types, TypeOK, ServiceTypeOK
  <2> QED BY <1>1, <2>1
<1>6. DisabledFirst'
  <2> SUFFICES ASSUME NEW d \in DOMAIN work, work'[d].stage = "disabled",
                      os[work[d].pid] = work[d].target,
                      work[d].target.id > startBorn, work[d].target.image \in Backed
               PROVE  work[d].target.image \in disabled'
    BY <1>1, <1>2, <1>5 DEF DisabledFirst
  <2>1. CASE d = c
    BY <2>1 DEF Disable, Promised
  <2>2. CASE d # c
    BY <1>1, <1>5, <2>2 DEF DisabledFirst
  <2> QED BY <2>1, <2>2
<1>7. FailsForNone'
  BY <1>1, <1>2, <1>5, CallHonoured
<1> QED BY <1>3, <1>4, <1>6, <1>7 DEF Honoured

\* What it terminates is either not started again, or was there before the preflight.
LEMMA TerminateHonoured ==
    ASSUME IInv, IsFiniteSet(Backed), Honoured, UNCHANGED coreVars, OsMoves,
           NEW c \in DOMAIN work, Terminate(c)
    PROVE  Honoured'
<1>1. /\ UNCHANGED <<policyState, os, owed, disabled>> /\ work[c].stage = "disabled"
      /\ DisabledFirst /\ DyingDisabled /\ FailsForNone /\ ScannedGoing /\ PassesLeft
  BY DEF Terminate, Honoured
<1>2. policy' = policy /\ startBorn' = startBorn
  BY <1>1 DEF policyState, coreVars
<1>3. ScannedGoing' /\ PassesLeft'
  BY <1>1, <1>2, OthersEnd
<1>4. /\ DOMAIN work' = DOMAIN work
      /\ \A d \in DOMAIN work : d # c => work'[d] = work[d]
      /\ work'[c].stage \in {"closed", "terminated"}
  <2>1. work[c] \in [pid : Pids, stage : Stages, target : Processes \cup {NoProcess}]
    BY DEF IInv, Types, TypeOK, ServiceTypeOK
  <2>2. \/ Closed(c) \/ work' = [work EXCEPT ![c].stage = "terminated"]
    BY DEF Terminate, Rejects
  <2> QED BY <2>1, <2>2 DEF Closed
<1>5. DisabledFirst'
  <2>1. \A d \in DOMAIN work' :
           work'[d].stage = "disabled" => d \in DOMAIN work /\ work'[d] = work[d]
    BY <1>4
  <2> QED BY <1>1, <1>2, <2>1, DisabledStays
<1>6. DyingDisabled'
  <2>1. \/ dying' = dying
        \/ dying' = dying \cup {work[c].pid} /\ os[work[c].pid] = work[c].target
    BY DEF Terminate
  <2>2. os[work[c].pid] = work[c].target =>
           (os[work[c].pid].id > startBorn /\ os[work[c].pid].image \in Backed
              => os[work[c].pid].image \in disabled)
    BY <1>1 DEF DisabledFirst
  <2> QED BY <1>1, <1>2, <2>1, <2>2, DyingStays
<1>7. pc = "calling" /\ call'.state = "error" =>
         call' = call \/ Going(Current) \/ os[Current].image \notin Backed
  <2> SUFFICES ASSUME pc = "calling", call' # call PROVE Going(Current)
    OBVIOUS
  <2>1. call.slot = c /\ (os[work[c].pid] # work[c].target \/ work[c].pid \in dying)
    BY DEF Terminate, Rejects, Hung
  <2>2. work[c].pid = Current
    BY <2>1, CallersWorker
  <2> HIDE DEF Current
  <2>3. Current \in dying => Going(Current)
    BY DEF Going
  <2> QED BY <1>1, <2>1, <2>2, <2>3 DEF FailsForNone
<1>8. ASSUME call'.slot \in DOMAIN work', work'[call'.slot].stage \in {"authorized", "disabled"}
      PROVE  call' = call /\ work'[call.slot] = work[call.slot]
  <2>1. NoCall \notin Slots /\ DOMAIN work \subseteq Slots
        /\ call \in [slot : Slots \cup {NoCall}, state : {"none", "waiting", "ok", "error"}]
    BY SlotsFinite DEF IInv, Types, TypeOK, ServiceTypeOK
  <2>2. call' = call \/ call' = Hung(c)
    BY DEF Terminate, Rejects
  <2>3. call' = call
    BY <1>4, <1>8, <2>1, <2>2 DEF Hung
  <2> QED BY <1>4, <1>8, <2>3
<1>9. FailsForNone'
  BY <1>1, <1>2, <1>4, <1>7, <1>8, CallHonoured
<1> QED BY <1>3, <1>5, <1>6, <1>9 DEF Honoured

\* A worker that has answered, or is about to end, is of no call any more.
LEMMA AnswerHonoured ==
    ASSUME IInv, IsFiniteSet(Backed), Honoured, UNCHANGED coreVars, OsMoves,
           NEW c \in DOMAIN work, Answer(c) \/ Leave(c)
    PROVE  Honoured'
<1>1. /\ UNCHANGED <<policyState, osState>>
      /\ DisabledFirst /\ DyingDisabled /\ FailsForNone /\ ScannedGoing /\ PassesLeft
  BY DEF Answer, Leave, Honoured
<1>2. /\ os' = os /\ dying' = dying /\ owed' = owed /\ disabled' = disabled /\ policy' = policy
      /\ startBorn' = startBorn
  BY <1>1 DEF osState, policyState, coreVars
<1>3. ScannedGoing' /\ PassesLeft'
  BY <1>1, <1>2, OthersEnd
<1>4. \A d \in DOMAIN work' :
         work'[d].stage # "closed" => d \in DOMAIN work /\ work'[d] = work[d]
  <2>1. work[c] \in [pid : Pids, stage : Stages, target : Processes \cup {NoProcess}]
    BY DEF IInv, Types, TypeOK, ServiceTypeOK
  <2> QED BY <2>1 DEF Answer, Closed, Leave
<1>5. DisabledFirst' /\ DyingDisabled'
  BY <1>1, <1>2, <1>4, DisabledStays, DyingStays
<1>6. NoCall \notin Slots /\ DOMAIN work \subseteq Slots
      /\ call \in [slot : Slots \cup {NoCall}, state : {"none", "waiting", "ok", "error"}]
  BY SlotsFinite DEF IInv, Types, TypeOK, ServiceTypeOK
<1>7. DOMAIN work' \subseteq DOMAIN work
  BY DEF Answer, Closed, Leave
<1>8. /\ call'.state = "error" => call' = call
      /\ call'.slot \in DOMAIN work' => call' = call
  <2>1. call' = call \/ (call.slot = c /\ call' = [call EXCEPT !.slot = NoCall, !.state = "ok"])
    BY DEF Answer, Leave
  <2> QED BY <1>6, <1>7, <2>1
<1>9. FailsForNone'
  BY <1>1, <1>2, <1>4, <1>8, CallHonoured
<1> QED BY <1>3, <1>5, <1>9 DEF Honoured

\* A process goes that was told to: its service is disabled, or it was there before.
LEMMA ExitHonoured ==
    ASSUME IInv, IsFiniteSet(Backed), Honoured, UNCHANGED coreVars, OsMoves,
           NEW q \in Pids, Exit(q), q \in dying
    PROVE  Honoured'
<1>1. /\ os[q] # NoProcess /\ os' = [os EXCEPT ![q] = NoProcess] /\ dying' = dying \ {q}
      /\ owed' = (owed \cup {os[q].image}) \cap (Backed \ disabled)
      /\ UNCHANGED <<policyState, disabled, work, call>>
      /\ DisabledFirst /\ DyingDisabled /\ FailsForNone /\ ScannedGoing /\ PassesLeft
  BY DEF Exit, Ended, Honoured, serviceState
<1>2. /\ policy' = policy /\ startBorn' = startBorn
      /\ \A p \in Pids : os'[p] \in {os[p], NoProcess} /\ (p # q => os'[p] = os[p])
      /\ dying \subseteq Pids /\ os[q].id \in Nat /\ startBorn \in Nat
  <2>1. os \in [Pids -> Processes \cup {NoProcess}] /\ os[q] \in Processes
    BY <1>1 DEF IInv, Types, TypeOK, ServiceTypeOK
  <2> QED BY <1>1, <2>1 DEF IInv, Types, TypeOK, ServiceTypeOK, Processes, policyState, coreVars
<1>3. ASSUME NEW image \in owed', image \notin owed
      PROVE  image \in Restartable \/ ~Terminates(Resolve(image, policy))
  <2>1. image = os[q].image /\ image \in Backed /\ image \notin disabled
    BY <1>1, <1>3
  <2>2. os[q].id =< startBorn
    BY <1>1, <1>2, <2>1 DEF DyingDisabled
  <2> QED BY <1>1, <2>1, <2>2 DEF Restartable
<1>4. ScannedGoing' /\ PassesLeft'
  BY <1>1, <1>2, <1>3, OthersEnd
<1>5. DisabledFirst' /\ DyingDisabled'
  BY <1>1, <1>2, DisabledStays, DyingStays
<1>6. FailsForNone'
  BY <1>1, <1>2, CallHonoured
<1> QED BY <1>4, <1>5, <1>6 DEF Honoured

\* Windows starts again what it owes: the image can be terminated once more, and no more.
LEMMA RestartHonoured ==
    ASSUME IInv, IsFiniteSet(Backed), Honoured, UNCHANGED coreVars, OsMoves,
           NEW q \in Pids, Restart(q)
    PROVE  Honoured'
<1>1. PICK i \in owed : Start(q, i)
  BY DEF Restart
<1>2. /\ os[q] = NoProcess /\ ~Held(q) /\ ~Running(i) /\ i \in Backed
      /\ born' = born + 1 /\ owed' = owed \ {i}
      /\ os' = [os EXCEPT ![q] = [image |-> i, id |-> born']]
      /\ UNCHANGED <<policyState, dying, disabled, work, call>>
      /\ DisabledFirst /\ DyingDisabled /\ FailsForNone /\ ScannedGoing /\ PassesLeft
  BY <1>1 DEF Start, Honoured, IInv, Types, TypeOK, ServiceTypeOK, serviceState
<1>3. /\ os \in [Pids -> Processes \cup {NoProcess}] /\ born \in Nat
      /\ startBorn \in Nat /\ scanBorn \in Nat /\ startBorn =< born /\ scanBorn =< born
      /\ policy' = policy /\ startBorn' = startBorn /\ scanBorn' = scanBorn
      /\ passes \in Nat /\ budget \in Nat
  BY <1>2, PassesAssumption DEF IInv, Types, TypeOK, ServiceTypeOK, policyState, coreVars
<1>4. /\ os'[q].image = i /\ os'[q].id = born + 1
      /\ \A p \in Pids : p # q => os'[p] = os[p]
  BY <1>2, <1>3
<1>5. born + 1 > startBorn /\ ~(born + 1 =< startBorn) /\ born + 1 > scanBorn
  BY <1>3
<1>6. DisabledFirst'
  <2> SUFFICES ASSUME NEW c \in DOMAIN work, work[c].stage = "disabled",
                      os'[work[c].pid] = work[c].target,
                      work[c].target.id > startBorn, work[c].target.image \in Backed
               PROVE  work[c].target.image \in disabled
    BY <1>2, <1>3 DEF DisabledFirst
  <2>1. work[c].pid # q /\ work[c].pid \in Pids
    BY <1>2 DEF Held, IInv, Types, TypeOK, ServiceTypeOK
  <2> QED BY <1>2, <1>4, <2>1 DEF DisabledFirst
<1>7. FailsForNone'
  <2> SUFFICES ASSUME pc = "calling" PROVE FailsForNone'
    BY DEF FailsForNone, coreVars
  <2>1. Current' = Current /\ Current \in Pids /\ (Going(Current) => Going(Current)')
    BY <1>3, CurrentHeld
  <2>2. os'[Current'] = os[Current] \/ Going(Current)'
    <3> HIDE DEF Current
    <3> QED BY <1>3, <1>4, <1>5, <2>1 DEF Going
  <2>3. os[Current]' = os'[Current']
    OBVIOUS
  <2> HIDE DEF Current, Going
  <2> QED BY <1>2, <2>1, <2>2, <2>3 DEF FailsForNone
<1>8. ScannedGoing'
  <2>1. (Observing' <=> Observing) /\ todo \ todo' = {} /\ UNCHANGED <<seen, scanBorn>>
    BY DEF Observing, Working, coreVars
  <2> QED BY <1>2, <1>3, <2>1, ScannedStay
<1>9. Restartable' \subseteq Restartable \ {i}
  <2> SUFFICES ASSUME NEW image \in Restartable'
               PROVE  image \in Restartable /\ image # i
    OBVIOUS
  <2>1. /\ image \in Backed /\ Terminates(Resolve(image, policy))
        /\ \/ image \in owed \ {i}
           \/ \E p \in Pids : os'[p] # NoProcess /\ os'[p].image = image /\ os'[p].id =< startBorn
    BY <1>2, <1>3 DEF Restartable
  <2>2. CASE image \in owed \ {i}
    BY <2>1, <2>2 DEF Restartable
  <2>3. ASSUME NEW p \in Pids, os'[p] # NoProcess, os'[p].image = image, os'[p].id =< startBorn
        PROVE  image \in Restartable /\ image # i
    <3>1. p # q
      BY <1>4, <1>5, <2>3
    <3>2. os[p] = os'[p]
      BY <1>4, <3>1
    <3> QED BY <1>2, <2>1, <2>3, <3>2 DEF Restartable, Running
  <2> QED BY <2>1, <2>2, <2>3
<1>10. PassesLeft'
  <2>1. (Observing' <=> Observing) /\ (Working' <=> Working) /\ UNCHANGED <<pc, passes, budget>>
    BY DEF Observing, Working, coreVars
  <2>2. CASE ~Terminates(Resolve(i, policy))
    <3>1. Restarted' => Restarted
      <4> SUFFICES ASSUME NEW p \in Targets(os)', os'[p].id > scanBorn PROVE Restarted
        BY <1>3 DEF Restarted
      <4>1. p \in Pids /\ Terminates(Decision(os, p)')
        BY DEF Targets
      <4>2. p # q
        BY <1>3, <1>4, <2>2, <4>1 DEF Decision, Terminates
      <4>3. p \in Targets(os)
        BY <1>3, <1>4, <4>1, <4>2 DEF Targets, Decision
      <4> QED BY <1>4, <4>1, <4>2, <4>3 DEF Restarted
    <3> QED BY <1>2, <1>9, <2>1, <3>1, PassesStay
  <2>3. CASE Terminates(Resolve(i, policy))
    <3>1. i \in Restartable
      BY <1>1, <1>2, <2>3 DEF Restartable
    <3> DEFINE before == Cardinality(Restartable)
               after == Cardinality(Restartable')
    <3>2. before \in Nat /\ after \in Nat /\ after < before
      <4>1. IsFiniteSet(Restartable) /\ before \in Nat
        BY RestartsCounted
      <4>2. IsFiniteSet(Restartable \ {i}) /\ Cardinality(Restartable \ {i}) = before - 1
        BY <3>1, <4>1, FS_RemoveElement
      <4>3. after \in Nat /\ after =< Cardinality(Restartable \ {i})
        BY <1>9, <4>2, FS_Subset, FS_CardinalityType
      <4> QED BY <4>1, <4>2, <4>3
    <3>3. Cardinality(Restartable)' = after
      OBVIOUS
    <3> HIDE DEF before, after
    <3>4. /\ pc = "scanning" /\ passes = 0 => before < budget
          /\ Observing => before + passes =< budget
          /\ Working => passes > 0
      BY <1>2 DEF PassesLeft, before
    <3>5. /\ pc' = "scanning" /\ passes' = 0 => after < budget'
          /\ Observing' => after + passes' =< budget' /\ after + passes' < budget'
          /\ Working' => passes' > 0
      BY <1>3, <2>1, <3>2, <3>4
    <3> QED BY <3>3, <3>5 DEF PassesLeft
  <2> QED BY <2>2, <2>3
<1>11. DyingDisabled'
  <2>1. dying \subseteq Pids /\ q \notin dying
    BY <1>2 DEF IInv, Types, TypeOK, ServiceTypeOK
  <2> QED BY <1>2, <1>3, <1>4, <2>1, DyingStays
<1> QED BY <1>6, <1>7, <1>8, <1>10, <1>11 DEF Honoured

\* Every step of others that the promise allows.
LEMMA OthersHonour ==
    ASSUME IInv, IsFiniteSet(Backed), Honoured, Outside, Promised'
    PROVE  Honoured'
<1>1. OsMoves /\ UNCHANGED coreVars /\ Promised
  BY OutsideMoves, PromisedSteps
<1>2. CASE CreateInstance \/ Listen \/ AcceptCount \/ Spawn \/ Join
  BY <1>2, AcceptHonoured
<1>3. ASSUME NEW c \in DOMAIN work, Worker(c) PROVE Honoured'
  BY <1>1, <1>3, AuthorizeHonoured, DisableHonoured, TerminateHonoured, AnswerHonoured DEF Worker
<1>4. ASSUME NEW p \in Pids, Restart(p) \/ (Exit(p) /\ p \in dying) PROVE Honoured'
  BY <1>1, <1>4, RestartHonoured, ExitHonoured
<1> QED BY <1>2, <1>3, <1>4, PromisedSteps

-----------------------------------------------------------------------------
(* The steps of the core *)

LEMMA RequestHonoured ==
    ASSUME IInv, IsFiniteSet(Backed), Honoured, RequestElevated, Promised'
    PROVE  Honoured'
<1>1. /\ pc = "killing" /\ pc' = "calling" /\ Connect(Current)
      /\ UNCHANGED <<mode, exam, seen, todo, passes, budget, lingers, actions, outcome, startBorn,
                     scanBorn>>
      /\ DisabledFirst /\ DyingDisabled /\ ScannedGoing /\ PassesLeft
  BY DEF RequestElevated, Honoured
<1>2. UNCHANGED <<policyState, osState, work>> /\ call.state = "none"
  BY <1>1 DEF Connect
<1>3. /\ os' = os /\ dying' = dying /\ owed' = owed /\ disabled' = disabled /\ policy' = policy
      /\ Types /\ ServiceTypeOK /\ PipeKept
  BY <1>2 DEF osState, policyState, IInv, Types, TypeOK
<1>4. OsMoves
  BY <1>2, <1>3, OsStill DEF osState
<1>5. instance = "free"
  BY <1>1 DEF Connect, Promised
<1> DEFINE c == CHOOSE s \in FreeSlots : TRUE
<1>6. c \in Slots \ DOMAIN work
  BY <1>2, <1>3, <1>5, SlotIsFree
<1>7. call' = [slot |-> c, state |-> "waiting"]
  BY <1>1, <1>5 DEF Connect
<1> HIDE DEF c
<1>8. FailsForNone'
  BY <1>2, <1>6, <1>7 DEF FailsForNone
<1>9. DisabledFirst' /\ DyingDisabled'
  BY <1>1, <1>2, <1>3, DisabledStays, DyingStays
<1>10. Observing' /\ Observing /\ Working
  BY <1>1 DEF Observing, Working
<1>11. ScannedGoing'
  BY <1>1, <1>3, <1>4, <1>10, ScannedStay
<1>12. Restartable' \subseteq Restartable /\ (Restarted' => Restarted)
  BY <1>1, <1>3, FewerRestarts
<1>13. PassesLeft'
  BY <1>1, <1>10, <1>12, PassesStay
<1> QED BY <1>8, <1>9, <1>11, <1>13 DEF Honoured

\* One process less on the list, which is going or was the core's to end.
LEMMA RecordedHonoured ==
    ASSUME IInv, IsFiniteSet(Backed), Honoured, Working, todo # {}, NEW ok, Recorded(ok),
           OsMoves, UNCHANGED <<policy, work, os, disabled, owed>>,
           dying' = dying \/ (dying' = dying \cup {Current} /\ os[Current].image \notin Backed),
           os'[Current] # NoProcess => os'[Current].id > scanBorn \/ Current \in dying'
    PROVE  Honoured'
<1>1. /\ todo' = todo \ {Current} /\ pc' = "killing"
      /\ UNCHANGED <<mode, exam, seen, passes, budget, outcome, startBorn, scanBorn>>
      /\ DisabledFirst /\ DyingDisabled /\ ScannedGoing /\ PassesLeft
  BY DEF Recorded, Honoured
<1>2. FailsForNone'
  BY <1>1 DEF FailsForNone
<1>3. DisabledFirst' /\ DyingDisabled'
  <2> HIDE DEF Current
  <2> QED BY <1>1, DisabledStays, DyingStays
<1>4. Observing' /\ Observing
  BY <1>1 DEF Observing, Working
<1>5. \A p \in todo \ todo' : os'[p] # NoProcess => os'[p].id > scanBorn \/ p \in dying'
  <2> HIDE DEF Current
  <2> QED BY <1>1
<1>6. ScannedGoing'
  BY <1>1, <1>4, <1>5, ScannedStay
<1>7. Restartable' \subseteq Restartable /\ (Restarted' => Restarted)
  BY <1>1, FewerRestarts
<1>8. PassesLeft'
  BY <1>1, <1>4, <1>7, PassesStay
<1> QED BY <1>2, <1>3, <1>6, <1>8 DEF Honoured

LEMMA ServiceTerminatedHonoured ==
    ASSUME IInv, IsFiniteSet(Backed), Honoured, ServiceTerminated
    PROVE  Honoured'
<1>1. /\ pc = "calling" /\ call.state = "ok" /\ Recorded(TRUE)
      /\ UNCHANGED <<policyState, osState, serviceState>>
  BY DEF ServiceTerminated
<1>2. Types /\ todo # {} /\ Going(Current) /\ Working
  BY <1>1 DEF IInv, CallFollowed, Working
<1>3. UNCHANGED <<policy, work, os, dying, disabled, owed>>
  BY <1>1 DEF osState, policyState, serviceState
<1>4. OsMoves
  BY <1>1, <1>2, OsStill DEF osState
<1>5. os'[Current] # NoProcess => os'[Current].id > scanBorn \/ Current \in dying'
  <2> HIDE DEF Current
  <2> QED BY <1>2, <1>3 DEF Going
<1> QED BY <1>1, <1>2, <1>3, <1>4, <1>5, RecordedHonoured

\* The call failed for a process that is going, or that user mode can end.
LEMMA FallBackHonoured ==
    ASSUME IInv, IsFiniteSet(Backed), Honoured, FallBack
    PROVE  Honoured'
<1>1. pc = "calling" /\ call.state = "error" /\ UserMode
  BY DEF FallBack
<1>2. Types /\ todo # {} /\ Working
  BY <1>1 DEF IInv, CallFollowed, Working
<1>3. PICK ok \in BOOLEAN :
         /\ Recorded(ok) /\ OsMoves
         /\ ok => Current \in dying'
         /\ ok \/ os[Current] = NoProcess \/ os[Current].image \in Backed \/ Current \in dying
         /\ UNCHANGED <<policyState, os, disabled, owed, serviceState>>
  BY <1>1, <1>2, UserModeMarks
<1>4. dying' = dying \/ (dying' = dying \cup {Current} /\ os[Current].image \notin Backed)
  BY <1>1 DEF UserMode
<1>5. Going(Current) \/ os[Current].image \notin Backed
  BY <1>1 DEF Honoured, FailsForNone
<1>6. Going(Current) <=> (os[Current] # NoProcess => os[Current].id > scanBorn \/ Current \in dying)
  BY DEF Going
<1>7. os'[Current] # NoProcess => os'[Current].id > scanBorn \/ Current \in dying'
  <2> HIDE DEF Current, Going
  <2> QED BY <1>3, <1>4, <1>5, <1>6
<1>8. UNCHANGED <<policy, work, os, disabled, owed>>
  BY <1>3 DEF policyState, serviceState
<1> QED BY <1>2, <1>3, <1>4, <1>7, <1>8, RecordedHonoured

LEMMA PassDoneHonoured ==
    ASSUME IInv, IsFiniteSet(Backed), Honoured, PassDone
    PROVE  Honoured'
<1>1. /\ pc = "killing" /\ pc' = "scanning"
      /\ UNCHANGED <<serviceVars, mode, seen, todo, passes, budget, startBorn, scanBorn>>
      /\ DisabledFirst /\ DyingDisabled /\ ScannedGoing /\ PassesLeft
  BY DEF PassDone, Honoured
<1>2. UNCHANGED <<os, dying, born, policy, work, disabled, owed>> /\ Types
  BY <1>1 DEF serviceVars, osState, policyState, serviceState, IInv
<1>3. OsMoves
  BY <1>2, OsStill
<1>4. FailsForNone'
  BY <1>1 DEF FailsForNone
<1>5. DisabledFirst' /\ DyingDisabled'
  BY <1>1, <1>2, DisabledStays, DyingStays
<1>6. Observing
  BY <1>1 DEF Observing, Working
<1>7. ScannedGoing'
  BY <1>1, <1>2, <1>3, <1>6, ScannedStay
<1>8. Restartable' \subseteq Restartable /\ (Restarted' => Restarted)
  BY <1>1, <1>2, FewerRestarts
<1>9. PassesLeft'
  <2>1. passes # 0 /\ ~Working'
    BY <1>1 DEF PassesLeft, Working
  <2> QED BY <1>1, <1>6, <1>8, <2>1, PassesStay
<1> QED BY <1>4, <1>5, <1>7, <1>9 DEF Honoured

\* A scan: what it finds has been started since the last one, and has used up a restart.
LEMMA ScanFinds ==
    ASSUME IInv, ScannedGoing, pc = "scanning", passes > 0, dying = {}, NEW p \in Targets(os)
    PROVE  os[p].id > scanBorn
<1>1. /\ p \in Pids /\ os[p] # NoProcess /\ os[p] \in Processes /\ scanBorn \in Nat
  BY DEF Targets, Decision, Terminates, IInv, Types, TypeOK, ServiceTypeOK
<1>2. os[p].id \in Nat
  BY <1>1 DEF Processes
<1> SUFFICES ASSUME os[p].id =< scanBorn PROVE FALSE
  BY <1>1, <1>2
<1>3. os[p] = seen[p] /\ todo = {}
  BY <1>1 DEF IInv, ScanHolds, Observing, Stepping
<1>4. p \in Targets(seen) \ todo
  BY <1>1, <1>3 DEF Targets, Decision
<1>5. os[p] # NoProcess => os[p].id > scanBorn
  BY <1>4 DEF ScannedGoing, Observing, Going
<1> QED BY <1>1, <1>2, <1>5

LEMMA MorePasses ==
    ASSUME IInv, IsFiniteSet(Backed), ScannedGoing, PassesLeft, pc = "scanning", dying = {},
           Targets(os) # {}
    PROVE  /\ passes \in Nat /\ budget \in Nat /\ Cardinality(Restartable) \in Nat
           /\ Cardinality(Restartable) + passes < budget
<1>1. passes \in Nat /\ budget \in Nat
  BY PassesAssumption DEF IInv, Types, TypeOK
<1>2. Cardinality(Restartable) \in Nat
  BY RestartsCounted
<1>3. CASE passes = 0
  BY <1>1, <1>2, <1>3 DEF PassesLeft
<1>4. CASE passes > 0
  <2>1. PICK p \in Targets(os) : TRUE
    OBVIOUS
  <2>2. Restarted
    BY <1>4, <2>1, ScanFinds DEF Restarted
  <2> QED BY <1>1, <1>2, <1>4, <2>2 DEF PassesLeft, Observing
<1> QED BY <1>1, <1>2, <1>3, <1>4

LEMMA ScanHonoured ==
    ASSUME IInv, IsFiniteSet(Backed), Honoured, Scan, pc' # "idle", Promised'
    PROVE  Honoured'
<1>1. /\ pc = "scanning" /\ scanBorn' = born /\ Pass(os) /\ Targets(os) # {}
      /\ UNCHANGED <<policyState, receipt, osState, serviceState, call>>
      /\ DisabledFirst /\ ScannedGoing /\ PassesLeft /\ dying = {}
  BY DEF Scan, Scanned, Finish, Honoured, Promised
<1>2. /\ passes' = passes + 1 /\ seen' = os /\ todo' = Targets(os) /\ pc' = "killing"
      /\ UNCHANGED <<budget, startBorn>>
  BY <1>1 DEF Pass
<1>3. os' = os /\ dying' = {} /\ UNCHANGED <<born, policy, work, disabled, owed>>
  BY <1>1 DEF osState, policyState, serviceState
<1>4. FailsForNone'
  BY <1>2 DEF FailsForNone
<1>5. DisabledFirst' /\ DyingDisabled'
  BY <1>1, <1>2, <1>3, DisabledStays DEF DyingDisabled
<1>6. ScannedGoing'
  <2>1. Targets(seen)' = todo'
    BY <1>2, <1>3 DEF Targets, Decision
  <2> QED BY <2>1 DEF ScannedGoing
<1>7. ~Restarted'
  <2> SUFFICES ASSUME NEW p \in Targets(os)', os'[p].id > born PROVE FALSE
    BY <1>1, <1>3 DEF Restarted
  <2>1. p \in Pids /\ os[p] # NoProcess
    BY <1>3 DEF Targets, Decision, Terminates
  <2>2. os[p] \in Processes /\ os[p].id =< born /\ born \in Nat
    BY <2>1 DEF IInv, Numbered, Types, TypeOK, ServiceTypeOK
  <2>3. os[p].id \in Nat
    BY <2>2 DEF Processes
  <2> QED BY <1>3, <2>2, <2>3
<1>8. PassesLeft'
  <2>1. Restartable' = Restartable
    BY <1>2, <1>3 DEF Restartable
  <2>2. Cardinality(Restartable)' = Cardinality(Restartable)
    BY <2>1
  <2> DEFINE count == Cardinality(Restartable)
  <2>3. /\ passes \in Nat /\ budget \in Nat /\ count \in Nat /\ count + passes < budget
    BY <1>1, MorePasses
  <2> HIDE DEF count
  <2>4. count + passes' =< budget' /\ passes' > 0 /\ pc' # "scanning"
    BY <1>2, <2>3
  <2> QED BY <1>7, <2>2, <2>4 DEF PassesLeft, count
<1> QED BY <1>4, <1>5, <1>6, <1>8 DEF Honoured

LEMMA ImagesOfTargets ==
    /\ IsFiniteSet({os[p].image : p \in Targets(os)})
    /\ Cardinality({os[p].image : p \in Targets(os)}) =< Cardinality(Targets(os))
    /\ Cardinality(Targets(os)) \in Nat
<1> DEFINE images == {os[p].image : p \in Targets(os)}
           imageOf == [p \in Targets(os) |-> os[p].image]
<1>1. IsFiniteSet(Targets(os)) /\ Cardinality(Targets(os)) \in Nat
  BY ServiceAssumption, FS_Subset, FS_CardinalityType DEF Targets
<1>2. imageOf \in Surjection(Targets(os), images)
  BY DEF Surjection
<1> HIDE DEF imageOf, images
<1>3. IsFiniteSet(images) /\ Cardinality(images) =< Cardinality(Targets(os))
  BY <1>1, <1>2, FS_Surjection
<1> QED BY <1>1, <1>3 DEF images

\* The first scan gives one pass more than there are targets, up to the cap.
LEMMA StartHonoured ==
    ASSUME IInv, IsFiniteSet(Backed), Cardinality(Backed) < MaxPasses, TargetsNumbered,
           StartPreflight, Promised'
    PROVE  Honoured'
<1> DEFINE count == Cardinality(Targets(os))
<1>1. /\ pc = "idle" /\ pc' = "scanning" /\ startBorn' = born
      /\ budget' = Least(Most(count + 1, MinPasses), MaxPasses)
      /\ owed = {} /\ dying = {} /\ passes' = passes
      /\ UNCHANGED <<policyState, osState, serviceState>>
  BY DEF StartPreflight, Promised
<1>2. /\ os' = os /\ owed' = {} /\ dying' = {} /\ UNCHANGED <<policy, work>>
      /\ passes = 0 /\ born \in Nat
  BY <1>1 DEF osState, policyState, serviceState, IInv, Stepping, Types, TypeOK, ServiceTypeOK
<1>3. FailsForNone' /\ ScannedGoing' /\ DyingDisabled'
  BY <1>1, <1>2 DEF FailsForNone, ScannedGoing, DyingDisabled, Observing, Working
<1>4. DisabledFirst'
  <2> SUFFICES ASSUME NEW c \in DOMAIN work, work[c].stage = "disabled",
                      work[c].target.id > born
               PROVE  FALSE
    BY <1>1, <1>2 DEF DisabledFirst
  <2>1. work[c].target \in Processes /\ work[c].target.id =< born
    BY DEF IInv, TargetsListed, TargetsNumbered, Opened
  <2>2. work[c].target.id \in Nat
    BY <2>1 DEF Processes
  <2> QED BY <1>2, <2>1, <2>2
<1>5. Restartable' \subseteq {os[p].image : p \in Targets(os)} /\ Restartable' \subseteq Backed
  BY <1>2 DEF Restartable, Targets, Decision
<1> DEFINE restartable == Cardinality(Restartable')
           backed == Cardinality(Backed)
<1>6. /\ restartable \in Nat /\ count \in Nat /\ backed \in Nat
      /\ restartable =< count /\ restartable =< backed
  <2>1. IsFiniteSet(Restartable') /\ restartable \in Nat /\ restartable =< backed
        /\ backed \in Nat
    BY <1>5, FS_Subset, FS_CardinalityType
  <2> DEFINE found == Cardinality({os[p].image : p \in Targets(os)})
  <2>2. found \in Nat /\ found =< count /\ count \in Nat /\ restartable =< found
    BY <1>5, ImagesOfTargets, FS_Subset, FS_CardinalityType
  <2> HIDE DEF found, count, restartable, backed
  <2> QED BY <2>1, <2>2
<1>7. Cardinality(Restartable)' = restartable
  OBVIOUS
<1>8. backed < MaxPasses
  OBVIOUS
<1> HIDE DEF restartable, count, backed
<1>9. restartable < budget'
  BY <1>1, <1>6, <1>8, PassesAssumption DEF Least, Most
<1>10. PassesLeft'
  BY <1>1, <1>2, <1>7, <1>9 DEF PassesLeft, Observing, Working
<1> QED BY <1>3, <1>4, <1>10 DEF Honoured

-----------------------------------------------------------------------------
(* The promise is kept *)

LEMMA CoreHonours ==
    ASSUME IInv, IsFiniteSet(Backed), Honoured, CoreNext, ~StartPreflight, Promising, Promising'
    PROVE  Honoured'
<1>1. ~StartTick /\ ~TickDone
  BY DEF StartTick, TickDone, Promising
<1>2. ~Unelevated
  BY DEF Unelevated, Elevated, Promising, Promised
<1>3. pc' # "idle" /\ Promised'
  BY DEF Promising
<1> QED
  BY <1>1, <1>2, <1>3, ScanHonoured, PassDoneHonoured, RequestHonoured,
     ServiceTerminatedHonoured, FallBackHonoured DEF CoreNext

LEMMA InitSInv == Init => SInv
<1> SUFFICES ASSUME Init PROVE SInv
  OBVIOUS
<1>1. DOMAIN work = {} /\ pc = "idle"
  BY DEF Init, ServiceInit, Slots
<1> QED BY <1>1 DEF SInv, TargetsNumbered, Promising

LEMMA NextKeepsSInv ==
    ASSUME IsFiniteSet(Backed), Cardinality(Backed) < MaxPasses,
           IInv, SInv, [Next]_vars
    PROVE  SInv'
<1>1. TargetsNumbered'
  BY TargetsNumberedStays DEF SInv
<1>2. ASSUME Promising', Next PROVE Honoured'
  <2>1. CASE StartPreflight
    BY <1>2, <2>1, StartHonoured DEF SInv, Promising
  <2>2. CASE ~StartPreflight
    <3>1. Promising /\ Honoured
      BY <1>2, <2>2, PromiseBefore DEF SInv
    <3>2. CASE CoreNext
      BY <1>2, <2>2, <3>1, <3>2, CoreHonours
    <3>3. CASE Outside
      BY <1>2, <3>1, <3>3, OthersHonour DEF Promising
    <3> QED BY <1>2, <3>2, <3>3 DEF Next
  <2> QED BY <2>1, <2>2
<1>3. ASSUME Promising', UNCHANGED vars PROVE Honoured'
  <2>1. Promising
    BY <1>3 DEF Promising, Promised, vars, serviceVars, policyState, serviceState, acceptState,
       coreVars
  <2>2. Honoured /\ IInv
    BY <2>1 DEF SInv
  <2> QED
    BY <1>3, <2>2 DEF vars, serviceVars, policyState, serviceState, acceptState, osState, coreVars,
       Honoured, DisabledFirst, DyingDisabled, FailsForNone, ScannedGoing, PassesLeft, Going, Current, Before,
       Decision, Observing, Working, Targets, Restartable, Restarted
<1> QED BY <1>1, <1>2, <1>3 DEF SInv

\* preflight_remediate_policy_processes over the elevated service: nobody interfering, a
\* service that reads the policy and lists what Windows keeps running lets the student in
\* after one preflight, if every backed image may be started again within the passes.
THEOREM AgreeingServiceLetsIn ==
    ASSUME IsFiniteSet(Backed), Cardinality(Backed) < MaxPasses
    PROVE  Spec => AgreeingServiceClears
<1> DEFINE LetsIn ==
      /\ agree
      /\ PreflightEnds /\ ~disturbed' /\ ~Stopping /\ receipt = "valid"
      /\ \A p \in Pids : Decision(os, p) # "hardBlock"
      /\ \A image \in Backed : ServiceLists(image, policy)
      => exam'
<1>1. ASSUME IInv, SInv, [Next]_vars PROVE LetsIn
  <2> SUFFICES ASSUME pc = "scanning", pc' = "idle", agree, ~disturbed', ~Stopping,
                      receipt = "valid", \A p \in Pids : Decision(os, p) # "hardBlock",
                      \A image \in Backed : ServiceLists(image, policy)
               PROVE  exam'
    BY DEF PreflightEnds
  <2>1. Scan
    <3>1. ~UNCHANGED vars /\ ~Outside
      BY DEF vars, Outside, coreVars
    <3> QED BY <1>1, <3>1 DEF Next, CoreNext, StartPreflight, PassDone, StartTick, TickDone,
          Unelevated, RequestElevated, ServiceTerminated, FallBack
  <2>2. Finish(os) /\ (Targets(os) = {} \/ passes = budget)
    BY <2>1 DEF Scan, Scanned, Pass
  <2>3. dying = {} /\ ScannedGoing /\ PassesLeft
    <3>1. dying = {} /\ Promised
      BY <2>1 DEF Scan, Scanned, Promised, Stopping
    <3> QED BY <1>1, <3>1 DEF IInv, Stepping, SInv, Promising, Honoured
  <2>4. Targets(os) = {}
    <3> SUFFICES ASSUME Targets(os) # {} PROVE FALSE
      OBVIOUS
    <3> DEFINE count == Cardinality(Restartable)
    <3>1. passes \in Nat /\ budget \in Nat /\ count \in Nat /\ count + passes < budget
      BY <1>1, <2>3, MorePasses
    <3> HIDE DEF count
    <3> QED BY <2>2, <3>1
  <2>5. Blocking(os) = {}
    <3> SUFFICES ASSUME NEW p \in Blocking(os) PROVE FALSE
      OBVIOUS
    <3>1. p \in Targets(os)
      BY DEF Blocking, Targets, Blocks, Terminates
    <3> QED BY <2>4, <3>1
  <2> QED BY <2>2, <2>5 DEF Finish
<1>2. IInv /\ SInv /\ [Next]_vars => SInv' /\ [LetsIn]_vars
  BY <1>1, NextKeepsSInv
<1>3. AgreeingServiceClears <=> [][LetsIn]_vars
  BY PTL DEF AgreeingServiceClears
<1> QED BY <1>2, <1>3, InitSInv, RemediationInvariant, PTL DEF Spec
=============================================================================

------------------------- MODULE RuntimeStateEngine -------------------------
(***************************************************************************)
(* The process table of rust-core/src/runtime_state_engine.rs: what the    *)
(* monitor tick believes to be running, built from the events of process   *)
(* producers (which may be late, doubled, lost or out of order) and        *)
(* repaired by the list of processes each tick collects.                   *)
(*                                                                         *)
(* `known_processes` is keyed by a string that starts with the pid and     *)
(* `active_identity_by_pid` by the pid, and no operation on one pid reads  *)
(* the entries of another, so the table is kept here per pid: `known` maps *)
(* the identity a process was first recorded with (its key) to its entry,  *)
(* `current` is the pid's key in `active_identity_by_pid`.                 *)
(*                                                                         *)
(* An identity is abstracted to the two fields the comparisons tell apart: *)
(* the creation time, which producers give in milliseconds and the         *)
(* collector in whole seconds, and the image (name and path together).     *)
(* Counters, producer health and the sources of events are left out; the   *)
(* lifecycle of the engine is in CoreRuntime.                              *)
(***************************************************************************)
EXTENDS Naturals, Sequences, FiniteSets

CONSTANTS
    Pids,           \* process ids
    Reports,        \* the identities producers report
    Listings,       \* the identities the process collector lists
    NoTime,         \* a creation time the source did not give
    NoImage,        \* an image the source did not give
    NoKey,          \* a pid with no entry in active_identity_by_pid
    Second,         \* milliseconds of a second: the collector's precision
    QueueCapacity,  \* DEFAULT_RUNTIME_QUEUE_CAPACITY
    MaxTime         \* bound on the times events carry

Times == 0 .. MaxTime

Identities == [created : Nat \cup {NoTime},
               image   : {i.image : i \in Reports \cup Listings} \cup {NoImage}]

\* The collector gives every process it lists a creation time (collectors.rs:176).
ASSUME EngineAssumption ==
    /\ Reports \cup Listings \subseteq Identities
    /\ \A i \in Listings : i.created # NoTime
    /\ NoTime \notin Nat
    /\ NoKey \notin Identities
    /\ Second \in Nat \ {0}
    /\ QueueCapacity \in Nat \ {0}
    /\ MaxTime \in Nat

VARIABLES
    table,          \* pid -> its known processes and its current key
    queue,          \* events submitted and not yet applied
    stage           \* the part of the tick being run

vars == <<table, queue, stage>>

Events == [kind : {"created", "exited"}, pid : Pids, identity : Reports,
           at : Times]

Unknown == [known |-> << >>, current |-> NoKey]

Init ==
    /\ table = [p \in Pids |-> Unknown]
    /\ queue = << >>
    /\ stage = "submitting"

-----------------------------------------------------------------------------
(* Comparing identities of one pid *)

Known(x, y, field, missing) == x[field] # missing /\ y[field] # missing

SameImage(x, y) == Known(x, y, "image", NoImage) => x.image = y.image

SameStableImage(x, y) ==
    /\ Known(x, y, "created", NoTime) => x.created = y.created
    /\ SameImage(x, y)

SameSecond(x, y) ==
    Known(x, y, "created", NoTime) => x.created \div Second = y.created \div Second

SameReconciliationImage(x, y) == SameSecond(x, y) /\ SameImage(x, y)

MergeMissingFields(x, y) ==
    [created |-> IF x.created = NoTime THEN y.created ELSE x.created,
     image   |-> IF x.image = NoImage THEN y.image ELSE x.image]

Later(x, y) == IF x < y THEN y ELSE x

-----------------------------------------------------------------------------
(* The effect of one sighting on the processes of its pid *)

\* An exact key, else the pid's current process if it may be the same one.
ResolveIdentityKey(proc, id) ==
    IF /\ id \notin DOMAIN proc.known
       /\ proc.current # NoKey
       /\ SameStableImage(proc.known[proc.current].identity, id)
    THEN proc.current
    ELSE id

\* Mutant: the process a create event replaces stays active.
RetiredNot(proc) == proc.known

\* The current process of the pid, marked as no longer running.
Retired(proc) == [proc.known EXCEPT ![proc.current].active = FALSE]

Fresh(id, at) == [identity |-> id, active |-> TRUE, first |-> at, last |-> at]

Refreshed(entry, id, at) ==
    [entry EXCEPT !.identity = MergeMissingFields(@, id),
                  !.active = TRUE,
                  !.last = at]

\* Mutant: the creation times are not compared.
IsOlderNever(proc, key, id) == FALSE

\* A create event or an unmatched listing that names an older process than
\* the current one.
IsOlder(proc, key, id) ==
    /\ proc.current \notin {NoKey, key}
    /\ LET current == proc.known[proc.current].identity
       IN Known(id, current, "created", NoTime) /\ id.created < current.created

\* Whether the pid's entry was seen after this sighting was made.
IsStale(entry, at) == at < entry.last

ApplyCreate(proc, id, at) ==
    LET key     == ResolveIdentityKey(proc, id)
        retired == IF proc.current \in {NoKey, key} THEN proc.known ELSE Retired(proc)
        entry   == IF key \in DOMAIN retired THEN Refreshed(retired[key], id, at)
                                             ELSE Fresh(id, at)
    IN IF IsOlder(proc, key, id) THEN proc
       ELSE IF key \in DOMAIN retired /\ IsStale(retired[key], at)
       THEN [proc EXCEPT !.known = retired]
       ELSE [known   |-> [k \in DOMAIN retired \cup {key} |->
                             IF k = key THEN entry ELSE retired[k]],
             current |-> key]

\* An exit of an unknown identity counts as the exit of the pid's current one.
ApplyExit(proc, id, at) ==
    LET resolved == ResolveIdentityKey(proc, id)
        key      == IF resolved \in DOMAIN proc.known THEN resolved ELSE proc.current
    IN IF key = NoKey \/ (key # NoKey /\ at < proc.known[key].first) THEN proc
       ELSE [known   |-> [proc.known EXCEPT ![key].active = FALSE,
                                            ![key].last = Later(at, @)],
             current |-> IF proc.current = key THEN NoKey ELSE proc.current]

Matches(proc, id) ==
    /\ proc.current # NoKey
    /\ SameReconciliationImage(proc.known[proc.current].identity, id)

\* The pid is listed by the collector.
Listed(proc, id, at) ==
    IF Matches(proc, id)
    THEN [proc EXCEPT !.known[proc.current].identity = MergeMissingFields(@, id),
                      !.known[proc.current].last = Later(at, @)]
    ELSE ApplyCreate(proc, id, at)

\* The pid is not listed.
Unlisted(proc, at) ==
    IF proc.current = NoKey THEN proc
    ELSE [known   |-> [proc.known EXCEPT ![proc.current].active = FALSE,
                                         ![proc.current].last = Later(at, @)],
          current |-> NoKey]

-----------------------------------------------------------------------------
(* The operations, in the order a monitor tick calls them *)

\* submit_process_event: a full queue gives up its oldest event.
SubmitProcessEvent(event) ==
    /\ stage = "submitting"
    /\ queue' = Append(IF Len(queue) >= QueueCapacity THEN Tail(queue) ELSE queue, event)
    /\ UNCHANGED <<table, stage>>

\* One turn of the loop of drain_queue.
ApplyEvent ==
    /\ queue # << >>
    /\ LET event == Head(queue)
           apply(proc) == IF event.kind = "created"
                          THEN ApplyCreate(proc, event.identity, event.at)
                          ELSE ApplyExit(proc, event.identity, event.at)
       IN table' = [table EXCEPT ![event.pid] = apply(@)]
    /\ queue' = Tail(queue)
    /\ stage' = "draining"

\* reconcile_processes with a list that has each pid at most once.
ReconcileProcesses(listing, at) ==
    /\ queue = << >>
    /\ table' = [p \in Pids |-> IF p \in DOMAIN listing
                                THEN Listed(table[p], listing[p], at)
                                ELSE Unlisted(table[p], at)]
    /\ stage' = "submitting"
    /\ UNCHANGED queue

\* reset_session_data, when a kiosk session is entered.
ResetSessionData ==
    /\ stage = "submitting"
    /\ table' = [p \in Pids |-> Unknown]
    /\ queue' = << >>
    /\ UNCHANGED stage

Lists == UNION {[pids -> Listings] : pids \in SUBSET Pids}

Next ==
    \/ \E event \in Events : SubmitProcessEvent(event)
    \/ ApplyEvent
    \/ \E listing \in Lists, at \in Times : ReconcileProcesses(listing, at)
    \/ ResetSessionData

Spec == Init /\ [][Next]_vars

-----------------------------------------------------------------------------
(* Properties *)

Entries == [identity : Identities, active : BOOLEAN, first : Times, last : Times]

WellFormed(proc) ==
    /\ proc = [known |-> proc.known, current |-> proc.current]
    /\ DOMAIN proc.known \subseteq Identities
    /\ proc.known = [k \in DOMAIN proc.known |-> proc.known[k]]
    /\ \A k \in DOMAIN proc.known :
          proc.known[k] \in Entries /\ proc.known[k].first <= proc.known[k].last
    /\ proc.current \in DOMAIN proc.known \cup {NoKey}

\* Types; the queue never exceeds its capacity, a pid's key in
\* active_identity_by_pid is the key of a known process (every lookup that
\* follows the index finds one) and no process was last seen before it was
\* first seen.
TypeOK ==
    /\ table = [p \in Pids |-> table[p]]
    /\ \A p \in Pids : WellFormed(table[p])
    /\ queue \in Seq(Events) /\ Len(queue) <= QueueCapacity
    /\ stage \in {"submitting", "draining"}

Active(proc) == {k \in DOMAIN proc.known : proc.known[k].active}

\* Remediation is given the processes that active_processes() returns. An
\* active process is always its pid's current one, so no pid is ever reported
\* with two images, whatever order events and listings came in.
ActiveIsCurrent ==
    \A p \in Pids : Active(table[p]) \subseteq {table[p].current}

\* After a reconciliation no process is active whose pid the collector did not
\* list: a process that is gone is not remediated again.
UnlistedRetired ==
    [][\A listing \in Lists, at \in Times :
          ReconcileProcesses(listing, at)
             => \A p \in Pids \ DOMAIN listing : Active(table'[p]) = {}]_vars

\* Between two resets a known process is not forgotten, its first sighting is
\* not moved and its last sighting never goes back, although events arrive out
\* of order: a late event is recognised by comparing it with these two.
SightingsAdvance ==
    [][~ ResetSessionData =>
          \A p \in Pids : \A k \in DOMAIN table[p].known :
             /\ k \in DOMAIN table'[p].known
             /\ table'[p].known[k].first = table[p].known[k].first
             /\ table'[p].known[k].last >= table[p].known[k].last]_vars

NewerThanSightings(at) ==
    \A p \in Pids : \A k \in DOMAIN table[p].known : table[p].known[k].last < at

\* Test polling_reconciliation_repairs_missing_process_state: when the tick
\* has reconciled with a list newer than everything recorded, the pids of the
\* list have an active process. The code retires the current process of a pid
\* before it finds the create event it was retired for stale; the index keeps
\* pointing at it, the listing matches it, and it is never active again.
PollingRepairs ==
    [][\A listing \in Lists, at \in Times :
          ReconcileProcesses(listing, at) /\ NewerThanSightings(at)
             => \A p \in DOMAIN listing : Active(table'[p]) # {}]_vars

\* A sighting that gives its creation time never displaces the current process
\* of a pid by one created before it, whether the older process is named by a
\* late create event or by a listing whose time is cut to the second.
YoungerStays ==
    [][(ApplyEvent => Head(queue).identity.created # NoTime) =>
          \A p \in Pids : \A k \in Active(table[p]), j \in Active(table'[p]) :
             \/ NoTime \in {table[p].known[k].identity.created, table'[p].known[j].identity.created}
             \/ table'[p].known[j].identity.created >= table[p].known[k].identity.created]_vars
=============================================================================

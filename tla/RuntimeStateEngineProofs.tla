----------------------- MODULE RuntimeStateEngineProofs -----------------------
(***************************************************************************)
(* The process table is sound for every set of pids and identities, every  *)
(* queue capacity and every order of events: an active process is always   *)
(* the current one of its pid, and sightings only advance.                 *)
(*                                                                         *)
(* Every operation treats pids apart, so the work is in one lemma for each *)
(* of the effects a sighting has on a pid: from a sound pid it gives a     *)
(* sound pid, whose known processes are those of before and only advance.  *)
(***************************************************************************)
EXTENDS RuntimeStateEngine, TLAPS

SoundEntry(entry) == entry \in Entries /\ entry.first <= entry.last

\* What every pid satisfies at every step.
Sound(proc) == WellFormed(proc) /\ Active(proc) \subseteq {proc.current}

Advances(proc, next) ==
    \A k \in DOMAIN proc.known :
       /\ k \in DOMAIN next.known
       /\ next.known[k].first = proc.known[k].first
       /\ next.known[k].last >= proc.known[k].last

Effect(proc, next) == Sound(next) /\ Advances(proc, next)

-----------------------------------------------------------------------------
(* Entries *)

\* Filling in the missing fields of an identity gives an identity.
LEMMA MergeIsIdentity ==
    ASSUME NEW x \in Identities, NEW y \in Identities
    PROVE  MergeMissingFields(x, y) \in Identities
BY DEF MergeMissingFields, Identities

LEMMA LaterIsTime ==
    ASSUME NEW x \in Times, NEW y \in Times
    PROVE  Later(x, y) \in Times /\ Later(x, y) >= x /\ Later(x, y) >= y
BY EngineAssumption DEF Later, Times

\* The table of one pid is assembled from sound entries.
LEMMA SoundParts ==
    ASSUME NEW known, NEW current,
           DOMAIN known \subseteq Identities,
           known = [k \in DOMAIN known |-> known[k]],
           \A k \in DOMAIN known : SoundEntry(known[k]),
           current \in DOMAIN known \cup {NoKey},
           \A k \in DOMAIN known : known[k].active => k = current
    PROVE  Sound([known |-> known, current |-> current])
BY DEF Sound, WellFormed, Active, SoundEntry

LEMMA PartsSound ==
    ASSUME NEW proc, Sound(proc)
    PROVE  /\ proc = [known |-> proc.known, current |-> proc.current]
           /\ DOMAIN proc.known \subseteq Identities
           /\ proc.known = [k \in DOMAIN proc.known |-> proc.known[k]]
           /\ \A k \in DOMAIN proc.known : SoundEntry(proc.known[k])
           /\ proc.current \in DOMAIN proc.known \cup {NoKey}
           /\ \A k \in DOMAIN proc.known : proc.known[k].active => k = proc.current
BY DEF Sound, WellFormed, Active, SoundEntry

LEMMA Unchanged ==
    ASSUME NEW proc, Sound(proc)
    PROVE  Effect(proc, proc)
<1>1. \A k \in DOMAIN proc.known : proc.known[k] \in Entries
  BY PartsSound DEF SoundEntry
<1>2. \A k \in DOMAIN proc.known : proc.known[k].last \in Nat
  BY <1>1 DEF Entries, Times
<1>3. Advances(proc, proc)
  BY <1>2 DEF Advances
<1> QED BY <1>3 DEF Effect

-----------------------------------------------------------------------------
(* The effects of a sighting *)

\* Changing one known entry into a sound one that advances it, when no other
\* process of the pid is left active but the current one.
LEMMA UpdateEntry ==
    ASSUME NEW proc, Sound(proc), NEW key \in DOMAIN proc.known, NEW entry,
           SoundEntry(entry),
           entry.first = proc.known[key].first, entry.last >= proc.known[key].last,
           NEW current \in DOMAIN proc.known \cup {NoKey},
           entry.active => current = key,
           current # proc.current => key = proc.current
    PROVE  Effect(proc, [known |-> [proc.known EXCEPT ![key] = entry],
                         current |-> current])
<1> DEFINE known == [proc.known EXCEPT ![key] = entry]
<1> DEFINE next == [known |-> known, current |-> current]
<1>0. /\ proc.known = [k \in DOMAIN proc.known |-> proc.known[k]]
      /\ DOMAIN proc.known \subseteq Identities
      /\ \A k \in DOMAIN proc.known : SoundEntry(proc.known[k])
      /\ \A k \in DOMAIN proc.known : proc.known[k].active => k = proc.current
  BY PartsSound
<1>1. /\ DOMAIN known = DOMAIN proc.known
      /\ known[key] = entry
      /\ \A k \in DOMAIN proc.known \ {key} : known[k] = proc.known[k]
      /\ known = [k \in DOMAIN known |-> known[k]]
  BY <1>0
<1> HIDE DEF known
<1>2. \A k \in DOMAIN known : SoundEntry(known[k])
  BY <1>0, <1>1
<1>3. \A k \in DOMAIN known : known[k].active => k = current
  BY <1>0, <1>1
<1>4. Sound(next)
  BY <1>0, <1>1, <1>2, <1>3, SoundParts
<1>5. \A k \in DOMAIN proc.known : proc.known[k].last \in Nat
  BY <1>0 DEF SoundEntry, Entries, Times
<1>6. Advances(proc, next)
  BY <1>1, <1>5 DEF Advances
<1> QED BY <1>4, <1>6 DEF Effect, known

\* Retiring the current process of a pid.
LEMMA RetireEffect ==
    ASSUME NEW proc, Sound(proc), proc.current # NoKey
    PROVE  /\ Effect(proc, [known |-> Retired(proc), current |-> proc.current])
           /\ DOMAIN Retired(proc) = DOMAIN proc.known
           /\ \A k \in DOMAIN proc.known : ~ Retired(proc)[k].active
<1> DEFINE key == proc.current
<1> DEFINE entry == [proc.known[key] EXCEPT !.active = FALSE]
<1>0. /\ proc.known = [k \in DOMAIN proc.known |-> proc.known[k]]
      /\ key \in DOMAIN proc.known
      /\ SoundEntry(proc.known[key])
      /\ \A k \in DOMAIN proc.known : proc.known[k].active => k = key
  BY PartsSound
<1>1. /\ entry \in Entries /\ entry.active = FALSE
      /\ entry.first = proc.known[key].first /\ entry.last = proc.known[key].last
      /\ entry.first <= entry.last
      /\ entry.last \in Nat
  <2>1. proc.known[key] \in Entries /\ proc.known[key].first <= proc.known[key].last
    BY <1>0 DEF SoundEntry
  <2>2. entry \in Entries
    BY <2>1 DEF Entries
  <2>3. entry.active = FALSE
    BY <2>1 DEF Entries
  <2>4. entry.first = proc.known[key].first /\ entry.last = proc.known[key].last
    BY <2>1 DEF Entries
  <2>5. proc.known[key].last \in Nat
    BY <2>1 DEF Entries, Times
  <2> QED BY <2>1, <2>2, <2>3, <2>4, <2>5
<1>2. Retired(proc) = [proc.known EXCEPT ![key] = entry]
  BY <1>0 DEF Retired
<1> HIDE DEF entry
<1>5. SoundEntry(entry) /\ ~ entry.active /\ entry.last >= proc.known[key].last
  BY <1>1 DEF SoundEntry
<1>3. Effect(proc, [known |-> Retired(proc), current |-> key])
  BY <1>0, <1>1, <1>2, <1>5, UpdateEntry
<1>4. /\ DOMAIN Retired(proc) = DOMAIN proc.known
      /\ \A k \in DOMAIN proc.known : ~ Retired(proc)[k].active
  BY <1>0, <1>2, <1>5
<1> QED BY <1>3, <1>4

\* The key a sighting resolves to.
LEMMA ResolvedKey ==
    ASSUME NEW proc, Sound(proc), NEW id \in Identities
    PROVE  /\ ResolveIdentityKey(proc, id) \in Identities
           /\ ResolveIdentityKey(proc, id) \in DOMAIN proc.known \cup {id}
BY PartsSound DEF ResolveIdentityKey

LEMMA CreateEffect ==
    ASSUME NEW proc, Sound(proc), NEW id \in Identities, NEW at \in Times
    PROVE  Effect(proc, ApplyCreate(proc, id, at))
<1> DEFINE key == ResolveIdentityKey(proc, id)
<1> DEFINE retired == IF proc.current \in {NoKey, key} THEN proc.known ELSE Retired(proc)
<1> DEFINE entry == IF key \in DOMAIN retired THEN Refreshed(retired[key], id, at)
                                              ELSE Fresh(id, at)
<1> DEFINE known == [k \in DOMAIN retired \cup {key} |->
                        IF k = key THEN entry ELSE retired[k]]
<1> DEFINE seen == [known |-> known, current |-> key]
<1>0. /\ key \in Identities
      /\ DOMAIN proc.known \subseteq Identities
      /\ \A k \in DOMAIN proc.known : proc.known[k].active => k = proc.current
      /\ proc = [known |-> proc.known, current |-> proc.current]
      /\ proc.current \in DOMAIN proc.known \cup {NoKey}
  BY PartsSound, ResolvedKey
<1>1. /\ Effect(proc, [known |-> retired, current |-> proc.current])
      /\ DOMAIN retired = DOMAIN proc.known
      /\ \A k \in DOMAIN retired : retired[k].active => k = key
  <2>1. CASE proc.current \in {NoKey, key}
    <3>1. \A k \in DOMAIN proc.known : k # NoKey
      BY <1>0, EngineAssumption
    <3> QED BY <2>1, <3>1, <1>0, Unchanged
  <2>2. CASE proc.current \notin {NoKey, key}
    BY <2>2, RetireEffect
  <2> QED BY <2>1, <2>2
<1>2. /\ retired = [k \in DOMAIN retired |-> retired[k]]
      /\ \A k \in DOMAIN retired : SoundEntry(retired[k])
  BY <1>1, PartsSound DEF Effect
<1> HIDE DEF key, retired
<1>3. CASE IsOlder(proc, key, id)
  BY <1>3, Unchanged DEF ApplyCreate, key
<1>4. CASE ~ IsOlder(proc, key, id) /\ key \in DOMAIN retired /\ IsStale(retired[key], at)
  <2>1. ApplyCreate(proc, id, at) = [proc EXCEPT !.known = retired]
    BY <1>4 DEF ApplyCreate, key, retired
  <2>2. [proc EXCEPT !.known = retired] = [known |-> retired, current |-> proc.current]
    BY <1>0
  <2> QED BY <2>1, <2>2, <1>1
<1>5. CASE ~ IsOlder(proc, key, id) /\ ~ (key \in DOMAIN retired /\ IsStale(retired[key], at))
  <2>1. ApplyCreate(proc, id, at) = seen
    BY <1>5 DEF ApplyCreate, key, retired
  <2>2. SoundEntry(entry)
    <3>1. CASE key \in DOMAIN retired
      <4>1. retired[key] \in Entries /\ retired[key].first <= at
        BY <1>2, <1>5, <3>1 DEF SoundEntry, Entries, IsStale, Times
      <4>2. MergeMissingFields(retired[key].identity, id) \in Identities
        BY <4>1, MergeIsIdentity DEF Entries
      <4> QED BY <3>1, <4>1, <4>2 DEF SoundEntry, Entries, Refreshed
    <3>2. CASE key \notin DOMAIN retired
      BY <3>2 DEF SoundEntry, Entries, Fresh, Times
    <3> QED BY <3>1, <3>2
  <2>3. key \in DOMAIN retired => entry.first = retired[key].first /\ entry.last >= retired[key].last
    BY <1>2, <1>5 DEF SoundEntry, Entries, Refreshed, IsStale, Times
  <2> HIDE DEF entry
  <2>4. /\ DOMAIN known = DOMAIN retired \cup {key}
        /\ known[key] = entry
        /\ \A k \in DOMAIN retired \ {key} : known[k] = retired[k]
        /\ known = [k \in DOMAIN known |-> known[k]]
    OBVIOUS
  <2> HIDE DEF known
  <2>5. /\ DOMAIN known \subseteq Identities
        /\ \A k \in DOMAIN known : SoundEntry(known[k])
    BY <1>0, <1>1, <1>2, <2>2, <2>4
  <2>6. \A k \in DOMAIN known : known[k].active => k = key
    BY <1>1, <2>4
  <2>7. Sound(seen)
    BY <2>4, <2>5, <2>6, SoundParts
  <2>8. Advances([known |-> retired, current |-> proc.current], seen)
    <3>1. \A k \in DOMAIN retired : retired[k].last \in Nat
      BY <1>2 DEF SoundEntry, Entries, Times
    <3> QED BY <3>1, <2>3, <2>4 DEF Advances
  <2>9. \A k \in DOMAIN proc.known :
           /\ proc.known[k].last \in Nat /\ retired[k].last \in Nat
           /\ known[k].last \in Nat
    <3>1. \A e : SoundEntry(e) => e.last \in Nat
      BY DEF SoundEntry, Entries, Times
    <3>2. \A k \in DOMAIN proc.known : SoundEntry(proc.known[k])
      BY PartsSound
    <3> QED BY <1>1, <1>2, <2>4, <2>5, <3>1, <3>2
  <2>10. Advances(proc, seen)
    BY <1>1, <2>8, <2>9 DEF Effect, Advances
  <2> QED BY <2>1, <2>7, <2>10 DEF Effect
<1> QED BY <1>3, <1>4, <1>5

\* The exit of a known process, which is also what an unlisted pid undergoes.
LEMMA EndEffect ==
    ASSUME NEW proc, Sound(proc), NEW key \in DOMAIN proc.known, NEW at \in Times,
           NEW current,
           current = IF proc.current = key THEN NoKey ELSE proc.current
    PROVE  Effect(proc, [known   |-> [proc.known EXCEPT ![key].active = FALSE,
                                                        ![key].last = Later(at, @)],
                         current |-> current])
<1> DEFINE ended == [proc.known EXCEPT ![key].active = FALSE,
                                       ![key].last = Later(at, @)]
<1> DEFINE entry == [proc.known[key] EXCEPT !.active = FALSE, !.last = Later(at, @)]
<1>1. /\ proc.known[key] \in Entries /\ proc.known[key].first <= proc.known[key].last
      /\ proc.known = [k \in DOMAIN proc.known |-> proc.known[k]]
      /\ proc.current \in DOMAIN proc.known \cup {NoKey}
  BY PartsSound DEF SoundEntry
<1>2. /\ Later(at, proc.known[key].last) \in Times
      /\ Later(at, proc.known[key].last) >= proc.known[key].last
  BY <1>1, LaterIsTime DEF Entries
<1>3. entry \in Entries
  BY <1>1, <1>2 DEF Entries
<1>4. entry.active = FALSE
  BY <1>1 DEF Entries
<1>5. entry.first = proc.known[key].first /\ entry.last = Later(at, proc.known[key].last)
  BY <1>1 DEF Entries
<1>6. proc.known[key].first \in Nat /\ proc.known[key].last \in Nat
      /\ Later(at, proc.known[key].last) \in Nat
  BY <1>1, <1>2 DEF Entries, Times
<1>7. ended = [proc.known EXCEPT ![key] = entry]
  BY <1>1
<1> HIDE DEF entry, ended
<1>8. entry.first <= entry.last /\ entry.last >= proc.known[key].last
  BY <1>1, <1>2, <1>5, <1>6
<1>9. SoundEntry(entry) /\ (entry.active => current = key)
  BY <1>3, <1>4, <1>8 DEF SoundEntry
<1>10. current \in DOMAIN proc.known \cup {NoKey}
  BY <1>1
<1>11. current # proc.current => key = proc.current
  OBVIOUS
<1>12. Effect(proc, [known |-> [proc.known EXCEPT ![key] = entry], current |-> current])
  BY <1>5, <1>8, <1>9, <1>10, <1>11, UpdateEntry
<1> QED BY <1>7, <1>12 DEF ended

LEMMA ExitEffect ==
    ASSUME NEW proc, Sound(proc), NEW id \in Identities, NEW at \in Times
    PROVE  Effect(proc, ApplyExit(proc, id, at))
<1> DEFINE resolved == ResolveIdentityKey(proc, id)
<1> DEFINE key == IF resolved \in DOMAIN proc.known THEN resolved ELSE proc.current
<1> DEFINE current == IF proc.current = key THEN NoKey ELSE proc.current
<1>1. key \in DOMAIN proc.known \cup {NoKey}
  BY PartsSound
<1>2. CASE key = NoKey \/ (key # NoKey /\ at < proc.known[key].first)
  BY <1>2, Unchanged DEF ApplyExit
<1>3. CASE ~ (key = NoKey \/ (key # NoKey /\ at < proc.known[key].first))
  <2>1. key \in DOMAIN proc.known
    BY <1>1, <1>3
  <2>2. ApplyExit(proc, id, at) =
           [known   |-> [proc.known EXCEPT ![key].active = FALSE,
                                           ![key].last = Later(at, @)],
            current |-> current]
    BY <1>3 DEF ApplyExit
  <2> HIDE DEF key
  <2> QED BY <2>1, <2>2, EndEffect
<1> QED BY <1>2, <1>3

LEMMA UnlistedEffect ==
    ASSUME NEW proc, Sound(proc), NEW at \in Times
    PROVE  Effect(proc, Unlisted(proc, at)) /\ Active(Unlisted(proc, at)) = {}
<1>1. /\ proc.current \in DOMAIN proc.known \cup {NoKey}
      /\ DOMAIN proc.known \subseteq Identities
  BY PartsSound
<1>2. Effect(proc, Unlisted(proc, at))
  <2>1. CASE proc.current = NoKey
    BY <2>1, Unchanged DEF Unlisted
  <2>2. CASE proc.current # NoKey
    <3>1. Unlisted(proc, at) =
             [known   |-> [proc.known EXCEPT ![proc.current].active = FALSE,
                                             ![proc.current].last = Later(at, @)],
              current |-> NoKey]
      BY <2>2 DEF Unlisted
    <3> QED BY <1>1, <2>2, <3>1, EndEffect
  <2> QED BY <2>1, <2>2
<1>3. Unlisted(proc, at).current = NoKey
  BY DEF Unlisted
<1>4. NoKey \notin DOMAIN Unlisted(proc, at).known
  BY <1>2, PartsSound, EngineAssumption DEF Effect
<1>5. Active(Unlisted(proc, at)) \subseteq {NoKey}
  BY <1>2, <1>3 DEF Effect, Sound
<1>6. Active(Unlisted(proc, at)) = {}
  BY <1>4, <1>5 DEF Active
<1> QED BY <1>2, <1>6

LEMMA ListedEffect ==
    ASSUME NEW proc, Sound(proc), NEW id \in Identities, NEW at \in Times
    PROVE  Effect(proc, Listed(proc, id, at))
<1>1. CASE ~ Matches(proc, id)
  BY <1>1, CreateEffect DEF Listed
<1>2. CASE Matches(proc, id)
  <2> DEFINE key == proc.current
  <2> DEFINE old == proc.known[key]
  <2> DEFINE entry == [old EXCEPT !.identity = MergeMissingFields(@, id),
                                  !.last = Later(at, @)]
  <2>1. /\ key \in DOMAIN proc.known
        /\ proc = [known |-> proc.known, current |-> proc.current]
        /\ proc.known = [k \in DOMAIN proc.known |-> proc.known[k]]
        /\ old \in Entries /\ old.first <= old.last
    BY <1>2, PartsSound DEF Matches, SoundEntry
  <2>2. /\ Later(at, old.last) \in Times /\ Later(at, old.last) >= old.last
        /\ MergeMissingFields(old.identity, id) \in Identities
    BY <2>1, LaterIsTime, MergeIsIdentity DEF Entries
  <2>3. entry \in Entries
    BY <2>1, <2>2 DEF Entries
  <2>4. entry.first = old.first /\ entry.last = Later(at, old.last)
    BY <2>1 DEF Entries
  <2>5. old.first \in Nat /\ old.last \in Nat /\ Later(at, old.last) \in Nat
    BY <2>1, <2>2 DEF Entries, Times
  <2>6. Listed(proc, id, at) = [known |-> [proc.known EXCEPT ![key] = entry], current |-> key]
    BY <1>2, <2>1 DEF Listed
  <2> HIDE DEF entry
  <2>7. SoundEntry(entry) /\ entry.last >= old.last
    BY <2>1, <2>2, <2>3, <2>4, <2>5 DEF SoundEntry
  <2> QED BY <2>1, <2>4, <2>6, <2>7, UpdateEntry
<1> QED BY <1>1, <1>2

-----------------------------------------------------------------------------
(* The steps *)

IInv == TypeOK /\ ActiveIsCurrent

LEMMA InvariantIsSound ==
    ASSUME IInv
    PROVE  /\ \A p \in Pids : Sound(table[p])
           /\ table = [p \in Pids |-> table[p]]
BY DEF IInv, TypeOK, ActiveIsCurrent, Sound

\* A pid nothing is known about.
LEMMA UnknownIsSound == Sound(Unknown)
<1> DEFINE none == << >>
<1>1. DOMAIN none = {} /\ none = [k \in DOMAIN none |-> none[k]]
  OBVIOUS
<1> HIDE DEF none
<1>2. Sound([known |-> none, current |-> NoKey])
  BY <1>1, SoundParts
<1> QED BY <1>2 DEF Unknown, none

LEMMA InitInvariant == Init => IInv
<1> SUFFICES ASSUME Init PROVE IInv
  OBVIOUS
<1>1. \A p \in Pids : table[p] = Unknown
  BY DEF Init
<1>2. table = [p \in Pids |-> table[p]]
  BY DEF Init
<1>3. \A p \in Pids : WellFormed(table[p]) /\ Active(table[p]) \subseteq {table[p].current}
  BY <1>1, UnknownIsSound DEF Sound
<1>4. /\ queue \in Seq(Events) /\ Len(queue) <= QueueCapacity
      /\ stage \in {"submitting", "draining"}
  BY EngineAssumption DEF Init
<1> QED BY <1>2, <1>3, <1>4 DEF IInv, TypeOK, ActiveIsCurrent

TableStep ==
    /\ table' = [p \in Pids |-> table'[p]]
    /\ \A p \in Pids : Effect(table[p], table'[p])

LEMMA ApplyEventTable ==
    ASSUME IInv, ApplyEvent PROVE TableStep
<1> DEFINE event == Head(queue)
<1> DEFINE after(proc) == IF event.kind = "created"
                          THEN ApplyCreate(proc, event.identity, event.at)
                          ELSE ApplyExit(proc, event.identity, event.at)
<1>1. event \in Events
  BY DEF IInv, TypeOK, ApplyEvent
<1>2. event.pid \in Pids /\ event.identity \in Identities /\ event.at \in Times
  BY <1>1, EngineAssumption DEF Events
<1>3. table' = [table EXCEPT ![event.pid] = after(@)]
  BY DEF ApplyEvent
<1>4. \A p \in Pids : Sound(table[p])
  BY InvariantIsSound
<1>5. Effect(table[event.pid], after(table[event.pid]))
  BY <1>2, <1>4, CreateEffect, ExitEffect
<1> HIDE DEF after, event
<1>6. /\ table' = [p \in Pids |-> table'[p]]
      /\ table'[event.pid] = after(table[event.pid])
      /\ \A p \in Pids \ {event.pid} : table'[p] = table[p]
  BY <1>2, <1>3, InvariantIsSound
<1>7. \A p \in Pids : Effect(table[p], table'[p])
  BY <1>4, <1>5, <1>6, Unchanged
<1> QED BY <1>6, <1>7 DEF TableStep

LEMMA ReconcileTable ==
    ASSUME IInv, NEW listing \in Lists, NEW at \in Times,
           ReconcileProcesses(listing, at)
    PROVE  /\ TableStep
           /\ \A p \in Pids \ DOMAIN listing : Active(table'[p]) = {}
<1>1. \A p \in DOMAIN listing : listing[p] \in Identities
  BY EngineAssumption DEF Lists
<1>2. \A p \in Pids : Sound(table[p])
  BY InvariantIsSound
<1>3. /\ table' = [p \in Pids |-> table'[p]]
      /\ \A p \in Pids : table'[p] = IF p \in DOMAIN listing
                                     THEN Listed(table[p], listing[p], at)
                                     ELSE Unlisted(table[p], at)
  BY DEF ReconcileProcesses
<1>4. \A p \in Pids : Effect(table[p], table'[p])
  BY <1>1, <1>2, <1>3, ListedEffect, UnlistedEffect
<1>5. \A p \in Pids \ DOMAIN listing : Active(table'[p]) = {}
  BY <1>2, <1>3, UnlistedEffect
<1> QED BY <1>3, <1>4, <1>5 DEF TableStep

\* Every step but a reset leaves each pid sound and only advances it.
LEMMA StepTable ==
    ASSUME IInv, [Next]_vars PROVE ResetSessionData \/ TableStep
<1>1. CASE UNCHANGED table
  <2>1. \A p \in Pids : table'[p] = table[p]
    BY <1>1
  <2> QED BY <1>1, <2>1, InvariantIsSound, Unchanged DEF TableStep
<1>2. CASE ApplyEvent
  BY <1>2, ApplyEventTable
<1>3. CASE \E listing \in Lists, at \in Times : ReconcileProcesses(listing, at)
  BY <1>3, ReconcileTable
<1> QED BY <1>1, <1>2, <1>3 DEF Next, vars, SubmitProcessEvent

LEMMA QueueStep ==
    ASSUME IInv, [Next]_vars
    PROVE  /\ queue' \in Seq(Events) /\ Len(queue') <= QueueCapacity
           /\ stage' \in {"submitting", "draining"}
<1> USE EngineAssumption DEF IInv, TypeOK
<1>1. ASSUME NEW event \in Events, SubmitProcessEvent(event)
      PROVE  /\ queue' \in Seq(Events) /\ Len(queue') <= QueueCapacity
             /\ stage' \in {"submitting", "draining"}
  <2>1. CASE Len(queue) >= QueueCapacity
    <3>1. /\ queue # << >> /\ Tail(queue) \in Seq(Events)
          /\ Len(Tail(queue)) = Len(queue) - 1
      BY <2>1
    <3>2. queue' = Append(Tail(queue), event) /\ stage' = stage
      BY <1>1, <2>1 DEF SubmitProcessEvent
    <3>3. queue' \in Seq(Events) /\ Len(queue') = Len(queue)
      BY <3>1, <3>2
    <3> QED BY <3>2, <3>3
  <2>2. CASE ~ (Len(queue) >= QueueCapacity)
    BY <1>1, <2>2 DEF SubmitProcessEvent
  <2> QED BY <2>1, <2>2
<1>2. ASSUME ApplyEvent
      PROVE  /\ queue' \in Seq(Events) /\ Len(queue') <= QueueCapacity
             /\ stage' \in {"submitting", "draining"}
  BY <1>2 DEF ApplyEvent
<1>3. ASSUME NEW listing \in Lists, NEW at \in Times, ReconcileProcesses(listing, at)
      PROVE  /\ queue' \in Seq(Events) /\ Len(queue') <= QueueCapacity
             /\ stage' \in {"submitting", "draining"}
  BY <1>3 DEF ReconcileProcesses
<1>4. CASE ResetSessionData
  BY <1>4 DEF ResetSessionData
<1>5. CASE UNCHANGED vars
  BY <1>5 DEF vars
<1> QED BY <1>1, <1>2, <1>3, <1>4, <1>5 DEF Next

LEMMA NextInvariant == IInv /\ [Next]_vars => IInv'
<1> SUFFICES ASSUME IInv, [Next]_vars PROVE IInv'
  OBVIOUS
<1>1. /\ table' = [p \in Pids |-> table'[p]]
      /\ \A p \in Pids : Sound(table'[p])
  <2>1. CASE ResetSessionData
    <3>1. \A p \in Pids : table'[p] = Unknown
      BY <2>1 DEF ResetSessionData
    <3> QED BY <2>1, <3>1, UnknownIsSound DEF ResetSessionData
  <2>2. CASE TableStep
    BY <2>2 DEF TableStep, Effect
  <2> QED BY <2>1, <2>2, StepTable
<1> QED BY <1>1, QueueStep DEF IInv, TypeOK, ActiveIsCurrent, Sound

-----------------------------------------------------------------------------
(* Creation times *)

\* An entry never loses the creation time it was first recorded with.
TimesKept(proc) ==
    \A k \in DOMAIN proc.known : k.created # NoTime => proc.known[k].identity.created = k.created

\* No active process of the pid gives way to one created before it.
NotOlder(proc, next) ==
    \A k \in Active(proc), j \in Active(next) :
       \/ NoTime \in {proc.known[k].identity.created, next.known[j].identity.created}
       \/ next.known[j].identity.created >= proc.known[k].identity.created

KnownTimes == \A p \in Pids : TimesKept(table[p])

LEMMA MergeKeepsTime ==
    ASSUME NEW x \in Identities, NEW y \in Identities
    PROVE  /\ x.created # NoTime => MergeMissingFields(x, y).created = x.created
           /\ x.created = NoTime => MergeMissingFields(x, y).created = y.created
BY DEF MergeMissingFields, Identities

LEMMA TimeTypes ==
    ASSUME NEW proc, Sound(proc)
    PROVE  \A k \in DOMAIN proc.known :
              /\ k \in Identities /\ proc.known[k].identity \in Identities
              /\ proc.known[k].identity.created \in Nat \cup {NoTime}
              /\ k # NoKey
<1>1. \A k \in DOMAIN proc.known : k \in Identities /\ proc.known[k] \in Entries
  BY PartsSound DEF SoundEntry
<1>2. \A i \in Identities : i.created \in Nat \cup {NoTime}
  BY DEF Identities
<1> QED BY <1>1, <1>2, EngineAssumption DEF Entries

\* Processes that keep their identities and are only retired.
LEMMA RetiredNotOlder ==
    ASSUME NEW proc, Sound(proc), NEW next,
           DOMAIN next.known = DOMAIN proc.known,
           \A k \in DOMAIN proc.known :
              /\ next.known[k].identity.created \in {proc.known[k].identity.created}
              /\ next.known[k].active => proc.known[k].active
    PROVE  (TimesKept(proc) => TimesKept(next)) /\ NotOlder(proc, next)
<1>1. TimesKept(proc) => TimesKept(next)
  BY DEF TimesKept
<1>2. ASSUME NEW k \in Active(proc), NEW j \in Active(next)
      PROVE  \/ NoTime \in {proc.known[k].identity.created, next.known[j].identity.created}
             \/ next.known[j].identity.created >= proc.known[k].identity.created
  <2>1. k = proc.current /\ j = proc.current /\ k \in DOMAIN proc.known
    BY <1>2 DEF Active, Sound
  <2>2. next.known[j].identity.created = proc.known[k].identity.created
    BY <2>1
  <2>3. proc.known[k].identity.created \in Nat \cup {NoTime}
    BY <2>1, TimeTypes
  <2> QED BY <2>2, <2>3
<1> QED BY <1>1, <1>2 DEF NotOlder

LEMMA CreateNotOlder ==
    ASSUME NEW proc, Sound(proc), NEW id \in Identities, NEW at \in Times, TimesKept(proc)
    PROVE  LET next == ApplyCreate(proc, id, at) IN
           TimesKept(next) /\ (id.created # NoTime => NotOlder(proc, next))
<1> DEFINE next == ApplyCreate(proc, id, at)
           key == ResolveIdentityKey(proc, id)
           retired == IF proc.current \in {NoKey, key} THEN proc.known ELSE Retired(proc)
           entry == IF key \in DOMAIN retired THEN Refreshed(retired[key], id, at)
                                              ELSE Fresh(id, at)
           known == [k \in DOMAIN retired \cup {key} |-> IF k = key THEN entry ELSE retired[k]]
<1>1. /\ proc = [known |-> proc.known, current |-> proc.current]
      /\ proc.known = [k \in DOMAIN proc.known |-> proc.known[k]]
      /\ proc.current \in DOMAIN proc.known \cup {NoKey}
      /\ \A k \in DOMAIN proc.known : proc.known[k] \in Entries
      /\ \A k \in DOMAIN proc.known : proc.known[k].active => k = proc.current
  BY PartsSound DEF SoundEntry
<1>2. key \in {id, proc.current} /\ (key # id => key \in DOMAIN proc.known) /\ key \in Identities
  BY <1>1, ResolvedKey DEF ResolveIdentityKey
<1>3. /\ DOMAIN retired = DOMAIN proc.known
      /\ \A k \in DOMAIN proc.known :
            /\ retired[k].identity = proc.known[k].identity
            /\ retired[k].active => proc.known[k].active
            /\ retired[k] \in Entries
  <2>1. CASE proc.current \in {NoKey, key}
    BY <2>1, <1>1
  <2>2. CASE proc.current \notin {NoKey, key}
    <3>1. proc.current \in DOMAIN proc.known /\ retired = Retired(proc)
      BY <2>2, <1>1
    <3>2. /\ retired[proc.current] = [proc.known[proc.current] EXCEPT !.active = FALSE]
          /\ \A k \in DOMAIN proc.known \ {proc.current} : retired[k] = proc.known[k]
          /\ DOMAIN retired = DOMAIN proc.known
      BY <3>1, <1>1 DEF Retired
    <3>3. \A e \in Entries : /\ [e EXCEPT !.active = FALSE] \in Entries
                             /\ [e EXCEPT !.active = FALSE].identity = e.identity
                             /\ [e EXCEPT !.active = FALSE].active = FALSE
      BY DEF Entries
    <3> HIDE DEF retired
    <3>4. /\ retired[proc.current] \in Entries
          /\ retired[proc.current].identity = proc.known[proc.current].identity
          /\ retired[proc.current].active = FALSE
      BY <3>1, <3>2, <3>3, <1>1
    <3> QED BY <3>1, <3>2, <3>4, <1>1
  <2> QED BY <2>1, <2>2
<1> HIDE DEF key, retired
<1>4. CASE IsOlder(proc, key, id)
  <2>1. next = proc
    BY <1>4 DEF ApplyCreate, key
  <2> HIDE DEF next
  <2> QED BY <2>1, RetiredNotOlder DEF next
<1>5. CASE ~ IsOlder(proc, key, id) /\ key \in DOMAIN retired /\ IsStale(retired[key], at)
  <2>1. next = [proc EXCEPT !.known = retired]
    BY <1>5 DEF ApplyCreate, key, retired
  <2>2. next.known = retired
    BY <2>1, <1>1
  <2> HIDE DEF next
  <2> QED BY <2>2, <1>3, RetiredNotOlder DEF next
<1>6. CASE ~ IsOlder(proc, key, id) /\ ~ (key \in DOMAIN retired /\ IsStale(retired[key], at))
  <2>1. next = [known |-> known, current |-> key]
    BY <1>6 DEF ApplyCreate, key, retired
  <2>2. /\ key \in DOMAIN proc.known =>
              entry.identity = MergeMissingFields(proc.known[key].identity, id)
        /\ key \notin DOMAIN proc.known => entry.identity = id
    <3>1. CASE key \in DOMAIN proc.known
      <4>1. retired[key] \in Entries /\ retired[key].identity = proc.known[key].identity
        BY <1>3, <3>1
      <4>2. entry = Refreshed(retired[key], id, at)
        BY <1>3, <3>1
      <4> QED BY <3>1, <4>1, <4>2 DEF Refreshed, Entries
    <3>2. CASE key \notin DOMAIN proc.known
      BY <1>3, <3>2 DEF Fresh
    <3> QED BY <3>1, <3>2
  <2> HIDE DEF entry
  <2>3. /\ next.known = known /\ DOMAIN known = DOMAIN proc.known \cup {key}
        /\ known[key] = entry
        /\ \A k \in DOMAIN proc.known \ {key} : known[k] = retired[k]
    BY <2>1, <1>3
  <2> HIDE DEF known, next
  <2>4. \A k \in DOMAIN proc.known :
           /\ k \in Identities /\ proc.known[k].identity \in Identities
           /\ proc.known[k].identity.created \in Nat \cup {NoTime}
           /\ k # NoKey
    BY TimeTypes
  \* The creation time the entry has now.
  <2>5. /\ key.created # NoTime => entry.identity.created = key.created
        /\ key \in DOMAIN proc.known /\ proc.known[key].identity.created # NoTime =>
              entry.identity.created = proc.known[key].identity.created
    <3>1. CASE key \in DOMAIN proc.known
      <4>1. /\ proc.known[key].identity.created # NoTime =>
                  entry.identity.created = proc.known[key].identity.created
            /\ proc.known[key].identity.created = NoTime => entry.identity.created = id.created
        BY <2>2, <2>4, <3>1, MergeKeepsTime
      <4>2. key.created # NoTime => proc.known[key].identity.created = key.created
        BY <3>1 DEF TimesKept
      <4> QED BY <3>1, <4>1, <4>2
    <3>2. CASE key \notin DOMAIN proc.known
      BY <3>2, <2>2, <1>2
    <3> QED BY <3>1, <3>2
  <2>6. TimesKept(next)
    <3> SUFFICES ASSUME NEW k \in DOMAIN known, k.created # NoTime
                 PROVE  known[k].identity.created = k.created
      BY <2>3 DEF TimesKept
    <3>1. CASE k = key
      BY <3>1, <2>3, <2>5
    <3>2. CASE k # key
      BY <3>2, <2>3, <1>3 DEF TimesKept
    <3> QED BY <3>1, <3>2
  <2>7. ASSUME id.created # NoTime, NEW k \in Active(proc), NEW j \in Active(next),
               proc.known[k].identity.created # NoTime
        PROVE  next.known[j].identity.created >= proc.known[k].identity.created
    <3>1. k = proc.current /\ k \in DOMAIN proc.known /\ proc.known[k].identity.created \in Nat
      BY <2>7, <2>4, <1>1 DEF Active
    <3>2. j = key
      <4>1. Sound(next)
        BY CreateEffect DEF Effect, next
      <4> QED BY <4>1, <2>1, <2>7 DEF Sound
    <3>3. CASE key = proc.current
      <4>1. entry.identity.created = proc.known[k].identity.created
        BY <2>5, <2>7, <3>1, <3>3
      <4> QED BY <4>1, <3>1, <3>2, <2>3
    <3>4. CASE key # proc.current
      <4>1. key = id /\ entry.identity.created = id.created
        BY <1>2, <2>5, <2>7, <3>4
      <4>2. proc.current \notin {NoKey, key}
        BY <3>1, <3>4, <2>4
      <4>3. ~ id.created < proc.known[k].identity.created
        BY <1>6, <2>7, <3>1, <4>2 DEF IsOlder, Known
      <4>4. id.created \in Nat
        BY <2>7 DEF Identities
      <4> QED BY <4>1, <4>3, <4>4, <3>1, <3>2, <2>3
    <3> QED BY <3>3, <3>4
  <2> QED BY <2>6, <2>7 DEF NotOlder, next
<1> QED BY <1>4, <1>5, <1>6

LEMMA EndNotOlder ==
    ASSUME NEW proc, Sound(proc), NEW key \in DOMAIN proc.known, NEW last, NEW current
    PROVE  LET next == [known   |-> [proc.known EXCEPT ![key].active = FALSE, ![key].last = last],
                        current |-> current]
           IN  (TimesKept(proc) => TimesKept(next)) /\ NotOlder(proc, next)
<1> DEFINE known == [proc.known EXCEPT ![key].active = FALSE, ![key].last = last]
           next == [known |-> known, current |-> current]
<1>1. /\ proc.known = [k \in DOMAIN proc.known |-> proc.known[k]]
      /\ \A k \in DOMAIN proc.known : proc.known[k] \in Entries
  BY PartsSound DEF SoundEntry
<1>2. known[key] = [proc.known[key] EXCEPT !.active = FALSE, !.last = last]
  BY <1>1
<1>3. known[key].identity = proc.known[key].identity /\ known[key].active = FALSE
  BY <1>1, <1>2 DEF Entries
<1>4. DOMAIN known = DOMAIN proc.known /\ \A k \in DOMAIN proc.known \ {key} : known[k] = proc.known[k]
  BY <1>1
<1> HIDE DEF known
<1>5. next.known = known
  OBVIOUS
<1> HIDE DEF next
<1>6. (TimesKept(proc) => TimesKept(next)) /\ NotOlder(proc, next)
  BY <1>3, <1>4, <1>5, RetiredNotOlder
<1> QED BY <1>6 DEF next, known

LEMMA ExitNotOlder ==
    ASSUME NEW proc, Sound(proc), NEW id \in Identities, NEW at \in Times, TimesKept(proc)
    PROVE  TimesKept(ApplyExit(proc, id, at)) /\ NotOlder(proc, ApplyExit(proc, id, at))
<1> DEFINE resolved == ResolveIdentityKey(proc, id)
           key == IF resolved \in DOMAIN proc.known THEN resolved ELSE proc.current
           current == IF proc.current = key THEN NoKey ELSE proc.current
<1>1. key \in DOMAIN proc.known \cup {NoKey}
  BY PartsSound
<1>2. CASE key = NoKey \/ (key # NoKey /\ at < proc.known[key].first)
  <2>1. ApplyExit(proc, id, at) = proc
    BY <1>2 DEF ApplyExit
  <2> QED BY <2>1, RetiredNotOlder
<1>3. CASE ~ (key = NoKey \/ (key # NoKey /\ at < proc.known[key].first))
  <2> DEFINE last == Later(at, proc.known[key].last)
  <2>1. key \in DOMAIN proc.known
    BY <1>1, <1>3
  <2>2. ApplyExit(proc, id, at) =
           [known   |-> [proc.known EXCEPT ![key].active = FALSE, ![key].last = Later(at, @)],
            current |-> current]
    BY <1>3 DEF ApplyExit
  <2> HIDE DEF key
  <2>3. [proc.known EXCEPT ![key].active = FALSE, ![key].last = Later(at, @)]
           = [proc.known EXCEPT ![key].active = FALSE, ![key].last = last]
    BY <2>1, PartsSound DEF SoundEntry, Entries
  <2> QED BY <2>1, <2>2, <2>3, EndNotOlder
<1> QED BY <1>2, <1>3

LEMMA UnlistedNotOlder ==
    ASSUME NEW proc, Sound(proc), NEW at \in Times, TimesKept(proc)
    PROVE  TimesKept(Unlisted(proc, at)) /\ NotOlder(proc, Unlisted(proc, at))
<1>1. CASE proc.current = NoKey
  BY <1>1, RetiredNotOlder DEF Unlisted
<1>2. CASE proc.current # NoKey
  <2> DEFINE key == proc.current
             last == Later(at, proc.known[key].last)
  <2>1. key \in DOMAIN proc.known
    BY <1>2, PartsSound
  <2>2. Unlisted(proc, at) =
           [known   |-> [proc.known EXCEPT ![key].active = FALSE, ![key].last = Later(at, @)],
            current |-> NoKey]
    BY <1>2 DEF Unlisted
  <2>3. [proc.known EXCEPT ![key].active = FALSE, ![key].last = Later(at, @)]
           = [proc.known EXCEPT ![key].active = FALSE, ![key].last = last]
    BY <2>1, PartsSound DEF SoundEntry, Entries
  <2> QED BY <2>1, <2>2, <2>3, EndNotOlder
<1> QED BY <1>1, <1>2

\* A listing that matches the current process fills in its creation time if it had none.
LEMMA ListedNotOlder ==
    ASSUME NEW proc, Sound(proc), NEW id \in Identities, NEW at \in Times, TimesKept(proc)
    PROVE  /\ TimesKept(Listed(proc, id, at))
           /\ id.created # NoTime => NotOlder(proc, Listed(proc, id, at))
<1>1. CASE ~ Matches(proc, id)
  BY <1>1, CreateNotOlder DEF Listed
<1>2. CASE Matches(proc, id)
  <2> DEFINE key == proc.current
             next == Listed(proc, id, at)
             entry == [proc.known[key] EXCEPT !.identity = MergeMissingFields(@, id),
                                              !.last = Later(at, @)]
  <2>1. /\ key \in DOMAIN proc.known
        /\ proc = [known |-> proc.known, current |-> proc.current]
        /\ proc.known = [k \in DOMAIN proc.known |-> proc.known[k]]
        /\ proc.known[key] \in Entries
    BY <1>2, PartsSound DEF Matches, SoundEntry
  <2>2. /\ proc.known[key].identity \in Identities
        /\ entry.identity = MergeMissingFields(proc.known[key].identity, id)
    BY <2>1 DEF Entries
  <2>3. next.known = [proc.known EXCEPT ![key] = entry] /\ next.current = key
    BY <1>2, <2>1 DEF Listed
  <2> HIDE DEF entry
  <2>4. /\ DOMAIN next.known = DOMAIN proc.known /\ next.known[key] = entry
        /\ \A k \in DOMAIN proc.known \ {key} : next.known[k] = proc.known[k]
    BY <2>1, <2>3
  <2>5. proc.known[key].identity.created # NoTime =>
           entry.identity.created = proc.known[key].identity.created
    BY <2>2, MergeKeepsTime
  <2>6. \A k \in DOMAIN proc.known : proc.known[k].identity.created \in Nat \cup {NoTime}
    BY TimeTypes
  <2>7. Sound(next)
    BY ListedEffect DEF Effect
  <2> HIDE DEF next
  <2>8. TimesKept(next)
    BY <2>4, <2>5 DEF TimesKept
  <2>9. NotOlder(proc, next)
    <3> SUFFICES ASSUME NEW k \in Active(proc), NEW j \in Active(next),
                        proc.known[k].identity.created # NoTime
                 PROVE  next.known[j].identity.created >= proc.known[k].identity.created
      BY DEF NotOlder
    <3>1. k = key /\ j = key
      BY <2>3, <2>7 DEF Sound
    <3> QED BY <3>1, <2>1, <2>4, <2>5, <2>6
  <2> QED BY <2>8, <2>9 DEF next
<1> QED BY <1>1, <1>2

\* What every step does to the creation times of each pid.
LEMMA StepTimes ==
    ASSUME IInv, KnownTimes, [Next]_vars
    PROVE  /\ KnownTimes'
           /\ (ApplyEvent => Head(queue).identity.created # NoTime) =>
                 \A p \in Pids : NotOlder(table[p], table'[p])
<1>0. \A p \in Pids : Sound(table[p]) /\ TimesKept(table[p])
  BY InvariantIsSound DEF KnownTimes
<1>1. CASE UNCHANGED table
  <2>1. \A p \in Pids : table'[p] = table[p] /\ NotOlder(table[p], table[p])
    BY <1>0, <1>1, RetiredNotOlder
  <2> QED BY <1>0, <2>1 DEF KnownTimes
<1>2. CASE ResetSessionData
  <2>1. \A p \in Pids : table'[p] = Unknown
    BY <1>2 DEF ResetSessionData
  <2>2. DOMAIN Unknown.known = {}
    BY DEF Unknown
  <2>3. TimesKept(Unknown) /\ \A proc : NotOlder(proc, Unknown)
    BY <2>2 DEF TimesKept, NotOlder, Active
  <2> QED BY <2>1, <2>3 DEF KnownTimes
<1>3. CASE ApplyEvent
  <2> DEFINE event == Head(queue)
             after(proc) == IF event.kind = "created"
                            THEN ApplyCreate(proc, event.identity, event.at)
                            ELSE ApplyExit(proc, event.identity, event.at)
  <2>1. event \in Events
    BY <1>3 DEF IInv, TypeOK, ApplyEvent
  <2>2. event.pid \in Pids /\ event.identity \in Identities /\ event.at \in Times
    BY <2>1, EngineAssumption DEF Events
  <2>3. table' = [table EXCEPT ![event.pid] = after(@)]
    BY <1>3 DEF ApplyEvent
  <2>4. /\ TimesKept(after(table[event.pid]))
        /\ event.identity.created # NoTime => NotOlder(table[event.pid], after(table[event.pid]))
    BY <1>0, <2>2, CreateNotOlder, ExitNotOlder
  <2> HIDE DEF after, event
  <2>5. /\ table'[event.pid] = after(table[event.pid])
        /\ \A p \in Pids \ {event.pid} : table'[p] = table[p]
    BY <2>2, <2>3, InvariantIsSound
  <2>6. \A p \in Pids \ {event.pid} : NotOlder(table[p], table'[p]) /\ TimesKept(table'[p])
    BY <1>0, <2>5, RetiredNotOlder
  <2>7. KnownTimes'
    BY <2>4, <2>5, <2>6 DEF KnownTimes
  <2> QED BY <2>4, <2>5, <2>6, <2>7, <1>3 DEF event
<1>4. ASSUME NEW listing \in Lists, NEW at \in Times, ReconcileProcesses(listing, at)
      PROVE  KnownTimes' /\ \A p \in Pids : NotOlder(table[p], table'[p])
  <2>1. \A p \in DOMAIN listing : listing[p] \in Identities /\ listing[p].created # NoTime
    BY EngineAssumption DEF Lists
  <2>2. \A p \in Pids : table'[p] = IF p \in DOMAIN listing
                                    THEN Listed(table[p], listing[p], at)
                                    ELSE Unlisted(table[p], at)
    BY <1>4 DEF ReconcileProcesses
  <2>3. \A p \in Pids : TimesKept(table'[p]) /\ NotOlder(table[p], table'[p])
    BY <1>0, <2>1, <2>2, ListedNotOlder, UnlistedNotOlder
  <2> QED BY <2>3 DEF KnownTimes
<1> QED BY <1>1, <1>2, <1>3, <1>4 DEF Next, vars, SubmitProcessEvent

-----------------------------------------------------------------------------
(* Theorems *)

\* The inductive invariant.
THEOREM StrengthenedInvariant == Spec => []IInv
<1> QED BY InitInvariant, NextInvariant, PTL DEF Spec

\* Types, the bounded queue and an index without dangling keys, for every
\* order of submissions, drains and reconciliations.
THEOREM TypeCorrect == Spec => []TypeOK
<1>1. IInv => TypeOK
  BY DEF IInv
<1> QED BY <1>1, StrengthenedInvariant, PTL

\* Remediation never sees two active processes of one pid.
THEOREM OneActivePerPid == Spec => []ActiveIsCurrent
<1>1. IInv => ActiveIsCurrent
  BY DEF IInv
<1> QED BY <1>1, StrengthenedInvariant, PTL

\* A reconciliation retires every pid the collector did not list.
THEOREM ReconciliationRetires == Spec => UnlistedRetired
<1>1. IInv /\ [Next]_vars =>
         [\A listing \in Lists, at \in Times :
             ReconcileProcesses(listing, at)
                => \A p \in Pids \ DOMAIN listing : Active(table'[p]) = {}]_vars
  BY ReconcileTable
<1> QED BY <1>1, StrengthenedInvariant, PTL DEF Spec, UnlistedRetired

\* First and last sightings only advance between resets.
THEOREM SightingsOnlyAdvance == Spec => SightingsAdvance
<1>1. IInv /\ [Next]_vars =>
         [~ ResetSessionData =>
             \A p \in Pids : \A k \in DOMAIN table[p].known :
                /\ k \in DOMAIN table'[p].known
                /\ table'[p].known[k].first = table[p].known[k].first
                /\ table'[p].known[k].last >= table[p].known[k].last]_vars
  BY StepTable DEF TableStep, Effect, Advances
<1> QED BY <1>1, StrengthenedInvariant, PTL DEF Spec, SightingsAdvance

\* An entry keeps the creation time it was recorded with, through every merge.
THEOREM CreationTimesKept == Spec => []KnownTimes
<1>1. Init => KnownTimes
  <2>1. ASSUME Init, NEW p \in Pids PROVE TimesKept(table[p])
    <3>1. DOMAIN table[p].known = {}
      BY <2>1 DEF Init, Unknown
    <3> QED BY <3>1 DEF TimesKept
  <2> QED BY <2>1 DEF KnownTimes
<1>2. IInv /\ KnownTimes /\ [Next]_vars => KnownTimes'
  BY StepTimes
<1> QED BY <1>1, <1>2, StrengthenedInvariant, PTL DEF Spec

\* A late event or a listing cut to the second never displaces a younger process.
THEOREM YoungerNotDisplaced == Spec => YoungerStays
<1>1. IInv /\ KnownTimes /\ [Next]_vars =>
         [(ApplyEvent => Head(queue).identity.created # NoTime) =>
             \A p \in Pids : \A k \in Active(table[p]), j \in Active(table'[p]) :
                \/ NoTime \in {table[p].known[k].identity.created, table'[p].known[j].identity.created}
                \/ table'[p].known[j].identity.created >= table[p].known[k].identity.created]_vars
  BY StepTimes DEF NotOlder
<1> QED BY <1>1, StrengthenedInvariant, CreationTimesKept, PTL DEF Spec, YoungerStays
=============================================================================

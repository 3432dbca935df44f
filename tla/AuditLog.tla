------------------------------- MODULE AuditLog -------------------------------
(***************************************************************************)
(* The audit trail of audit_log.rs: a hash-chained log file, sealed and    *)
(* begun anew at a size limit, and beside it the queue of records that     *)
(* wait for upload.  The core writes both, one command at a time; it may   *)
(* be killed at any point, a write may stop half way, and a file that is   *)
(* there may fail to open, which the code takes for one that is not.  A    *)
(* hash is the number of its event: two events have different hashes, and  *)
(* a record that can be parsed is not changed.                             *)
(***************************************************************************)
EXTENDS Integers, Sequences, FiniteSets

CONSTANTS
    MaxLines,       \* records that fill a log file (configured_max_audit_bytes)
    BatchLimit,     \* DEFAULT_AUDIT_BATCH_LIMIT
    MaxEvents, MaxTime, MaxDamage   \* bounds of the model

ASSUME SizesAssumption == MaxLines \in Nat \ {0} /\ BatchLimit \in Nat \ {0}

ASSUME BoundsAssumption == MaxEvents \in Nat /\ MaxTime \in Nat /\ MaxDamage \in Nat

VARIABLES
    pc,             \* where append_audit_event_v2 is
    previous,       \* the hash it read, before it rotated
    log,            \* the log file
    sealed,         \* the rotated files, by the timestamp in their name
    latest,         \* the name of the file sealed last
    pending,        \* the upload queue's file
    batch,          \* what drains handed out for upload
    time,           \* the timestamp events carry: the wall clock
    written,        \* number of the last event that was given a record
    recorded,       \* history: events whose append returned Ok
    acked,          \* history: events whose upload was confirmed
    blind,          \* history: events whose append could not open the log it continues
    wiped,          \* history: events recorded when the queue was last taken for empty
    severed,        \* history: nothing continues the file sealed last
    replaced,       \* history: a sealed file was replaced by a later one of its name
    damage          \* history: writes cut short, and opens failed

files == <<log, sealed, latest, pending>>
history == <<acked, blind, wiped, severed, replaced>>
vars == <<pc, previous, files, batch, time, written, recorded, history, damage>>

Genesis == 0
Times == 0..MaxTime
NoFile == -1

\* What is left of a line that was not written to its end, or was written on to
Torn == [id |-> 0, prev |-> 0, attempts |-> 0]
Records == [id : 1..MaxEvents, prev : 0..MaxEvents, attempts : {0, 1}]
Lines == Records \cup {Torn}
Files == [lines : Seq(Lines), terminated : BOOLEAN]

EmptyFile == [lines |-> <<>>, terminated |-> TRUE]

TypeOK ==
    /\ pc \in {"idle", "rotating", "logging", "queueing"}
    /\ previous \in 0..MaxEvents
    /\ log \in Files /\ pending \in Files
    /\ sealed \in [Times -> Seq(Lines)] /\ latest \in Times \cup {NoFile}
    /\ {batch, recorded, acked, blind, wiped} \subseteq SUBSET (1..MaxEvents)
    /\ time \in Times
    /\ written \in 0..MaxEvents
    /\ severed \in BOOLEAN /\ replaced \in BOOLEAN
    /\ damage \in 0..MaxDamage

Init ==
    /\ pc = "idle" /\ previous = Genesis
    /\ log = EmptyFile /\ pending = EmptyFile
    /\ sealed = [t \in Times |-> <<>>] /\ latest = NoFile
    /\ batch = {} /\ time = 0
    /\ written = 0 /\ recorded = {} /\ acked = {} /\ blind = {} /\ wiped = {}
    /\ severed = FALSE /\ replaced = FALSE
    /\ damage = 0

-----------------------------------------------------------------------------
(* Files of one JSON record per line *)

LastOf(s) == s[Len(s)]
AllButLast(s) == SubSeq(s, 1, Len(s) - 1)
IdsOf(s) == {s[i].id : i \in DOMAIN s} \ {Torn.id}
Readable(file) == \A i \in DOMAIN file.lines : file.lines[i] # Torn

\* Mutant: the file is opened to be written anew
Truncated(file, record) == [lines |-> <<record>>, terminated |-> TRUE]

\* append_json_line: a line without its newline is written on to
Appended(file, record) ==
    [lines |-> IF file.terminated THEN Append(file.lines, record)
               ELSE Append(AllButLast(file.lines), Torn),
     terminated |-> TRUE]

\* The same, cut short: inside the record, or before its newline
CutShort(file, record) ==
    {[Appended(file, r) EXCEPT !.terminated = FALSE] : r \in {record, Torn}}

LogTorn == log.lines # <<>> /\ LastOf(log.lines) = Torn

LogRecord(id) == [id |-> id, prev |-> previous, attempts |-> 0]

\* File::open fails on a file that is there: it is in use, or a limit is reached
OpenFails(file) ==
    /\ file.lines # <<>> /\ damage < MaxDamage
    /\ damage' = damage + 1

-----------------------------------------------------------------------------
(* append_audit_event_v2 *)

\* Mutant: the hash is read once and not again
ReadHashOnce ==
    /\ pc = "idle" /\ written < MaxEvents
    /\ ~LogTorn
    /\ previous' = IF log.lines = <<>> \/ previous # Genesis THEN previous ELSE LastOf(log.lines).id
    /\ blind' = blind \ {written + 1}
    /\ pc' = "rotating"
    /\ UNCHANGED <<files, batch, time, written, recorded, acked, wiped, severed, replaced, damage>>

\* Mutant: the hash is read from the file the rotation has begun
ReadAfterRotation ==
    /\ pc = "idle" /\ written < MaxEvents
    /\ ~LogTorn
    /\ previous' = IF Len(log.lines) \in {0} \cup MaxLines..MaxEvents THEN Genesis
                   ELSE LastOf(log.lines).id
    /\ blind' = blind \ {written + 1}
    /\ pc' = "rotating"
    /\ UNCHANGED <<files, batch, time, written, recorded, acked, wiped, severed, replaced, damage>>

\* read_last_audit_hash, which parses the last line only.  A torn line is an error, and
\* every caller drops the error; a log that cannot be opened has no last hash.
ReadLastHash ==
    /\ pc = "idle" /\ written < MaxEvents
    /\ \/ /\ ~LogTorn
          /\ previous' = IF log.lines = <<>> THEN Genesis ELSE LastOf(log.lines).id
          /\ blind' = blind \ {written + 1}
          /\ UNCHANGED damage
       \/ /\ OpenFails(log)
          /\ previous' = Genesis
          /\ blind' = blind \cup {written + 1}
    /\ pc' = "rotating"
    /\ UNCHANGED <<files, batch, time, written, recorded, acked, wiped, severed, replaced>>

\* rotate_if_needed, unless it cannot learn the size of the log; renaming replaces a
\* sealed file of the same name
RotateIfNeeded ==
    /\ pc = "rotating"
    /\ \/ /\ Len(log.lines) >= MaxLines
          /\ sealed' = [sealed EXCEPT ![time] = log.lines] /\ latest' = time
          /\ log' = EmptyFile
          /\ severed' = FALSE
          /\ replaced' = (replaced \/ sealed[time] # <<>>)
       \/ UNCHANGED <<log, sealed, latest, severed, replaced>>
    /\ pc' = "logging"
    /\ UNCHANGED <<previous, pending, batch, time, written, recorded, acked, blind, wiped, damage>>

AppendLog ==
    /\ pc = "logging"
    /\ written' = written + 1
    /\ log' = Appended(log, LogRecord(written + 1))
    /\ pc' = "queueing"
    /\ UNCHANGED <<previous, sealed, latest, pending, batch, time, recorded, history, damage>>

AppendPending ==
    /\ pc = "queueing"
    /\ pending' = Appended(pending, LogRecord(written))
    /\ recorded' = recorded \cup {written}
    /\ pc' = "idle"
    /\ UNCHANGED <<previous, log, sealed, latest, batch, time, written, history, damage>>

\* An error of any of these returns at once, a kill ends them; the next append begins
\* with what is on disk.  A file sealed just before has no successor.
Interrupted ==
    /\ pc # "idle" /\ damage < MaxDamage
    /\ damage' = damage + 1
    /\ pc' = "idle"
    /\ \/ /\ pc \in {"rotating", "logging"}
          /\ severed' = (severed \/ log.lines = <<>>)
          /\ UNCHANGED <<log, pending, written>>
       \/ /\ pc = "logging"
          /\ written' = written + 1
          /\ log' \in CutShort(log, LogRecord(written + 1))
          /\ UNCHANGED <<pending, severed>>
       \/ /\ pc = "queueing"
          /\ \/ UNCHANGED pending
             \/ pending' \in CutShort(pending, LogRecord(written))
          /\ UNCHANGED <<log, written, severed>>
    /\ UNCHANGED <<previous, sealed, latest, batch, time, recorded, acked, blind, wiped, replaced>>

-----------------------------------------------------------------------------
(* Verification and upload: commands of their own, between two appends *)

\* verify_audit_chain_at: the first record of a file is not compared
ChainValid(lines) ==
    \A i \in 2..Len(lines) : lines[i].prev = lines[i - 1].id

\* drain_audit_upload_batch takes the oldest records, also those whose next retry
\* is not due, and fails when a line cannot be parsed; from a queue that cannot be opened
\* it hands out nothing, which changes no state
DrainBatch ==
    /\ pc = "idle" /\ Readable(pending)
    /\ LET count == IF Len(pending.lines) < BatchLimit THEN Len(pending.lines) ELSE BatchLimit
       IN  batch' = batch \cup IdsOf(SubSeq(pending.lines, 1, count))
    /\ UNCHANGED <<pc, previous, files, time, written, recorded, history, damage>>

\* rewrite_pending_records goes through a temporary file and a rename: it happens
\* or it does not
Rewritten(records) == [lines |-> records, terminated |-> TRUE]

\* Mutant: as many records as were confirmed are taken off the front
AckOldest(ids) ==
    /\ pc = "idle" /\ Readable(pending)
    /\ LET confirmed(record) == record.id \in ids
           count == Len(SelectSeq(pending.lines, confirmed))
       IN  pending' = Rewritten(SubSeq(pending.lines, count + 1, Len(pending.lines)))
    /\ acked' = acked \cup ids
    /\ UNCHANGED <<pc, previous, log, sealed, latest, batch, time, written, recorded, blind, wiped,
                   severed, replaced, damage>>

Kept(lines, ids) == {i \in DOMAIN lines : lines[i].id \notin ids}
Place(kept, i) == Cardinality({j \in kept : j =< i})

\* The lines without the records of these ids: SelectSeq, in a form that can be reasoned
\* about, where the kth line is the one with k of those kept up to it
Without(lines, ids) ==
    LET kept == Kept(lines, ids)
    IN  [k \in 1..Cardinality(kept) |-> lines[CHOOSE i \in kept : Place(kept, i) = k]]

\* The queue cannot be opened: it is taken for empty, and rewritten as it was taken
TakenForEmpty ==
    /\ OpenFails(pending)
    /\ pending' = Rewritten(<<>>)
    /\ wiped' = recorded

\* ack_audit_upload_batch, for what the server confirmed of any earlier batch, also again
AckBatch(ids) ==
    /\ pc = "idle"
    /\ \/ /\ Readable(pending)
          /\ pending' = Rewritten(Without(pending.lines, ids))
          /\ UNCHANGED <<wiped, damage>>
       \/ TakenForEmpty
    /\ acked' = acked \cup ids
    /\ UNCHANGED <<pc, previous, log, sealed, latest, batch, time, written, recorded, blind,
                   severed, replaced>>

Retried(lines, ids) ==
    [i \in DOMAIN lines |-> [lines[i] EXCEPT !.attempts = IF lines[i].id \in ids THEN 1 ELSE @]]

\* record_audit_upload_failure
FailBatch(ids) ==
    /\ pc = "idle"
    /\ \/ /\ Readable(pending)
          /\ pending' = Rewritten(Retried(pending.lines, ids))
          /\ UNCHANGED <<wiped, damage>>
       \/ TakenForEmpty
    /\ UNCHANGED <<pc, previous, log, sealed, latest, batch, time, written, recorded, acked, blind,
                   severed, replaced>>

\* The next handler reads the wall clock, which may have been set back
NextStamp ==
    /\ pc = "idle"
    /\ time' \in Times
    /\ UNCHANGED <<pc, previous, files, batch, written, recorded, history, damage>>

AppendEvent == ReadLastHash \/ RotateIfNeeded \/ AppendLog \/ AppendPending \/ Interrupted
Upload == DrainBatch \/ \E ids \in SUBSET batch \ {{}} : AckBatch(ids) \/ FailBatch(ids)

Next == AppendEvent \/ Upload \/ NextStamp

Spec == Init /\ [][Next]_vars

-----------------------------------------------------------------------------
(* Properties *)

\* In a log whose lines can all be parsed every record is chained to the one before it,
\* whatever was cut short before; except for one whose append could not open the log.
ChainIntact ==
    Readable(log) =>
        \A i \in 2..Len(log.lines) :
            \/ log.lines[i].prev = log.lines[i - 1].id
            \/ log.lines[i].id \in blind

\* Every file goes on where the one sealed before it ended, so that the chain runs
\* through all of them; only an append that stopped right after its rotation, or that
\* could not open the log before it, breaks it.
SealedChained ==
    log.lines # <<>> /\ Head(log.lines) # Torn /\ latest # NoFile /\ ~severed =>
        \/ Head(log.lines).prev = LastOf(sealed[latest]).id
        \/ Head(log.lines).id \in blind

\* An event whose append was reported as done has a readable record in a log file, in
\* the queue, or has reached the server.  It takes two mishaps to lose one: two of the
\* writes cut short and the opens failed, or one of them and a sealed file replaced.
EvidenceKept ==
    damage = 0 \/ (damage = 1 /\ ~replaced) =>
        \A e \in recorded :
            \/ e \in IdsOf(log.lines) \cup IdsOf(pending.lines) \cup acked
            \/ \E t \in Times : e \in IdsOf(sealed[t])

\* As long as the queue can be parsed, a recorded event waits in it until its upload is
\* confirmed, through retries and late or repeated confirmations; except for what was
\* recorded before an upload command could not open the queue.
PendingUntilAcked ==
    Readable(pending) => recorded \ wiped \subseteq IdsOf(pending.lines) \cup acked

\* What verification promises of a log nobody has tampered with.  Expected to fail: a log
\* that cannot be opened is continued as if it were empty.
ChainVerifies == Readable(log) => ChainValid(log.lines)

\* The queue retains a record until its upload is confirmed.  Expected to fail: an upload
\* command that cannot open the queue rewrites it as empty.
RetainedUntilAcked == Readable(pending) => recorded \subseteq IdsOf(pending.lines) \cup acked

\* A line that cannot be parsed stops the log, or the queue, for good.  Expected to
\* fail: after an interrupted write no further event is ever recorded.
EvidenceAfterFailure == pc = "idle" => ~LogTorn
=============================================================================

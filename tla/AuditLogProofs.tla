--------------------------- MODULE AuditLogProofs ---------------------------
(***************************************************************************)
(* For every size of the log file and of the batches, and for every number *)
(* of events, of timestamps, of writes cut short and of opens failed: the  *)
(* chain of the log and of its sealed files, and what is left of a         *)
(* recorded event.                                                         *)
(*                                                                         *)
(* The invariant says that every line follows the one before it (Ordered)  *)
(* and no line has the number of an event to come (Fresh), which record    *)
(* the next one is chained to (Reading, Continued), and that one mishap    *)
(* damages the log or the queue, not both (KeptOnce).                      *)
(***************************************************************************)
EXTENDS AuditLog, FiniteSetTheorems, SequenceTheorems, TLAPS

\* An append is under way, and could it not open the log.
Appending == pc \in {"rotating", "logging"}
Blind == written + 1 \in blind

Progress ==
    /\ Appending => written < MaxEvents
    /\ pc = "queueing" => written > 0
    /\ log.terminated \/ log.lines # <<>>
    /\ pending.terminated \/ pending.lines # <<>>

\* A line that can be parsed is chained to the one before it, or was appended blindly.
Follows(line, before) == line = Torn \/ line.prev = before.id \/ line.id \in blind

Ordered == \A i \in 2..Len(log.lines) : Follows(log.lines[i], log.lines[i - 1])

Fresh == \A i \in DOMAIN log.lines : log.lines[i].id =< written

\* The next record is chained to the last line, whether it stays or is sealed.
Reading ==
    /\ Appending /\ ~Blind => ~LogTorn /\ (log.lines # <<>> => previous = LastOf(log.lines).id)
    /\ pc = "queueing" /\ ~LogTorn => log.lines # <<>> /\ LastOf(log.lines).id = written

ChainedTo(id) ==
    IF log.lines = <<>> THEN pc = "logging" /\ (Blind \/ previous = id)
    ELSE Follows(Head(log.lines), [id |-> id])

Continued == latest # NoFile /\ ~severed => ChainedTo(LastOf(sealed[latest]).id)

Logged == IdsOf(log.lines) \cup UNION {IdsOf(sealed[t]) : t \in Times}
Queued == IdsOf(pending.lines) \cup acked

LogKeeps == log.terminated /\ ~LogTorn /\ recorded \subseteq Logged
QueueKeeps == pending.terminated /\ recorded \subseteq Queued

KeptOnce ==
    /\ damage = 0 => QueueKeeps
    /\ damage = 0 /\ ~replaced => LogKeeps
    /\ damage = 1 /\ ~replaced => LogKeeps \/ QueueKeeps

Chained == Ordered /\ Fresh /\ Reading /\ Continued
Typed == TypeOK /\ Progress
IInv == Typed /\ Chained /\ KeptOnce /\ PendingUntilAcked

-----------------------------------------------------------------------------
(* Files and their lines *)

\* The events named by a file are those of its lines, the torn ones aside.
LEMMA InIdsOf ==
    ASSUME NEW s, NEW e
    PROVE  e \in IdsOf(s) <=> e # 0 /\ \E i \in DOMAIN s : s[i].id = e
BY DEF IdsOf, Torn

LEMMA LineTypes ==
    /\ Torn \in Lines
    /\ \A line \in Lines : line # Torn =>
          line.id \in 1..MaxEvents /\ line.prev \in 0..MaxEvents
    /\ \A line \in Lines : line.id \in 0..MaxEvents
    /\ \A record \in Records : record # Torn
BY BoundsAssumption DEF Lines, Records, Torn

LEMMA RecordType ==
    ASSUME NEW id \in 1..MaxEvents, previous \in 0..MaxEvents
    PROVE  /\ LogRecord(id) \in Records
           /\ LogRecord(id).id = id /\ LogRecord(id).prev = previous
BY DEF LogRecord, Records

\* A line added to a file that ends with a newline.
LEMMA AppendedToEnd ==
    ASSUME NEW file \in Files, NEW line \in Lines, file.terminated
    PROVE  /\ Appended(file, line) \in Files
           /\ Appended(file, line).terminated
           /\ Appended(file, line).lines \in Seq(Lines)
           /\ Len(Appended(file, line).lines) = Len(file.lines) + 1
           /\ \A i \in 1..Len(file.lines) : Appended(file, line).lines[i] = file.lines[i]
           /\ Appended(file, line).lines[Len(file.lines) + 1] = line
<1> DEFINE to == Append(file.lines, line)
<1>1. Appended(file, line) = [lines |-> to, terminated |-> TRUE]
  BY DEF Appended
<1>2. file.lines \in Seq(Lines)
  BY DEF Files
<1>3. /\ to \in Seq(Lines) /\ Len(to) = Len(file.lines) + 1
      /\ \A i \in 1..Len(file.lines) : to[i] = file.lines[i]
      /\ to[Len(file.lines) + 1] = line
  BY <1>2, AppendProperties
<1> QED
  BY <1>1, <1>3 DEF Files

\* A line that a torn end is written on to.
LEMMA AppendedToTorn ==
    ASSUME NEW file \in Files, NEW line \in Lines, ~ file.terminated, file.lines # <<>>
    PROVE  /\ Appended(file, line) \in Files
           /\ Appended(file, line).terminated
           /\ Appended(file, line).lines \in Seq(Lines)
           /\ Len(Appended(file, line).lines) = Len(file.lines)
           /\ Len(file.lines) > 0
           /\ \A i \in 1..Len(file.lines) - 1 : Appended(file, line).lines[i] = file.lines[i]
           /\ Appended(file, line).lines[Len(file.lines)] = Torn
<1> DEFINE rest == AllButLast(file.lines)
           to == Append(rest, Torn)
<1>1. Appended(file, line) = [lines |-> to, terminated |-> TRUE]
  BY DEF Appended
<1>2. file.lines \in Seq(Lines)
  BY DEF Files
<1>3. Len(file.lines) \in Nat /\ Len(file.lines) > 0
  BY <1>2
<1>4. /\ rest \in Seq(Lines) /\ Len(rest) = Len(file.lines) - 1
      /\ \A i \in 1..Len(file.lines) - 1 : rest[i] = file.lines[i]
  <2>1. \A i \in 1..Len(file.lines) - 1 : file.lines[i] \in Lines
    BY <1>2, <1>3
  <2> QED
    BY <2>1, <1>3, SubSeqProperties DEF AllButLast
<1>5. Torn \in Lines
  BY LineTypes
<1>6. /\ to \in Seq(Lines) /\ Len(to) = Len(file.lines)
      /\ \A i \in 1..Len(file.lines) - 1 : to[i] = file.lines[i]
      /\ to[Len(file.lines)] = Torn
  <2> HIDE DEF rest
  <2>1. /\ to \in Seq(Lines) /\ Len(to) = Len(rest) + 1
        /\ \A i \in 1..Len(rest) : to[i] = rest[i]
        /\ to[Len(rest) + 1] = Torn
    BY <1>4, <1>5, AppendProperties
  <2> QED
    BY <2>1, <1>4, <1>3
<1> HIDE DEF to
<1> QED
  BY <1>1, <1>3, <1>6 DEF Files

\* What either does to the events of a file.
LEMMA AppendedIds ==
    ASSUME NEW file \in Files, NEW record \in Records, file.terminated
    PROVE  IdsOf(Appended(file, record).lines) = IdsOf(file.lines) \cup {record.id}
<1> DEFINE to == Appended(file, record).lines
<1>1. /\ file.lines \in Seq(Lines) /\ to \in Seq(Lines)
      /\ Len(to) = Len(file.lines) + 1
      /\ \A i \in 1..Len(file.lines) : to[i] = file.lines[i]
      /\ to[Len(file.lines) + 1] = record
  BY AppendedToEnd DEF Files, Lines
<1>2. record.id # 0
  BY BoundsAssumption DEF Records
<1> HIDE DEF to
<1>3. ASSUME NEW e PROVE e \in IdsOf(to) <=> e \in IdsOf(file.lines) \cup {record.id}
  <2>1. DOMAIN to = 1..Len(file.lines) + 1 /\ DOMAIN file.lines = 1..Len(file.lines)
    BY <1>1
  <2>2. Len(file.lines) \in Nat
    BY <1>1
  <2>3. (\E i \in DOMAIN to : to[i].id = e)
           <=> (\E i \in DOMAIN file.lines : file.lines[i].id = e) \/ record.id = e
    BY <1>1, <2>1, <2>2
  <2> QED
    BY <2>3, <1>2, InIdsOf
<1> QED
  BY <1>3 DEF to

\* Only a file with a last line is written on to, and after an append it has one.
LEMMA AppendedFile ==
    ASSUME NEW file \in Files, NEW line \in Lines, file.terminated \/ file.lines # <<>>
    PROVE  Appended(file, line) \in Files /\ Appended(file, line).lines # <<>>
<1>1. Len(file.lines) \in Nat
  BY DEF Files
<1>2. CASE file.terminated
  BY <1>1, <1>2, AppendedToEnd
<1>3. CASE ~ file.terminated
  BY <1>1, <1>3, AppendedToTorn
<1> QED
  BY <1>2, <1>3

LEMMA CutShortFile ==
    ASSUME NEW file \in Files, NEW record \in Records, file.terminated \/ file.lines # <<>>,
           NEW cut \in CutShort(file, record)
    PROVE  /\ cut \in Files /\ ~ cut.terminated /\ cut.lines # <<>>
           /\ \E line \in {record, Torn} : cut.lines = Appended(file, line).lines
<1>1. PICK line \in {record, Torn} : cut = [Appended(file, line) EXCEPT !.terminated = FALSE]
  BY DEF CutShort
<1>2. line \in Lines
  BY LineTypes DEF Lines
<1>3. Appended(file, line) \in Files /\ Appended(file, line).lines # <<>>
  BY <1>2, AppendedFile
<1> QED
  BY <1>1, <1>3 DEF Files

-----------------------------------------------------------------------------
(* Without: the kept places, counted *)

\* Of n kept places the first has one place up to it, the last has n of them, and
\* no two have the same number.
LEMMA PlaceOfKept ==
    ASSUME NEW kept, IsFiniteSet(kept), kept \subseteq Nat, NEW i \in kept
    PROVE  /\ Place(kept, i) \in 1..Cardinality(kept)
           /\ \A j \in kept : i < j => Place(kept, i) < Place(kept, j)
<1> DEFINE upto(j) == {k \in kept : k =< j}
<1>1. \A j : IsFiniteSet(upto(j)) /\ Cardinality(upto(j)) \in Nat
              /\ Cardinality(upto(j)) =< Cardinality(kept)
  BY FS_Subset, FS_CardinalityType
<1>2. Cardinality(kept) \in Nat
  BY FS_CardinalityType
<1>3. Cardinality(upto(i)) # 0
  <2>1. i \in upto(i)
    OBVIOUS
  <2> HIDE DEF upto
  <2> QED
    BY <2>1, <1>1, FS_EmptySet
<1>4. ASSUME NEW j \in kept, i < j
      PROVE  Cardinality(upto(i)) < Cardinality(upto(j))
  <2>1. upto(i) \subseteq upto(j) /\ j \in upto(j) /\ j \notin upto(i)
    <3>1. i \in Nat /\ j \in Nat /\ \A k \in kept : k \in Nat
      OBVIOUS
    <3>2. \A k \in kept : k =< i => k =< j
      BY <1>4, <3>1
    <3>3. j =< j /\ ~ j =< i
      BY <1>4, <3>1
    <3> QED
      BY <3>2, <3>3
  <2> HIDE DEF upto
  <2>2. Cardinality(upto(i)) =< Cardinality(upto(j)) /\ Cardinality(upto(i)) # Cardinality(upto(j))
    BY <2>1, <1>1, FS_Subset
  <2> QED
    BY <2>2, <1>1
<1> HIDE DEF upto
<1>5. \A j : Place(kept, j) = Cardinality(upto(j))
  BY DEF Place, upto
<1> QED
  BY <1>1, <1>2, <1>3, <1>4, <1>5

\* Every number has its kept place.
LEMMA PlaceTaken ==
    ASSUME NEW kept, IsFiniteSet(kept), kept \subseteq Nat, NEW k \in 1..Cardinality(kept)
    PROVE  \E i \in kept : Place(kept, i) = k
<1> DEFINE n == Cardinality(kept)
           place == [i \in kept |-> Place(kept, i)]
<1>1. n \in Nat
  BY FS_CardinalityType
<1>2. IsFiniteSet(1..n) /\ Cardinality(1..n) = n
  BY <1>1, FS_Interval
<1>3. place \in [kept -> 1..n]
  BY PlaceOfKept
<1>4. \A i, j \in kept : place[i] = place[j] => i = j
  <2> SUFFICES ASSUME NEW i \in kept, NEW j \in kept, i # j
               PROVE  place[i] # place[j]
    OBVIOUS
  <2>1. Place(kept, i) \in 1..n /\ Place(kept, j) \in 1..n
    BY PlaceOfKept
  <2>2. i \in Nat /\ j \in Nat /\ (i < j \/ j < i)
    OBVIOUS
  <2>3. /\ i < j => Place(kept, i) < Place(kept, j)
        /\ j < i => Place(kept, j) < Place(kept, i)
    BY PlaceOfKept
  <2>4. Place(kept, i) # Place(kept, j)
    BY <2>1, <2>2, <2>3, <1>1
  <2> QED
    BY <2>4
<1> HIDE DEF place
<1>5. place \in Injection(kept, 1..n)
  BY <1>3, <1>4 DEF Injection, IsInjective
<1>6. place \in Surjection(kept, 1..n)
  BY <1>5, <1>2, FS_Injection
<1>7. PICK i \in kept : place[i] = k
  BY <1>6 DEF Surjection
<1> QED
  BY <1>7 DEF place

\* What Without keeps of a file: the lines of other events, whole.
LEMMA WithoutLines ==
    ASSUME NEW S, NEW lines \in Seq(S), NEW ids
    PROVE  /\ Without(lines, ids) \in Seq(S)
           /\ \A k \in DOMAIN Without(lines, ids) :
                 \E i \in DOMAIN lines : Without(lines, ids)[k] = lines[i] /\ lines[i].id \notin ids
           /\ \A i \in DOMAIN lines : lines[i].id \notin ids =>
                 \E k \in DOMAIN Without(lines, ids) : Without(lines, ids)[k] = lines[i]
<1> DEFINE kept == Kept(lines, ids)
           n == Cardinality(kept)
           at(k) == CHOOSE i \in kept : Place(kept, i) = k
           rest == [k \in 1..n |-> lines[at(k)]]
<1>1. Without(lines, ids) = rest
  BY DEF Without
<1>2. DOMAIN lines = 1..Len(lines) /\ Len(lines) \in Nat
  OBVIOUS
<1>3. /\ \A i : i \in kept <=> i \in DOMAIN lines /\ lines[i].id \notin ids
      /\ kept \subseteq DOMAIN lines
  BY DEF Kept
<1> HIDE DEF kept
<1>4. IsFiniteSet(kept) /\ kept \subseteq Nat
  <2>1. IsFiniteSet(1..Len(lines))
    BY <1>2, FS_Interval
  <2> QED
    BY <2>1, <1>2, <1>3, FS_Subset
<1>5. n \in Nat
  BY <1>4, FS_CardinalityType
<1>6. \A k \in 1..n : at(k) \in kept /\ Place(kept, at(k)) = k
  BY <1>4, PlaceTaken
<1>7. \A i \in kept : Place(kept, i) \in 1..n /\ at(Place(kept, i)) = i
  <2> SUFFICES ASSUME NEW i \in kept
               PROVE  Place(kept, i) \in 1..n /\ at(Place(kept, i)) = i
    OBVIOUS
  <2> DEFINE j == at(Place(kept, i))
  <2>1. Place(kept, i) \in 1..n
    BY <1>4, PlaceOfKept
  <2>2. j \in kept /\ Place(kept, j) = Place(kept, i)
    BY <2>1, <1>6
  <2> HIDE DEF j
  <2>3. i \in Nat /\ j \in Nat
    BY <2>2, <1>4
  <2>4. /\ i < j => Place(kept, i) < Place(kept, j)
        /\ j < i => Place(kept, j) < Place(kept, i)
    BY <2>2, <1>4, PlaceOfKept
  <2>5. i = j
    BY <2>1, <2>2, <2>3, <2>4, <1>5
  <2> QED
    BY <2>1, <2>5 DEF j
<1> HIDE DEF at, n
<1>8. \A k \in 1..n : lines[at(k)] \in S
  BY <1>6, <1>3, <1>2
<1>9. rest \in Seq(S) /\ DOMAIN rest = 1..n /\ \A k \in 1..n : rest[k] = lines[at(k)]
  BY <1>8, <1>5
<1> HIDE DEF rest
<1> QED
  BY <1>1, <1>3, <1>6, <1>7, <1>9

\* What a confirmation leaves of the queue, and what a failed upload makes of it.
LEMMA WithoutIds ==
    ASSUME NEW lines \in Seq(Lines), NEW ids
    PROVE  Without(lines, ids) \in Seq(Lines)
           /\ IdsOf(Without(lines, ids)) = IdsOf(lines) \ ids
<1> DEFINE rest == Without(lines, ids)
<1>1. /\ rest \in Seq(Lines)
      /\ \A k \in DOMAIN rest : \E i \in DOMAIN lines : rest[k] = lines[i] /\ lines[i].id \notin ids
      /\ \A i \in DOMAIN lines : lines[i].id \notin ids => \E k \in DOMAIN rest : rest[k] = lines[i]
  BY WithoutLines
<1> HIDE DEF rest
<1>2. ASSUME NEW e PROVE e \in IdsOf(rest) <=> e \in IdsOf(lines) \ ids
  <2>1. ASSUME e \in IdsOf(rest) PROVE e \in IdsOf(lines) \ ids
    <3>1. PICK k \in DOMAIN rest : e # 0 /\ rest[k].id = e
      BY <2>1, InIdsOf
    <3>2. PICK i \in DOMAIN lines : rest[k] = lines[i] /\ lines[i].id \notin ids
      BY <1>1
    <3> QED
      BY <3>1, <3>2, InIdsOf
  <2>2. ASSUME e \in IdsOf(lines) \ ids PROVE e \in IdsOf(rest)
    <3>1. PICK i \in DOMAIN lines : e # 0 /\ lines[i].id = e /\ e \notin ids
      BY <2>2, InIdsOf
    <3>2. PICK k \in DOMAIN rest : rest[k] = lines[i]
      BY <1>1, <3>1
    <3> QED
      BY <3>1, <3>2, InIdsOf
  <2> QED
    BY <2>1, <2>2
<1>3. IdsOf(rest) = IdsOf(lines) \ ids
  BY <1>2
<1> QED
  BY <1>1, <1>3 DEF rest

LEMMA RewrittenFile ==
    ASSUME NEW lines \in Seq(Lines)
    PROVE  /\ Rewritten(lines) \in Files /\ Rewritten(lines).terminated
           /\ Rewritten(lines).lines = lines
BY DEF Rewritten, Files

LEMMA RetriedIds ==
    ASSUME NEW lines \in Seq(Lines), \A i \in DOMAIN lines : lines[i] # Torn, NEW ids
    PROVE  Retried(lines, ids) \in Seq(Lines) /\ IdsOf(Retried(lines, ids)) = IdsOf(lines)
<1> DEFINE tried == Retried(lines, ids)
<1>1. DOMAIN lines = 1..Len(lines) /\ Len(lines) \in Nat
  OBVIOUS
<1>2. \A i \in DOMAIN lines : lines[i] \in Records
  BY <1>1 DEF Lines
<1>3. DOMAIN tried = DOMAIN lines
  BY DEF Retried
<1>4. \A i \in DOMAIN lines : tried[i] \in Records /\ tried[i].id = lines[i].id
  BY <1>2 DEF Retried, Records
<1>5. tried \in Seq(Lines)
  <2>1. tried = [i \in 1..Len(lines) |-> tried[i]]
    BY <1>1 DEF Retried
  <2>2. \A i \in 1..Len(lines) : tried[i] \in Lines
    BY <1>1, <1>4 DEF Lines
  <2> HIDE DEF tried
  <2> QED
    BY <2>1, <2>2, <1>1, IsASeq
<1> HIDE DEF tried
<1>6. IdsOf(tried) = IdsOf(lines)
  BY <1>3, <1>4 DEF IdsOf
<1> QED
  BY <1>5, <1>6 DEF tried


-----------------------------------------------------------------------------
(* Types *)

LEMMA Numbers ==
    /\ MaxLines \in Nat /\ MaxLines > 0 /\ BatchLimit \in Nat
    /\ MaxEvents \in Nat /\ MaxTime \in Nat /\ MaxDamage \in Nat
BY SizesAssumption, BoundsAssumption

LEMMA LastLine ==
    ASSUME NEW S, NEW s \in Seq(S), s # <<>>
    PROVE  Len(s) \in Nat /\ Len(s) > 0 /\ LastOf(s) = s[Len(s)] /\ LastOf(s) \in S
BY DEF LastOf

LEMMA InitTyped == Init => Typed
<1> SUFFICES ASSUME Init PROVE Typed
  OBVIOUS
<1>1. EmptyFile \in Files
  BY DEF EmptyFile, Files
<1>2. sealed \in [Times -> Seq(Lines)] /\ latest \in Times \cup {NoFile}
  BY DEF Init
<1>3. {batch, recorded, acked, blind, wiped} \subseteq SUBSET (1..MaxEvents)
  BY DEF Init
<1>4. time \in Times /\ written \in 0..MaxEvents /\ damage \in 0..MaxDamage /\ previous \in 0..MaxEvents
  BY Numbers DEF Init, Genesis, Times
<1> QED
  BY <1>1, <1>2, <1>3, <1>4 DEF Typed, TypeOK, Progress, Appending, Init, EmptyFile

LEMMA ReadTyped ==
    ASSUME Typed, ReadLastHash PROVE Typed'
<1> USE DEF Typed, TypeOK, Progress, Appending, ReadLastHash, OpenFails, files
<1>1. log.lines \in Seq(Lines)
  BY DEF Files
<1>2. previous' \in 0..MaxEvents
  <2>1. CASE log.lines = <<>>
    BY <2>1, Numbers DEF Genesis
  <2>2. CASE log.lines # <<>>
    BY <2>2, <1>1, LastLine, LineTypes, Numbers DEF Genesis
  <2> QED
    BY <2>1, <2>2
<1>3. blind' \in SUBSET (1..MaxEvents) /\ damage' \in 0..MaxDamage
  BY Numbers
<1> QED
  BY <1>2, <1>3, Numbers

LEMMA RotateTyped ==
    ASSUME Typed, RotateIfNeeded PROVE Typed'
<1> USE DEF Typed, TypeOK, Progress, Appending, RotateIfNeeded
<1>1. log.lines \in Seq(Lines) /\ EmptyFile \in Files /\ EmptyFile.terminated
  BY DEF Files, EmptyFile
<1>2. sealed' \in [Times -> Seq(Lines)] /\ latest' \in Times \cup {NoFile} /\ log' \in Files
  BY <1>1
<1>3. log'.terminated \/ log'.lines # <<>>
  BY <1>1
<1>4. severed' \in BOOLEAN /\ replaced' \in BOOLEAN
  OBVIOUS
<1> QED
  BY <1>2, <1>3, <1>4

LEMMA AppendLogTyped ==
    ASSUME Typed, AppendLog PROVE Typed'
<1> USE DEF Typed, TypeOK, Progress, Appending, AppendLog, history
<1>1. written + 1 \in 1..MaxEvents
  BY Numbers
<1>2. LogRecord(written + 1) \in Lines
  BY <1>1, RecordType DEF Lines
<1>3. log' \in Files /\ log'.lines # <<>>
  BY <1>2, AppendedFile
<1> QED
  BY <1>1, <1>3

LEMMA AppendPendingTyped ==
    ASSUME Typed, AppendPending PROVE Typed'
<1> USE DEF Typed, TypeOK, Progress, Appending, AppendPending, history
<1>1. written \in 1..MaxEvents
  BY Numbers
<1>2. LogRecord(written) \in Lines
  BY <1>1, RecordType DEF Lines
<1>3. pending' \in Files /\ pending'.lines # <<>>
  BY <1>2, AppendedFile
<1> QED
  BY <1>1, <1>3

\* The four ways an append ends early, each with the file it leaves.
LEMMA InterruptedCases ==
    ASSUME Typed, Interrupted
    PROVE  \/ /\ Appending /\ UNCHANGED <<log, pending, written>>
              /\ severed' = (severed \/ log.lines = <<>>)
           \/ /\ pc = "logging" /\ written' = written + 1
              /\ UNCHANGED <<pending, severed>>
              /\ log' \in Files /\ ~ log'.terminated /\ log'.lines # <<>>
              /\ \E line \in {LogRecord(written + 1), Torn} : log'.lines = Appended(log, line).lines
           \/ pc = "queueing" /\ UNCHANGED <<log, pending, written, severed>>
           \/ /\ pc = "queueing" /\ UNCHANGED <<log, written, severed>>
              /\ pending' \in Files /\ ~ pending'.terminated /\ pending'.lines # <<>>
              /\ \E line \in {LogRecord(written), Torn} : pending'.lines = Appended(pending, line).lines
<1> USE DEF Typed, TypeOK, Progress
<1>1. CASE Appending /\ severed' = (severed \/ log.lines = <<>>)
                     /\ UNCHANGED <<log, pending, written>>
  BY <1>1
<1>2. CASE /\ pc = "logging" /\ written' = written + 1
           /\ log' \in CutShort(log, LogRecord(written + 1))
           /\ UNCHANGED <<pending, severed>>
  <2>1. LogRecord(written + 1) \in Records
    BY <1>2, Numbers, RecordType DEF Appending
  <2> QED
    BY <1>2, <2>1, CutShortFile
<1>3. CASE pc = "queueing" /\ UNCHANGED <<log, pending, written, severed>>
  BY <1>3
<1>4. CASE /\ pc = "queueing" /\ UNCHANGED <<log, written, severed>>
           /\ pending' \in CutShort(pending, LogRecord(written))
  <2>1. LogRecord(written) \in Records
    BY <1>4, Numbers, RecordType
  <2> QED
    BY <1>4, <2>1, CutShortFile
<1> QED
  BY <1>1, <1>2, <1>3, <1>4 DEF Interrupted, Appending

LEMMA InterruptedTyped ==
    ASSUME Typed, Interrupted PROVE Typed'
<1> USE DEF Typed, TypeOK, Progress, Appending
<1>1. /\ pc' = "idle" /\ damage' \in 0..MaxDamage
      /\ UNCHANGED <<previous, sealed, latest, batch, time, recorded, acked, blind, wiped, replaced>>
  BY Numbers DEF Interrupted
<1>2. CASE /\ Appending /\ UNCHANGED <<log, pending, written>>
           /\ severed' = (severed \/ log.lines = <<>>)
  BY <1>1, <1>2
<1>3. CASE /\ pc = "logging" /\ written' = written + 1
           /\ UNCHANGED <<pending, severed>>
           /\ log' \in Files /\ ~ log'.terminated /\ log'.lines # <<>>
  BY <1>1, <1>3, Numbers
<1>4. CASE pc = "queueing" /\ UNCHANGED <<log, pending, written, severed>>
  BY <1>1, <1>4
<1>5. CASE /\ pc = "queueing" /\ UNCHANGED <<log, written, severed>>
           /\ pending' \in Files /\ ~ pending'.terminated /\ pending'.lines # <<>>
  BY <1>1, <1>5
<1> QED
  BY <1>2, <1>3, <1>4, <1>5, InterruptedCases

\* The uploads only rewrite the queue: all of it could be read, or it is taken for empty.
LEMMA UploadCases ==
    ASSUME Typed, Upload
    PROVE  /\ UNCHANGED <<pc, previous, log, sealed, latest, time, written, recorded, blind,
                          severed, replaced>>
           /\ pending' \in Files /\ (pending'.terminated \/ UNCHANGED pending)
           /\ batch' \in SUBSET (1..MaxEvents) /\ acked' \in SUBSET (1..MaxEvents)
           /\ acked \subseteq acked'
           /\ \/ /\ UNCHANGED <<wiped, damage>>
                 /\ IdsOf(pending.lines) \cup acked \subseteq IdsOf(pending'.lines) \cup acked'
                 /\ Readable(pending)
              \/ /\ damage < MaxDamage /\ damage' = damage + 1
                 /\ wiped' = recorded
<1> USE DEF Typed, TypeOK
<1>1. pending.lines \in Seq(Lines)
  BY DEF Files
<1>2. CASE DrainBatch
  <2> DEFINE count == IF Len(pending.lines) < BatchLimit THEN Len(pending.lines) ELSE BatchLimit
             oldest == SubSeq(pending.lines, 1, count)
  <2>1. count \in Nat /\ count =< Len(pending.lines)
    BY <1>1, Numbers
  <2> HIDE DEF count
  <2>2. oldest \in Seq(Lines)
    <3>1. \A i \in 1..count : pending.lines[i] \in Lines
      BY <1>1, <2>1
    <3> QED
      BY <3>1, <2>1, SubSeqProperties
  <2> HIDE DEF oldest
  <2>3. \A i \in DOMAIN oldest : oldest[i] \in Lines
    BY <2>2
  <2>4. IdsOf(oldest) \subseteq 1..MaxEvents
    BY <2>3, LineTypes, Numbers DEF IdsOf, Torn
  <2>5. batch' = batch \cup IdsOf(oldest)
    BY <1>2 DEF DrainBatch, oldest, count
  <2> QED
    BY <1>2, <2>4, <2>5 DEF DrainBatch, files, history
<1>3. ASSUME TakenForEmpty
      PROVE  /\ pending' \in Files /\ pending'.terminated
             /\ damage < MaxDamage /\ damage' = damage + 1 /\ wiped' = recorded
  <2>1. <<>> \in Seq(Lines)
    OBVIOUS
  <2> QED
    BY <1>3, <2>1, RewrittenFile DEF TakenForEmpty, OpenFails
<1>4. ASSUME NEW ids \in SUBSET batch, Readable(pending),
             pending' = Rewritten(Without(pending.lines, ids))
      PROVE  /\ pending' \in Files /\ pending'.terminated
             /\ IdsOf(pending'.lines) = IdsOf(pending.lines) \ ids
  BY <1>4, <1>1, WithoutIds, RewrittenFile
<1>5. ASSUME NEW ids \in SUBSET batch, Readable(pending),
             pending' = Rewritten(Retried(pending.lines, ids))
      PROVE  /\ pending' \in Files /\ pending'.terminated
             /\ IdsOf(pending'.lines) = IdsOf(pending.lines)
  <2>1. \A i \in DOMAIN pending.lines : pending.lines[i] # Torn
    BY <1>5 DEF Readable
  <2>2. /\ Retried(pending.lines, ids) \in Seq(Lines)
        /\ IdsOf(Retried(pending.lines, ids)) = IdsOf(pending.lines)
    BY <1>1, <2>1, RetriedIds
  <2> QED
    BY <1>5, <2>2, RewrittenFile
<1>6. ASSUME NEW ids \in SUBSET batch, AckBatch(ids)
      PROVE  /\ UNCHANGED <<pc, previous, log, sealed, latest, batch, time, written, recorded,
                            blind, severed, replaced>>
             /\ acked' = acked \cup ids
             /\ \/ /\ Readable(pending) /\ UNCHANGED <<wiped, damage>>
                   /\ pending' = Rewritten(Without(pending.lines, ids))
                \/ TakenForEmpty
  BY <1>6 DEF AckBatch
<1>7. CASE \E ids \in SUBSET batch \ {{}} : AckBatch(ids)
  BY <1>7, <1>3, <1>4, <1>6
<1>8. ASSUME NEW ids \in SUBSET batch, FailBatch(ids)
      PROVE  /\ UNCHANGED <<pc, previous, log, sealed, latest, batch, time, written, recorded,
                            acked, blind, severed, replaced>>
             /\ \/ /\ Readable(pending) /\ UNCHANGED <<wiped, damage>>
                   /\ pending' = Rewritten(Retried(pending.lines, ids))
                \/ TakenForEmpty
  BY <1>8 DEF FailBatch
<1>9. CASE \E ids \in SUBSET batch \ {{}} : FailBatch(ids)
  BY <1>9, <1>3, <1>5, <1>8
<1> QED
  BY <1>2, <1>7, <1>9 DEF Upload

LEMMA UploadTyped ==
    ASSUME Typed, Upload PROVE Typed'
<1>1. /\ UNCHANGED <<pc, previous, log, sealed, latest, time, written, recorded, blind, severed, replaced>>
      /\ pending' \in Files /\ (pending'.terminated \/ UNCHANGED pending)
      /\ batch' \in SUBSET (1..MaxEvents) /\ acked' \in SUBSET (1..MaxEvents)
      /\ \/ UNCHANGED <<wiped, damage>>
         \/ damage < MaxDamage /\ damage' = damage + 1 /\ wiped' = recorded
  BY UploadCases
<1>2. damage' \in 0..MaxDamage /\ wiped' \in SUBSET (1..MaxEvents)
  BY <1>1, Numbers DEF Typed, TypeOK
<1> QED
  BY <1>1, <1>2 DEF Typed, TypeOK, Progress, Appending

LEMMA StampTyped ==
    ASSUME Typed, NextStamp PROVE Typed'
BY Numbers DEF Typed, TypeOK, Progress, Appending, NextStamp, Times, files, history

LEMMA StepTyped == Typed /\ [Next]_vars => Typed'
<1> SUFFICES ASSUME Typed, [Next]_vars PROVE Typed'
  OBVIOUS
<1>1. CASE AppendEvent
  BY <1>1, ReadTyped, RotateTyped, AppendLogTyped, AppendPendingTyped, InterruptedTyped
     DEF AppendEvent
<1>2. CASE Upload
  BY <1>2, UploadTyped
<1>3. CASE NextStamp
  BY <1>3, StampTyped
<1>4. CASE UNCHANGED vars
  BY <1>4 DEF vars, files, history, Typed, TypeOK, Progress, Appending
<1> QED
  BY <1>1, <1>2, <1>3, <1>4 DEF Next

-----------------------------------------------------------------------------
(* The chain *)

\* What an append, whole or cut short, makes of a log.
LEMMA LogGrows ==
    ASSUME Typed, NEW line \in Lines, NEW to \in Seq(Lines),
           to = Appended(log, line).lines
    PROVE  /\ Len(log.lines) \in Nat
           /\ Len(to) \in {Len(log.lines), Len(log.lines) + 1}
           /\ \A i \in 1..Len(to) - 1 : to[i] = log.lines[i]
           /\ Len(to) = Len(log.lines) + 1 => to[Len(to)] = line /\ log.terminated
           /\ Len(to) = Len(log.lines) => to[Len(to)] = Torn /\ ~ log.terminated
           /\ Len(to) > 0
<1> USE DEF Typed, TypeOK, Progress
<1>1. Len(log.lines) \in Nat
  BY DEF Files
<1>2. CASE log.terminated
  <2>1. /\ Len(to) = Len(log.lines) + 1
        /\ \A i \in 1..Len(log.lines) : to[i] = log.lines[i]
        /\ to[Len(log.lines) + 1] = line
    BY <1>2, AppendedToEnd
  <2> QED
    BY <1>1, <1>2, <2>1
<1>3. CASE ~ log.terminated
  <2>1. /\ Len(to) = Len(log.lines) /\ Len(log.lines) > 0
        /\ \A i \in 1..Len(log.lines) - 1 : to[i] = log.lines[i]
        /\ to[Len(log.lines)] = Torn
    BY <1>3, AppendedToTorn
  <2> QED
    BY <1>1, <1>3, <2>1
<1> QED
  BY <1>2, <1>3

\* An append keeps the order of the log, whatever of the line is written.
LEMMA OrderedGrows ==
    ASSUME Typed, Ordered, Reading, pc = "logging", NEW line \in Lines,
           line = Torn \/ (line.prev = previous /\ line.id = written + 1),
           log'.lines \in Seq(Lines), log'.lines = Appended(log, line).lines, UNCHANGED blind
    PROVE  Ordered'
<1> DEFINE to == log'.lines
<1>1. /\ Len(log.lines) \in Nat
      /\ Len(to) \in {Len(log.lines), Len(log.lines) + 1}
      /\ \A i \in 1..Len(to) - 1 : to[i] = log.lines[i]
      /\ Len(to) = Len(log.lines) + 1 => to[Len(to)] = line
      /\ Len(to) = Len(log.lines) => to[Len(to)] = Torn
  BY LogGrows
<1>2. SUFFICES ASSUME NEW i \in 2..Len(to) PROVE Follows(to[i], to[i - 1])
  BY DEF Ordered, Follows
<1> HIDE DEF to
<1>3. i \in Nat /\ i - 1 \in 1..Len(to) - 1 /\ to[i - 1] = log.lines[i - 1]
  BY <1>1
<1>4. CASE i < Len(to)
  <2>1. i \in 2..Len(log.lines) /\ to[i] = log.lines[i]
    BY <1>4, <1>1, <1>3
  <2> QED
    BY <2>1, <1>3 DEF Ordered
<1>5. CASE i = Len(to) /\ (Len(to) = Len(log.lines) \/ line = Torn)
  BY <1>1, <1>5 DEF Follows
<1>6. CASE i = Len(to) /\ Len(to) = Len(log.lines) + 1 /\ line # Torn
  <2>1. to[i] = line /\ i - 1 = Len(log.lines) /\ Len(log.lines) # 0
    BY <1>1, <1>3, <1>6
  <2>2. CASE Blind
    BY <2>1, <2>2, <1>6 DEF Follows, Blind
  <2>3. CASE ~Blind
    <3>1. log.lines # <<>> /\ LastOf(log.lines) = log.lines[i - 1]
      BY <2>1 DEF LastOf
    <3>2. line.prev = log.lines[i - 1].id
      BY <3>1, <2>3, <1>6 DEF Reading, Appending
    <3> QED
      BY <3>2, <2>1, <1>3 DEF Follows
  <2> QED
    BY <2>2, <2>3
<1> QED
  BY <1>1, <1>4, <1>5, <1>6

\* No line is numbered ahead of the events written.
LEMMA FreshGrows ==
    ASSUME Typed, Fresh, NEW line \in Lines, line = Torn \/ line.id = written + 1,
           log'.lines \in Seq(Lines), log'.lines = Appended(log, line).lines,
           written' = written + 1
    PROVE  Fresh'
<1> DEFINE to == log'.lines
<1>1. /\ Len(log.lines) \in Nat
      /\ Len(to) \in {Len(log.lines), Len(log.lines) + 1}
      /\ \A i \in 1..Len(to) - 1 : to[i] = log.lines[i]
      /\ Len(to) = Len(log.lines) + 1 => to[Len(to)] = line
      /\ Len(to) = Len(log.lines) => to[Len(to)] = Torn
  BY LogGrows
<1>2. written \in Nat /\ Torn.id = 0
  BY Numbers DEF Typed, TypeOK, Torn
<1>3. to \in Seq(Lines) /\ \A i \in DOMAIN to : to[i] \in Lines
  OBVIOUS
<1>4. SUFFICES ASSUME NEW i \in DOMAIN to PROVE to[i].id =< written + 1
  BY DEF Fresh
<1> HIDE DEF to
<1>5. i \in 1..Len(to)
  BY <1>3
<1>6. CASE i < Len(to)
  <2>1. to[i] = log.lines[i] /\ i \in 1..Len(log.lines)
    BY <1>1, <1>5, <1>6
  <2>2. DOMAIN log.lines = 1..Len(log.lines)
    BY DEF Typed, TypeOK, Files
  <2>3. to[i].id =< written /\ to[i].id \in 0..MaxEvents
    BY <2>1, <2>2, <1>3, LineTypes DEF Fresh
  <2> QED
    BY <2>3, <1>2, Numbers
<1>7. CASE i = Len(to)
  <2>1. to[i] = line \/ to[i] = Torn
    BY <1>1, <1>7
  <2> QED
    BY <2>1, <1>2
<1> QED
  BY <1>1, <1>5, <1>6, <1>7

\* The head of the log is written once: what it is chained to stays.
LEMMA ContinuedGrows ==
    ASSUME Typed, Continued, pc = "logging", NEW line \in Lines,
           line = Torn \/ (line.prev = previous /\ line.id = written + 1),
           log'.lines \in Seq(Lines), log'.lines = Appended(log, line).lines,
           UNCHANGED <<sealed, latest, severed, blind>>
    PROVE  Continued'
<1> DEFINE to == log'.lines
           last == LastOf(sealed[latest]).id
<1>1. /\ Len(log.lines) \in Nat
      /\ Len(to) \in {Len(log.lines), Len(log.lines) + 1}
      /\ \A i \in 1..Len(to) - 1 : to[i] = log.lines[i]
      /\ Len(to) = Len(log.lines) + 1 => to[Len(to)] = line
      /\ Len(to) = Len(log.lines) => to[Len(to)] = Torn
      /\ Len(to) > 0
  BY LogGrows
<1>2. SUFFICES ASSUME latest # NoFile, ~severed PROVE Follows(Head(to), [id |-> last])
  BY <1>1 DEF Continued, ChainedTo, Follows
<1>3. ChainedTo(last)
  BY <1>2 DEF Continued
<1> HIDE DEF to, last
<1>4. Head(to) = to[1]
  BY <1>1
<1>5. CASE log.lines = <<>>
  <2>1. Len(log.lines) = 0 /\ (Blind \/ previous = last)
    BY <1>3, <1>5 DEF ChainedTo
  <2>2. to[1] = line
    BY <2>1, <1>1
  <2> QED
    BY <2>1, <2>2, <1>4 DEF Follows, Blind
<1>6. CASE log.lines # <<>>
  <2>1. log.lines \in Seq(Lines)
    BY DEF Typed, TypeOK, Files
  <2>2. Len(log.lines) > 0 /\ Head(log.lines) = log.lines[1]
    BY <1>6, <2>1
  <2>3. to[1] = log.lines[1] \/ to[1] = Torn
    BY <2>2, <1>1
  <2>4. Follows(log.lines[1], [id |-> last])
    BY <2>2, <1>3, <1>6 DEF ChainedTo
  <2> QED
    BY <2>3, <2>4, <1>4 DEF Follows
<1> QED
  BY <1>5, <1>6

LEMMA InitChained == Init => Chained
<1> SUFFICES ASSUME Init PROVE Chained
  OBVIOUS
<1>1. log.lines = <<>> /\ Len(log.lines) = 0 /\ pc = "idle" /\ latest = NoFile
  BY DEF Init, EmptyFile
<1> QED
  BY <1>1 DEF Chained, Ordered, Fresh, Reading, Continued, Appending

\* An append begins with a number no line has: which lines are blind stays.
LEMMA ReadChained ==
    ASSUME Typed, Chained, ReadLastHash PROVE Chained'
<1> USE DEF Chained
<1>0. /\ pc = "idle" /\ pc' = "rotating"
      /\ UNCHANGED <<log, sealed, latest, written, severed>>
      /\ blind \ {written + 1} \subseteq blind'
      /\ \A e : e # written + 1 /\ e \in blind => e \in blind'
  BY DEF ReadLastHash, files
<1>1. log.lines \in Seq(Lines) /\ written \in Nat
  BY Numbers DEF Typed, TypeOK, Files
<1>2. \A i \in DOMAIN log.lines : log.lines[i].id # written + 1
  <2>1. \A i \in DOMAIN log.lines : log.lines[i].id =< written /\ log.lines[i].id \in Int
    BY <1>1, LineTypes, Numbers DEF Fresh
  <2> QED
    BY <2>1, <1>1
<1>3. Ordered'
  <2> SUFFICES ASSUME NEW i \in 2..Len(log.lines) PROVE Follows(log.lines[i], log.lines[i - 1])'
    BY <1>0 DEF Ordered
  <2>1. i \in DOMAIN log.lines /\ Follows(log.lines[i], log.lines[i - 1])
    BY <1>1 DEF Ordered
  <2> QED
    BY <2>1, <1>0, <1>2 DEF Follows
<1>4. Fresh'
  BY <1>0 DEF Fresh
<1>5. Reading'
  <2>1. CASE UNCHANGED damage /\ ~LogTorn
             /\ previous' = IF log.lines = <<>> THEN Genesis ELSE LastOf(log.lines).id
    BY <2>1, <1>0 DEF Reading, LogTorn
  <2>2. CASE blind' = blind \cup {written + 1}
    BY <2>2, <1>0 DEF Reading, Blind
  <2> QED
    BY <2>1, <2>2 DEF ReadLastHash
<1>6. Continued'
  <2> SUFFICES ASSUME latest # NoFile, ~severed PROVE ChainedTo(LastOf(sealed[latest]).id)'
    BY <1>0 DEF Continued
  <2>1. ChainedTo(LastOf(sealed[latest]).id)
    BY DEF Continued
  <2>2. log.lines # <<>> /\ Follows(Head(log.lines), [id |-> LastOf(sealed[latest]).id])
    BY <2>1, <1>0 DEF ChainedTo
  <2>3. 1 \in DOMAIN log.lines /\ Head(log.lines) = log.lines[1]
    BY <2>2, <1>1
  <2>4. Head(log.lines).id # written + 1
    BY <2>3, <1>2
  <2> QED
    BY <2>2, <2>4, <1>0 DEF ChainedTo, Follows
<1> QED
  BY <1>3, <1>4, <1>5, <1>6

\* The hash read before a rotation is the last one of the file it seals.
LEMMA RotateChained ==
    ASSUME Typed, Chained, RotateIfNeeded PROVE Chained'
<1> USE DEF Chained
<1>0. pc = "rotating" /\ pc' = "logging" /\ UNCHANGED <<previous, written, blind>>
  BY DEF RotateIfNeeded
<1>1. log.lines \in Seq(Lines) /\ time \in Times /\ sealed \in [Times -> Seq(Lines)]
  BY DEF Typed, TypeOK, Files
<1>2. CASE /\ Len(log.lines) >= MaxLines
           /\ sealed' = [sealed EXCEPT ![time] = log.lines] /\ latest' = time
           /\ log' = EmptyFile
  <2>1. log'.lines = <<>> /\ Len(log'.lines) = 0
    BY <1>2 DEF EmptyFile
  <2>2. log.lines # <<>>
    BY <1>1, <1>2, Numbers
  <2>3. Ordered' /\ Fresh'
    BY <2>1 DEF Ordered, Fresh
  <2>4. Reading'
    BY <2>1, <1>0 DEF Reading, LogTorn
  <2>5. sealed'[latest'] = log.lines
    BY <1>1, <1>2
  <2>6. Blind \/ previous = LastOf(log.lines).id
    BY <2>2, <1>0 DEF Reading, Appending
  <2>7. Continued'
    BY <2>1, <2>5, <2>6, <1>0 DEF Continued, ChainedTo, Blind
  <2> QED
    BY <2>3, <2>4, <2>7
<1>3. CASE UNCHANGED <<log, sealed, latest, severed>>
  <2>1. Ordered' /\ Fresh'
    BY <1>0, <1>3 DEF Ordered, Follows, Fresh
  <2>2. Reading'
    BY <1>0, <1>3 DEF Reading, Appending, LogTorn, Blind
  <2>3. Continued'
    BY <1>0, <1>3 DEF Continued, ChainedTo, Follows, Blind
  <2> QED
    BY <2>1, <2>2, <2>3
<1> QED
  BY <1>2, <1>3 DEF RotateIfNeeded

LEMMA AppendLogChained ==
    ASSUME Typed, Chained, AppendLog PROVE Chained'
<1> DEFINE record == LogRecord(written + 1)
<1>1. written + 1 \in 1..MaxEvents /\ previous \in 0..MaxEvents
  BY Numbers DEF Typed, TypeOK, Progress, Appending, AppendLog
<1>2. record \in Lines /\ record.id = written + 1 /\ record.prev = previous
  BY <1>1, RecordType DEF Lines
<1>3. log'.lines \in Seq(Lines) /\ log'.lines = Appended(log, record).lines
  <2>1. log' \in Files
    BY AppendLogTyped DEF Typed, TypeOK
  <2> QED
    BY <2>1 DEF AppendLog, Files
<1>4. /\ pc = "logging" /\ pc' = "queueing" /\ written' = written + 1
      /\ UNCHANGED <<sealed, latest, severed, blind>>
  BY DEF AppendLog, history
<1> HIDE DEF record
<1>5. Ordered' /\ Fresh' /\ Continued'
  BY <1>2, <1>3, <1>4, OrderedGrows, FreshGrows, ContinuedGrows DEF Chained
<1>6. Reading'
  <2>1. /\ Len(log'.lines) \in Nat /\ Len(log'.lines) > 0
        /\ log'.lines[Len(log'.lines)] \in {record, Torn}
    BY <1>2, <1>3, LogGrows
  <2>2. log'.lines # <<>> /\ LastOf(log'.lines) \in {record, Torn}
    BY <2>1 DEF LastOf
  <2> QED
    BY <2>2, <1>2, <1>4 DEF Reading, Appending, LogTorn
<1> QED
  BY <1>5, <1>6 DEF Chained

\* An append that ends early leaves the log as it was, or with one line more or a torn
\* one; the file sealed for a log that was not begun is severed.
LEMMA InterruptedChained ==
    ASSUME Typed, Chained, Interrupted PROVE Chained'
<1>1. pc # "idle" /\ pc' = "idle" /\ UNCHANGED <<previous, sealed, latest, blind>>
  BY DEF Interrupted
<1>2. Reading'
  BY <1>1 DEF Reading, Appending
<1>3. CASE /\ UNCHANGED <<log, written>>
           /\ \/ Appending /\ severed' = (severed \/ log.lines = <<>>)
              \/ pc = "queueing" /\ severed' = severed
  <2>1. Ordered' /\ Fresh'
    BY <1>1, <1>3 DEF Chained, Ordered, Follows, Fresh
  <2>2. Continued'
    BY <1>1, <1>3 DEF Chained, Continued, ChainedTo, Follows, Appending
  <2> QED
    BY <2>1, <2>2, <1>2 DEF Chained
<1>4. CASE /\ pc = "logging" /\ severed' = severed /\ written' = written + 1
           /\ log' \in Files
           /\ \E line \in {LogRecord(written + 1), Torn} : log'.lines = Appended(log, line).lines
  <2>1. /\ LogRecord(written + 1) \in Lines /\ LogRecord(written + 1).prev = previous
        /\ LogRecord(written + 1).id = written + 1
    BY <1>4, Numbers, RecordType DEF Typed, TypeOK, Progress, Appending, Lines
  <2>2. PICK line \in Lines : /\ line = Torn \/ (line.prev = previous /\ line.id = written + 1)
                              /\ log'.lines = Appended(log, line).lines
    BY <1>4, <2>1, LineTypes
  <2>3. log'.lines \in Seq(Lines)
    BY <1>4 DEF Files
  <2>4. Ordered' /\ Fresh' /\ Continued'
    BY <2>2, <2>3, <1>1, <1>4, OrderedGrows, FreshGrows, ContinuedGrows DEF Chained
  <2> QED
    BY <2>4, <1>2 DEF Chained
<1> QED
  BY <1>3, <1>4, InterruptedCases

LEMMA StepChained == Typed /\ Chained /\ [Next]_vars => Chained'
<1> SUFFICES ASSUME Typed, Chained, [Next]_vars PROVE Chained'
  OBVIOUS
<1>1. CASE UNCHANGED <<pc, previous, log, sealed, latest, severed, blind, written>>
  BY <1>1 DEF Chained, Ordered, Follows, Fresh, Reading, Appending, Blind, LogTorn, Continued,
              ChainedTo
<1>2. CASE AppendPending
  <2>1. /\ UNCHANGED <<log, sealed, latest, severed, blind, written>>
        /\ pc = "queueing" /\ pc' = "idle"
    BY <1>2 DEF AppendPending, history
  <2> QED
    BY <2>1 DEF Chained, Ordered, Follows, Fresh, Reading, Appending, LogTorn, Continued, ChainedTo
<1>3. CASE NextStamp
  BY <1>1, <1>3 DEF NextStamp, files, history
<1>4. CASE AppendEvent
  BY <1>2, <1>4, ReadChained, RotateChained, AppendLogChained, InterruptedChained DEF AppendEvent
<1>5. CASE Upload
  BY <1>1, <1>5, UploadCases
<1>6. CASE UNCHANGED vars
  BY <1>1, <1>6 DEF vars, files, history
<1> QED
  BY <1>3, <1>4, <1>5, <1>6 DEF Next

-----------------------------------------------------------------------------
(* What is left of a recorded event *)

LEMMA InLogged ==
    ASSUME NEW e
    PROVE  e \in Logged <=> e \in IdsOf(log.lines) \/ \E t \in Times : e \in IdsOf(sealed[t])
BY DEF Logged

\* A rotation moves the events of the log, and none is lost unless it replaces a file.
LEMMA RotateLogged ==
    ASSUME Typed, RotateIfNeeded, ~replaced' PROVE Logged \subseteq Logged'
<1>1. CASE /\ sealed' = [sealed EXCEPT ![time] = log.lines]
           /\ replaced' = (replaced \/ sealed[time] # <<>>)
  <2>1. sealed[time] = <<>> /\ time \in Times /\ sealed \in [Times -> Seq(Lines)]
    BY <1>1 DEF Typed, TypeOK
  <2>2. sealed'[time] = log.lines /\ \A t \in Times \ {time} : sealed'[t] = sealed[t]
    BY <2>1, <1>1
  <2>3. \A e : e \notin IdsOf(sealed[time])
    BY <2>1, InIdsOf
  <2> QED
    BY <2>1, <2>2, <2>3 DEF Logged
<1>2. CASE UNCHANGED <<log, sealed>>
  BY <1>2 DEF Logged
<1> QED
  BY <1>1, <1>2 DEF RotateIfNeeded

LEMMA InitKept == Init => KeptOnce /\ PendingUntilAcked
BY DEF Init, EmptyFile, KeptOnce, LogKeeps, QueueKeeps, LogTorn, PendingUntilAcked

\* A whole log gets the record of each append, and keeps those it has.
LEMMA AppendLogKeeps ==
    ASSUME Typed, Chained, AppendLog, LogKeeps PROVE LogKeeps'
<1> DEFINE record == LogRecord(written + 1)
<1>1. record \in Records /\ log \in Files /\ log.terminated
  BY Numbers, RecordType DEF Typed, TypeOK, Progress, Appending, AppendLog, LogKeeps
<1>2. record \in Lines /\ record # Torn
  BY <1>1, LineTypes DEF Lines
<1> HIDE DEF record
<1>3. IdsOf(Appended(log, record).lines) = IdsOf(log.lines) \cup {record.id}
  BY <1>1, AppendedIds
<1>4. /\ log'.terminated /\ Len(log'.lines) = Len(log.lines) + 1 /\ Len(log.lines) \in Nat
      /\ log'.lines[Len(log.lines) + 1] = record
      /\ IdsOf(log.lines) \subseteq IdsOf(log'.lines)
      /\ UNCHANGED <<sealed, recorded>>
  <2>1. log' = Appended(log, record) /\ UNCHANGED <<sealed, recorded>>
    BY DEF AppendLog, record
  <2>2. Len(log.lines) \in Nat
    BY <1>1 DEF Files
  <2> QED
    BY <1>1, <1>2, <1>3, <2>1, <2>2, AppendedToEnd
<1>5. ~ LogTorn'
  BY <1>4, <1>2 DEF LogTorn, LastOf
<1>6. Logged \subseteq Logged'
  BY <1>4 DEF Logged
<1> QED
  BY <1>4, <1>5, <1>6 DEF LogKeeps

\* When an append is done, a whole log has its record already.
LEMMA AppendPendingLogged ==
    ASSUME Typed, Chained, AppendPending, LogKeeps PROVE LogKeeps'
<1>1. UNCHANGED <<log, sealed>> /\ recorded' = recorded \cup {written} /\ pc = "queueing"
  BY DEF AppendPending
<1>2. log.lines \in Seq(Lines) /\ log.lines # <<>> /\ LastOf(log.lines).id = written /\ written # 0
  BY <1>1 DEF Chained, Reading, LogKeeps, Typed, TypeOK, Progress, Files
<1>3. Len(log.lines) \in DOMAIN log.lines /\ log.lines[Len(log.lines)].id = written
  BY <1>2, LastLine
<1>4. written \in IdsOf(log.lines)
  BY <1>2, <1>3, InIdsOf
<1> QED
  BY <1>1, <1>4 DEF LogKeeps, Logged, LogTorn

\* A whole queue gets every record, and gives up only what was confirmed.
LEMMA AppendPendingQueued ==
    ASSUME Typed, AppendPending, pending.terminated
    PROVE  pending'.terminated /\ Queued' = Queued \cup {written} /\ recorded' = recorded \cup {written}
<1>1. LogRecord(written) \in Records /\ LogRecord(written).id = written
  BY Numbers, RecordType DEF Typed, TypeOK, Progress, AppendPending
<1>2. IdsOf(Appended(pending, LogRecord(written)).lines) = IdsOf(pending.lines) \cup {written}
  BY <1>1, AppendedIds DEF Typed, TypeOK
<1> QED
  BY <1>2 DEF AppendPending, Queued, Appended, history

LEMMA UploadQueued ==
    ASSUME Typed, Upload, QueueKeeps, UNCHANGED damage PROVE QueueKeeps'
<1>1. damage' # damage + 1
  BY Numbers DEF Typed, TypeOK
<1> QED
  BY <1>1, UploadCases DEF QueueKeeps, Queued

LEMMA StepKept == Typed /\ Chained /\ KeptOnce /\ [Next]_vars => KeptOnce'
<1> SUFFICES ASSUME Typed, Chained, KeptOnce, [Next]_vars PROVE KeptOnce'
  OBVIOUS
<1>0. damage \in Nat
  BY Numbers DEF Typed, TypeOK
<1>1. ASSUME UNCHANGED damage, ~replaced' => ~replaced /\ (LogKeeps => LogKeeps'),
             QueueKeeps => QueueKeeps'
      PROVE  KeptOnce'
  BY <1>1 DEF KeptOnce
<1>2. ASSUME damage' = damage + 1, UNCHANGED replaced,
             (LogKeeps => LogKeeps') \/ (QueueKeeps => QueueKeeps')
      PROVE  KeptOnce'
  BY <1>0, <1>2 DEF KeptOnce
<1>3. UNCHANGED <<log, sealed, recorded>> => (LogKeeps => LogKeeps')
  BY DEF LogKeeps, Logged, LogTorn
<1>4. UNCHANGED <<pending, acked, recorded>> => (QueueKeeps => QueueKeeps')
  BY DEF QueueKeeps, Queued
<1>5. CASE ReadLastHash
  <2>1. UNCHANGED <<log, sealed, pending, acked, recorded, replaced>>
    BY <1>5 DEF ReadLastHash, files
  <2>2. UNCHANGED damage \/ damage' = damage + 1
    BY <1>5 DEF ReadLastHash, OpenFails
  <2> QED
    BY <2>1, <2>2, <1>1, <1>2, <1>3, <1>4
<1>6. CASE NextStamp \/ UNCHANGED vars
  <2>1. UNCHANGED <<files, recorded, history, damage>>
    BY <1>6 DEF NextStamp, vars
  <2>2. UNCHANGED <<log, sealed, pending, acked, recorded, replaced, damage>>
    BY <2>1 DEF files, history
  <2>3. (LogKeeps => LogKeeps') /\ (QueueKeeps => QueueKeeps')
    BY <2>2, <1>3, <1>4
  <2>4. UNCHANGED damage /\ (~replaced' => ~replaced)
    BY <2>2
  <2> QED
    BY <2>3, <2>4, <1>1
<1>7. CASE RotateIfNeeded
  <2>0. replaced \in BOOLEAN /\ (replaced' = replaced \/ replaced' = (replaced \/ sealed[time] # <<>>))
    BY <1>7 DEF RotateIfNeeded, Typed, TypeOK
  <2>1. UNCHANGED <<damage, pending, acked, recorded>> /\ (~replaced' => ~replaced)
    BY <1>7, <2>0 DEF RotateIfNeeded
  <2>2. ~replaced' /\ LogKeeps => LogKeeps'
    <3>1. log' = log \/ log' = EmptyFile
      BY <1>7 DEF RotateIfNeeded
    <3> QED
      BY <3>1, <2>1, <1>7, RotateLogged DEF LogKeeps, LogTorn, EmptyFile
  <2> QED
    BY <2>1, <2>2, <1>1, <1>4
<1>8. CASE AppendLog
  BY <1>1, <1>4, <1>8, AppendLogKeeps DEF AppendLog, history
<1>9. CASE AppendPending
  <2>1. QueueKeeps => QueueKeeps'
    BY <1>9, AppendPendingQueued DEF QueueKeeps
  <2> QED
    BY <2>1, <1>1, <1>9, AppendPendingLogged DEF AppendPending, history
<1>10. CASE Upload
  <2>1. UNCHANGED <<log, sealed, recorded, replaced>> /\ (UNCHANGED damage \/ damage' = damage + 1)
    BY <1>10, UploadCases
  <2> QED
    BY <2>1, <1>1, <1>2, <1>3, <1>10, UploadQueued
<1>11. CASE Interrupted
  <2>1. damage' = damage + 1 /\ UNCHANGED <<sealed, acked, recorded, replaced>>
    BY <1>11 DEF Interrupted
  <2>2. UNCHANGED log \/ UNCHANGED pending
    BY <1>11, InterruptedCases
  <2> QED
    BY <2>1, <2>2, <1>2, <1>3, <1>4
<1> QED
  BY <1>5, <1>6, <1>7, <1>8, <1>9, <1>10, <1>11 DEF Next, AppendEvent

\* A queue that was torn cannot be read until an upload command takes it for empty; one that
\* can be read has every record since.
LEMMA StepPending == Typed /\ PendingUntilAcked /\ [Next]_vars => PendingUntilAcked'
<1> SUFFICES ASSUME Typed, PendingUntilAcked, [Next]_vars, Readable(pending)'
             PROVE  recorded' \ wiped' \subseteq Queued'
  BY DEF PendingUntilAcked, Queued
<1>0. Readable(pending) => recorded \ wiped \subseteq Queued
  BY DEF PendingUntilAcked, Queued
<1>1. CASE UNCHANGED <<pending, recorded, acked, wiped>>
  BY <1>0, <1>1 DEF Readable, Queued
<1>2. ASSUME NEW line \in Lines, pending'.lines = Appended(pending, line).lines
      PROVE  pending.terminated /\ Readable(pending) /\ line # Torn
  <2>1. pending \in Files /\ (pending.terminated \/ pending.lines # <<>>)
    BY DEF Typed, TypeOK, Progress
  <2>2. pending.lines \in Seq(Lines)
    BY <2>1 DEF Files
  <2>3. pending.terminated
    <3> SUFFICES ASSUME ~ pending.terminated PROVE FALSE
      OBVIOUS
    <3>1. /\ pending'.lines \in Seq(Lines) /\ Len(pending'.lines) = Len(pending.lines)
          /\ Len(pending.lines) > 0 /\ pending'.lines[Len(pending.lines)] = Torn
      BY <2>1, <1>2, AppendedToTorn
    <3>2. Len(pending.lines) \in DOMAIN pending'.lines
      BY <3>1, <2>2
    <3> QED
      BY <3>1, <3>2 DEF Readable
  <2>4. /\ pending'.lines \in Seq(Lines) /\ Len(pending'.lines) = Len(pending.lines) + 1
        /\ \A i \in 1..Len(pending.lines) : pending'.lines[i] = pending.lines[i]
        /\ pending'.lines[Len(pending.lines) + 1] = line
    BY <2>1, <2>3, <1>2, AppendedToEnd
  <2>5. DOMAIN pending'.lines = 1..Len(pending.lines) + 1 /\ Len(pending.lines) \in Nat
        /\ DOMAIN pending.lines = 1..Len(pending.lines)
    BY <2>2, <2>4
  <2> QED
    BY <2>3, <2>4, <2>5 DEF Readable
<1>3. CASE AppendPending
  <2>1. LogRecord(written) \in Lines
    BY <1>3, Numbers, RecordType DEF Typed, TypeOK, Progress, AppendPending, Lines
  <2>2. pending.terminated /\ Readable(pending)
    BY <2>1, <1>2, <1>3 DEF AppendPending
  <2>3. UNCHANGED wiped
    BY <1>3 DEF AppendPending, history
  <2> QED
    BY <2>2, <2>3, <1>0, <1>3, AppendPendingQueued
<1>4. CASE Interrupted
  <2>1. UNCHANGED <<recorded, acked, wiped>>
    BY <1>4 DEF Interrupted
  <2>2. CASE UNCHANGED pending
    BY <2>1, <2>2, <1>1
  <2>3. CASE /\ pc = "queueing"
             /\ \E line \in {LogRecord(written), Torn} : pending'.lines = Appended(pending, line).lines
    <3>1. LogRecord(written) \in Records /\ LogRecord(written) \in Lines
      BY <2>3, Numbers, RecordType DEF Typed, TypeOK, Progress, Lines
    <3>2. PICK line \in {LogRecord(written), Torn} : pending'.lines = Appended(pending, line).lines
      BY <2>3
    <3>3. line \in Lines
      BY <3>1, LineTypes
    <3>4. pending.terminated /\ Readable(pending) /\ line # Torn
      BY <3>2, <3>3, <1>2
    <3>5. pending'.lines = Appended(pending, LogRecord(written)).lines
      BY <3>2, <3>4
    <3>6. IdsOf(pending'.lines) = IdsOf(pending.lines) \cup {LogRecord(written).id}
      BY <3>5, <3>1, <3>4, AppendedIds DEF Typed, TypeOK
    <3> QED
      BY <3>4, <3>6, <2>1, <1>0 DEF Queued
  <2> QED
    BY <1>4, <2>2, <2>3, InterruptedCases
<1>5. CASE Upload
  <2>1. UNCHANGED recorded
    BY <1>5, UploadCases
  <2>2. CASE wiped' = recorded
    BY <2>1, <2>2
  <2>3. CASE UNCHANGED wiped /\ Readable(pending) /\ Queued \subseteq Queued'
    BY <1>0, <2>1, <2>3
  <2> QED
    BY <1>5, <2>2, <2>3, UploadCases DEF Queued
<1>6. CASE ReadLastHash \/ RotateIfNeeded \/ AppendLog \/ NextStamp \/ UNCHANGED vars
  BY <1>1, <1>6 DEF ReadLastHash, RotateIfNeeded, AppendLog, NextStamp, vars, files, history
<1> QED
  BY <1>3, <1>4, <1>5, <1>6 DEF Next, AppendEvent

-----------------------------------------------------------------------------
(* The theorems *)

\* The invariant behind the theorems that follow.
THEOREM StrengthenedInvariant == Spec => []IInv
<1>1. Init => IInv
  BY InitTyped, InitChained, InitKept DEF IInv
<1>2. IInv /\ [Next]_vars => IInv'
  BY StepTyped, StepChained, StepKept, StepPending DEF IInv
<1> QED
  BY <1>1, <1>2, PTL DEF Spec

\* The two files, the sealed ones and the counters stay what TypeOK says.
THEOREM TypeCorrect == Spec => []TypeOK
<1>1. IInv => TypeOK
  BY DEF IInv, Typed
<1> QED
  BY <1>1, StrengthenedInvariant, PTL

\* In a log whose lines can all be parsed every record is chained to the one before it, but
\* for those whose append could not open the log.
THEOREM LogVerifies == Spec => []ChainIntact
<1>1. IInv => ChainIntact
  <2> SUFFICES ASSUME IInv, Readable(log), NEW i \in 2..Len(log.lines)
               PROVE  \/ log.lines[i].prev = log.lines[i - 1].id
                      \/ log.lines[i].id \in blind
    BY DEF ChainIntact
  <2>1. log.lines \in Seq(Lines)
    BY DEF IInv, Typed, TypeOK, Files
  <2>2. i \in DOMAIN log.lines
    BY <2>1
  <2> QED
    BY <2>2 DEF IInv, Chained, Ordered, Follows, Readable
<1> QED
  BY <1>1, StrengthenedInvariant, PTL

\* Every file goes on where the one sealed before it ended, unless the append that began it
\* could not open that one, or another append stopped between the two.
THEOREM FilesChained == Spec => []SealedChained
<1>1. IInv => SealedChained
  BY DEF IInv, Chained, Continued, ChainedTo, Follows, SealedChained
<1> QED
  BY <1>1, StrengthenedInvariant, PTL

\* One mishap does not lose an event that was reported as recorded.
THEOREM RecordedIsKept == Spec => []EvidenceKept
<1>1. IInv => EvidenceKept
  <2> SUFFICES ASSUME IInv, damage = 0 \/ (damage = 1 /\ ~replaced), NEW e \in recorded
               PROVE  \/ e \in IdsOf(log.lines) \cup IdsOf(pending.lines) \cup acked
                      \/ \E t \in Times : e \in IdsOf(sealed[t])
    BY DEF EvidenceKept
  <2>1. LogKeeps \/ QueueKeeps
    BY DEF IInv, KeptOnce
  <2> QED
    BY <2>1, InLogged DEF LogKeeps, QueueKeeps, Queued
<1> QED
  BY <1>1, StrengthenedInvariant, PTL

\* A recorded event waits in a queue that can be read until its upload is confirmed, or an
\* upload command takes the queue for empty.
THEOREM WaitsUntilConfirmed == Spec => []PendingUntilAcked
<1>1. IInv => PendingUntilAcked
  BY DEF IInv
<1> QED
  BY <1>1, StrengthenedInvariant, PTL
=============================================================================

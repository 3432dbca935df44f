------------------------ MODULE EventProducerProofs ------------------------
(***************************************************************************)
(* For every queue capacity, drain size, recovery interval and number of   *)
(* faults and restarts: ticks are handed the events of Windows in order, a *)
(* producer that calls itself healthy is complete, a fallback strands      *)
(* nothing and a stop leaves nothing.                                      *)
(*                                                                         *)
(* The invariant has three parts: which threads, session and queues there  *)
(* may be in each phase of the command loop (Phases), the order of the     *)
(* events on their way (Order), and where each event is (Located).         *)
(***************************************************************************)
EXTENDS EventProducer, TLAPS

Over == consumer \in {"ending", "done"}

\* The producer, its threads and its session, by the phase of the command loop.
Phases ==
    /\ ~ producer =>
          /\ consumer = "none" /\ parser = "none"
          /\ raw = <<>> /\ held = NoEvent /\ session # "ours"
    /\ producer => source = "etw" /\ consumer # "none" /\ parser # "none"
    /\ parser = "done" => held = NoEvent
    /\ running \/ pc \in {"idle", "closing"}
    /\ ~ running /\ pc = "idle" => ~ producer /\ output = <<>>
    /\ pc = "joining" => Over /\ session # "ours" /\ producer
    /\ pc = "attempting" => ~ producer
    /\ pc = "closing" => session # "ours" /\ ~ running

\* A producer fails only once ProcessTrace has returned, and its parser leaves
\* the raw queue empty, unless it was told to stop.
Failing ==
    producer /\ pc # "closing" =>
       /\ ~ etw.alive => Over
       /\ etw.failure => Over \/ etw.lost \/ etw.parseErrors \/ ~ etw.rundown
       /\ parser = "done" => Over /\ raw = <<>>

Sorted(s) == \A i \in 1 .. Len(s), j \in 1 .. Len(s) : i < j => s[i] < s[j]

\* Every element of s is above low and below high.
Between(s, low, high) == \A i \in 1 .. Len(s) : low < s[i] /\ s[i] < high

Before(s, t) == \A i \in 1 .. Len(s), j \in 1 .. Len(t) : s[i] < t[j]

\* What is on its way lies in order between what was handed out and what comes.
Order ==
    /\ handed =< received
    /\ Sorted(output) /\ Sorted(raw) /\ Before(output, raw)
    /\ Between(output, handed, received + 1) /\ Between(raw, handed, received + 1)
    /\ held # NoEvent =>
          /\ handed < held /\ held =< received
          /\ Between(output, handed, held) /\ Between(raw, held, received + 1)

In(e, s) == \E i \in 1 .. Len(s) : s[i] = e

\* A producer that has dropped nothing knows where each of its events is.
Located ==
    producer /\ ~ Degraded /\ ~ etw.failure =>
       \A e \in base + 1 .. received :
          e =< handed \/ In(e, output) \/ In(e, raw) \/ (held # NoEvent /\ held = e)

\* The type invariant, by what proves it.
EtwTypes == etw \in EtwState

ClockTypes == sinceAttempt \in Never..MaxInterval /\ interval \in BaseInterval..MaxInterval

FlagTypes ==
    /\ running \in BOOLEAN
    /\ pc \in {"idle", "joining", "attempting", "draining", "closing"}
    /\ source \in {"etw", "polling", "stopped"}
    /\ producer \in BOOLEAN
    /\ session \in {"none", "ours", "foreign"}
    /\ consumer \in {"none", "running", "ending", "done"}
    /\ parser \in {"none", "running", "done"}
    /\ outputDropped \in BOOLEAN

QueueTypes ==
    /\ raw \in Seq(Nat) /\ Len(raw) =< RawCapacity
    /\ held \in Nat
    /\ output \in Seq(Nat) /\ Len(output) =< OutputCapacity

CountTypes ==
    /\ received \in Nat /\ handed \in Nat /\ base \in Nat
    /\ faults \in Nat /\ starts \in Nat

LEMMA TypeParts ==
    TypeOK <=> EtwTypes /\ ClockTypes /\ FlagTypes /\ QueueTypes /\ CountTypes
BY DEF TypeOK, EtwTypes, ClockTypes, FlagTypes, QueueTypes, CountTypes

IInv == TypeOK /\ Phases /\ Failing /\ Order /\ Located

-----------------------------------------------------------------------------
(* Sequences of events *)

\* A queue that takes an event stays a sequence within its capacity, and holds
\* the new event and what it held before, but for the oldest if it was full.
LEMMA EnqueuedFacts ==
    ASSUME NEW s \in Seq(Nat), NEW c \in Nat \ {0}, NEW e \in Nat, Len(s) =< c
    PROVE  LET q == Enqueued(s, c, e)
           IN  /\ q \in Seq(Nat) /\ Len(q) =< c /\ Len(q) \in 1 .. Len(s) + 1
               /\ q[Len(q)] = e
               /\ \A i \in 1 .. Len(q) - 1 :
                     q[i] = s[i + (IF Len(s) >= c THEN 1 ELSE 0)]
               /\ Len(q) - 1 = Len(s) - (IF Len(s) >= c THEN 1 ELSE 0)
<1>1. CASE Len(s) >= c
  <2>1. s # <<>> /\ Tail(s) \in Seq(Nat) /\ Len(Tail(s)) = Len(s) - 1 /\ Len(s) >= 1
    BY <1>1
  <2>2. \A i \in 1 .. Len(s) - 1 : Tail(s)[i] = s[i + 1]
    BY <2>1
  <2> QED
    BY <1>1, <2>1, <2>2 DEF Enqueued
<1>2. CASE ~ (Len(s) >= c)
  BY <1>2 DEF Enqueued
<1> QED
  BY <1>1, <1>2

\* In order, and above a bound, it stays so with an event above its last.
LEMMA EnqueuedInOrder ==
    ASSUME NEW s \in Seq(Nat), NEW c \in Nat \ {0}, NEW e \in Nat, Len(s) =< c,
           NEW low \in Nat, Sorted(s), Between(s, low, e), low < e
    PROVE  /\ Sorted(Enqueued(s, c, e))
           /\ \A high \in Nat : e < high => Between(Enqueued(s, c, e), low, high)
<1> DEFINE q == Enqueued(s, c, e)
           d == IF Len(s) >= c THEN 1 ELSE 0
<1>1. /\ q \in Seq(Nat) /\ Len(q) \in Nat /\ q[Len(q)] = e
      /\ \A i \in 1 .. Len(q) - 1 : q[i] = s[i + d] /\ i + d \in 1 .. Len(s)
  BY EnqueuedFacts
<1>d. d \in {0, 1}
  OBVIOUS
<1> HIDE DEF q, d
<1>2. ASSUME NEW i \in 1 .. Len(q), NEW j \in 1 .. Len(q), i < j PROVE q[i] < q[j]
  <2>1. i \in 1 .. Len(q) - 1 /\ q[i] = s[i + d] /\ i + d \in 1 .. Len(s)
    BY <1>1, <1>2
  <2>2. CASE j = Len(q)
    BY <1>1, <2>1, <2>2 DEF Between
  <2>3. CASE j # Len(q)
    <3>1. q[j] = s[j + d] /\ j + d \in 1 .. Len(s) /\ i + d < j + d
      BY <1>1, <1>2, <1>d, <2>3
    <3> QED
      BY <2>1, <3>1 DEF Sorted
  <2> QED
    BY <2>2, <2>3
<1>3. ASSUME NEW high \in Nat, e < high, NEW i \in 1 .. Len(q)
      PROVE  low < q[i] /\ q[i] < high
  <2>1. CASE i = Len(q)
    BY <1>1, <1>3, <2>1
  <2>2. CASE i # Len(q)
    <3>1. q[i] = s[i + d] /\ i + d \in 1 .. Len(s)
      BY <1>1, <2>2
    <3>2. low < s[i + d] /\ s[i + d] < e /\ s[i + d] \in Nat
      BY <3>1 DEF Between
    <3> QED
      BY <1>3, <3>1, <3>2
  <2> QED
    BY <2>1, <2>2
<1>4. Sorted(q)
  BY <1>2 DEF Sorted
<1>5. \A high \in Nat : e < high => Between(q, low, high)
  BY <1>3 DEF Between
<1> QED
  BY <1>4, <1>5 DEF q

\* What was in the queue is in it still, if the queue was not full.
LEMMA EnqueuedKeeps ==
    ASSUME NEW s \in Seq(Nat), NEW c \in Nat \ {0}, NEW e \in Nat, Len(s) =< c
    PROVE  /\ In(e, Enqueued(s, c, e))
           /\ \A x : In(x, s) /\ ~ (Len(s) >= c) => In(x, Enqueued(s, c, e))
           /\ \A x : In(x, Enqueued(s, c, e)) => x = e \/ In(x, s)
<1> DEFINE q == Enqueued(s, c, e)
           d == IF Len(s) >= c THEN 1 ELSE 0
<1>1. /\ Len(q) \in Nat \ {0} /\ q[Len(q)] = e /\ Len(s) \in Nat
      /\ \A i \in 1 .. Len(q) - 1 : q[i] = s[i + d] /\ i + d \in 1 .. Len(s)
      /\ Len(q) - 1 = Len(s) - d
  BY EnqueuedFacts
<1> HIDE DEF q, d
<1>2. In(e, q)
  BY <1>1 DEF In
<1>3. ASSUME NEW x, In(x, s), ~ (Len(s) >= c) PROVE In(x, q)
  BY <1>1, <1>3 DEF In, d
<1>4. ASSUME NEW x, In(x, q) PROVE x = e \/ In(x, s)
  <2>1. PICK i \in 1 .. Len(q) : q[i] = x
    BY <1>4 DEF In
  <2>2. CASE i = Len(q)
    BY <1>1, <2>1, <2>2
  <2>3. CASE i # Len(q)
    <3>1. i \in 1 .. Len(q) - 1
      BY <1>1, <2>3
    <3>2. q[i] = s[i + d] /\ i + d \in 1 .. Len(s)
      BY <1>1, <3>1
    <3> QED
      BY <2>1, <3>2 DEF In
  <2> QED
    BY <2>2, <2>3
<1> QED
  BY <1>2, <1>3, <1>4 DEF q

\* The head of a queue in order is below its tail, which is in order too.
LEMMA PoppedFacts ==
    ASSUME NEW s \in Seq(Nat), s # <<>>
    PROVE  /\ Head(s) \in Nat /\ Head(s) = s[1] /\ Len(s) \in Nat \ {0}
           /\ Tail(s) \in Seq(Nat) /\ Len(Tail(s)) = Len(s) - 1
           /\ \A i \in 1 .. Len(Tail(s)) : Tail(s)[i] = s[i + 1]
           /\ \A x : In(x, s) => x = Head(s) \/ In(x, Tail(s))
<1>1. /\ Head(s) \in Nat /\ Head(s) = s[1] /\ Len(s) \in Nat \ {0}
      /\ Tail(s) \in Seq(Nat) /\ Len(Tail(s)) = Len(s) - 1
  OBVIOUS
<1>2. \A i \in 1 .. Len(Tail(s)) : Tail(s)[i] = s[i + 1]
  BY <1>1
<1>3. ASSUME NEW x, In(x, s) PROVE x = Head(s) \/ In(x, Tail(s))
  <2>1. PICK i \in 1 .. Len(s) : s[i] = x
    BY <1>3 DEF In
  <2>2. CASE i = 1
    BY <1>1, <2>1, <2>2
  <2>3. CASE i # 1
    <3>1. i - 1 \in 1 .. Len(Tail(s)) /\ (i - 1) + 1 = i
      BY <1>1, <2>3
    <3> QED
      BY <1>2, <2>1, <3>1 DEF In
  <2> QED
    BY <2>2, <2>3
<1> QED
  BY <1>1, <1>2, <1>3

LEMMA ShiftedIndex ==
    ASSUME NEW k \in Nat, NEW n \in Nat, NEW i \in 1 .. k - n
    PROVE  i + n \in 1 .. k
OBVIOUS

LEMMA LastOrEarlier ==
    ASSUME NEW b \in Nat, NEW r \in Nat, NEW e \in b + 1 .. r + 1
    PROVE  e = r + 1 \/ e \in b + 1 .. r
OBVIOUS

LEMMA SuffixFacts ==
    ASSUME NEW s \in Seq(Nat), NEW n \in 0 .. Len(s)
    PROVE  LET q == SubSeq(s, n + 1, Len(s))
           IN  /\ q \in Seq(Nat) /\ Len(q) = Len(s) - n
               /\ \A i \in 1 .. Len(q) : q[i] = s[i + n]
OBVIOUS

-----------------------------------------------------------------------------
(* The invariant *)

\* A new producer has failed at nothing, unless its rundown did.
LEMMA NewEtw ==
    LET undone == [FreshEtw EXCEPT !.rundown = FALSE, !.failure = TRUE]
    IN  /\ FreshEtw \in EtwState /\ undone \in EtwState
        /\ [FreshEtw EXCEPT !.alive = FALSE] \in EtwState
        /\ FreshEtw.alive /\ ~ FreshEtw.failure /\ undone.alive /\ ~ undone.rundown
BY DEF FreshEtw, EtwState

LEMMA EtwUpdates ==
    ASSUME NEW x \in EtwState
    PROVE  /\ [x EXCEPT !.alive = FALSE] \in EtwState
           /\ [x EXCEPT !.failure = TRUE] \in EtwState
           /\ [x EXCEPT !.lost = TRUE] \in EtwState
           /\ [x EXCEPT !.parseErrors = TRUE, !.failure = TRUE] \in EtwState
           /\ \A b \in BOOLEAN : /\ [x EXCEPT !.rawDropped = @ \/ b] \in EtwState
                                 /\ [x EXCEPT !.failure = @ \/ b] \in EtwState
<1>1. x.rawDropped \in BOOLEAN /\ x.failure \in BOOLEAN
  BY DEF EtwState
<1>2. \A b \in BOOLEAN : (x.rawDropped \/ b) \in BOOLEAN /\ (x.failure \/ b) \in BOOLEAN
  BY <1>1
<1>3. \A v \in BOOLEAN : [x EXCEPT !.rawDropped = v] \in EtwState
                         /\ [x EXCEPT !.failure = v] \in EtwState
                         /\ [x EXCEPT !.lost = v] \in EtwState
                         /\ [x EXCEPT !.alive = v] \in EtwState
                         /\ [x EXCEPT !.parseErrors = v, !.failure = TRUE] \in EtwState
  BY DEF EtwState
<1> QED
  BY <1>2, <1>3

LEMMA InitInvariant == Init => IInv
<1> SUFFICES ASSUME Init PROVE IInv
  OBVIOUS
<1>1. TypeOK
  <2>1. EtwTypes
    BY NewEtw DEF Init, EtwTypes
  <2>2. ClockTypes
    BY TimesAssumption DEF Init, ClockTypes, Never
  <2>3. FlagTypes /\ CountTypes
    BY DEF Init, FlagTypes, CountTypes
  <2>4. QueueTypes
    BY SizesAssumption DEF Init, QueueTypes, NoEvent
  <2> QED
    BY <2>1, <2>2, <2>3, <2>4, TypeParts
<1>2. Phases /\ Failing /\ Order /\ Located
  BY DEF Init, Phases, Failing, Order, Located, Sorted, Between, Before, NoEvent
<1> QED
  BY <1>1, <1>2 DEF IInv

\* Every step keeps the producer's flags.
LEMMA EtwTypesPreserved ==
    ASSUME TypeOK, [Next]_vars
    PROVE  EtwTypes'
<1> USE DEF TypeOK, EtwTypes
<1>1. ASSUME Start PROVE EtwTypes'
  BY <1>1, NewEtw, EtwUpdates
     DEF Start, StartEtw, StartEtwFails, Fault, Selected, queues, threads
<1>2. ASSUME Recover PROVE EtwTypes'
  BY <1>2, NewEtw, EtwUpdates DEF Recover, StopEtw, EtwFailed, queues, threads, history
<1>3. ASSUME RecoverJoined PROVE EtwTypes'
  BY <1>3, NewEtw, EtwUpdates DEF RecoverJoined, DropEtw, Selected, history
<1>4. ASSUME Attempt PROVE EtwTypes'
  BY <1>4, NewEtw, EtwUpdates
     DEF Attempt, StartEtw, StartEtwFails, Fault, Selected, queues, threads
<1>5. ASSUME Drain PROVE EtwTypes'
  BY <1>5, NewEtw, EtwUpdates DEF Drain, threads
<1>6. ASSUME Stop PROVE EtwTypes'
  BY <1>6, NewEtw, EtwUpdates DEF Stop, StopEtw, queues, threads, history
<1>7. ASSUME StopJoined PROVE EtwTypes'
  BY <1>7, NewEtw, EtwUpdates DEF StopJoined, DropEtw, history
<1>8. ASSUME Callback PROVE EtwTypes'
  BY <1>8, NewEtw, EtwUpdates DEF Callback, manager, threads
<1>9. ASSUME ProcessTraceReturns PROVE EtwTypes'
  BY <1>9, NewEtw, EtwUpdates DEF ProcessTraceReturns, Fault, manager, queues, history
<1>10. ASSUME ConsumerEnds PROVE EtwTypes'
  BY <1>10, NewEtw, EtwUpdates DEF ConsumerEnds, manager, queues, history
<1>11. ASSUME LossReported PROVE EtwTypes'
  BY <1>11, NewEtw, EtwUpdates DEF LossReported, Fault, manager, queues, threads, history
<1>12. ASSUME ParserPops PROVE EtwTypes'
  BY <1>12, NewEtw, EtwUpdates DEF ParserPops, manager, threads, history
<1>13. ASSUME EnqueueOutput PROVE EtwTypes'
  BY <1>13, NewEtw, EtwUpdates DEF EnqueueOutput, manager, threads, history
<1>14. ASSUME ParseFails PROVE EtwTypes'
  BY <1>14, NewEtw, EtwUpdates DEF ParseFails, Fault, manager, threads, history
<1>15. ASSUME ParserEnds PROVE EtwTypes'
  BY <1>15, NewEtw, EtwUpdates DEF ParserEnds, manager, queues, history
<1>16. ASSUME SessionTaken PROVE EtwTypes'
  BY <1>16, NewEtw, EtwUpdates DEF SessionTaken, Fault, manager, queues, threads, history
<1>17. ASSUME Tick PROVE EtwTypes'
  BY <1>17, NewEtw, EtwUpdates DEF Tick, queues, threads, history
<1>18. ASSUME ClockSetBack PROVE EtwTypes'
  BY <1>18, NewEtw, EtwUpdates DEF ClockSetBack, Fault, queues, threads, history
<1>19. CASE UNCHANGED vars
  BY <1>19 DEF vars, manager, queues, threads, history
<1> QED
  BY <1>1, <1>2, <1>3, <1>4, <1>5, <1>6, <1>7, <1>8, <1>9, <1>10, <1>11, <1>12, <1>13, <1>14,
     <1>15, <1>16, <1>17, <1>18, <1>19
  DEF Next, CommandLoop, Consumer, Parser, Windows

\* Every step keeps the clock in its range.
LEMMA ClockTypesPreserved ==
    ASSUME ClockTypes, [Next]_vars
    PROVE  ClockTypes'
<1> USE TimesAssumption DEF ClockTypes, Never
<1>1. ASSUME Start PROVE ClockTypes'
  BY <1>1 DEF Start, StartEtw, StartEtwFails, Fault, Selected, queues, threads
<1>2. ASSUME Recover PROVE ClockTypes'
  BY <1>2 DEF Recover, StopEtw, EtwFailed, queues, threads, history
<1>3. ASSUME RecoverJoined PROVE ClockTypes'
  BY <1>3 DEF RecoverJoined, DropEtw, Selected, history
<1>4. ASSUME Attempt PROVE ClockTypes'
  BY <1>4 DEF Attempt, StartEtw, StartEtwFails, Fault, Selected, Doubled, queues, threads
<1>5. ASSUME Drain PROVE ClockTypes'
  BY <1>5 DEF Drain, threads
<1>6. ASSUME Stop PROVE ClockTypes'
  BY <1>6 DEF Stop, StopEtw, queues, threads, history
<1>7. ASSUME StopJoined PROVE ClockTypes'
  BY <1>7 DEF StopJoined, DropEtw, history
<1>8. ASSUME Callback PROVE ClockTypes'
  BY <1>8 DEF Callback, manager, threads
<1>9. ASSUME ProcessTraceReturns PROVE ClockTypes'
  BY <1>9 DEF ProcessTraceReturns, Fault, manager, queues, history
<1>10. ASSUME ConsumerEnds PROVE ClockTypes'
  BY <1>10 DEF ConsumerEnds, manager, queues, history
<1>11. ASSUME LossReported PROVE ClockTypes'
  BY <1>11 DEF LossReported, Fault, manager, queues, threads, history
<1>12. ASSUME ParserPops PROVE ClockTypes'
  BY <1>12 DEF ParserPops, manager, threads, history
<1>13. ASSUME EnqueueOutput PROVE ClockTypes'
  BY <1>13 DEF EnqueueOutput, manager, threads, history
<1>14. ASSUME ParseFails PROVE ClockTypes'
  BY <1>14 DEF ParseFails, Fault, manager, threads, history
<1>15. ASSUME ParserEnds PROVE ClockTypes'
  BY <1>15 DEF ParserEnds, manager, queues, history
<1>16. ASSUME SessionTaken PROVE ClockTypes'
  BY <1>16 DEF SessionTaken, Fault, manager, queues, threads, history
<1>17. ASSUME Tick PROVE ClockTypes'
  BY <1>17 DEF Tick, queues, threads, history
<1>18. ASSUME ClockSetBack PROVE ClockTypes'
  BY <1>18 DEF ClockSetBack, Fault, queues, threads, history
<1>19. CASE UNCHANGED vars
  BY <1>19 DEF vars, manager, queues, threads, history
<1> QED
  BY <1>1, <1>2, <1>3, <1>4, <1>5, <1>6, <1>7, <1>8, <1>9, <1>10, <1>11, <1>12, <1>13, <1>14,
     <1>15, <1>16, <1>17, <1>18, <1>19
  DEF Next, CommandLoop, Consumer, Parser, Windows

\* Every step keeps the phases of the parties.
LEMMA FlagTypesPreserved ==
    ASSUME FlagTypes, [Next]_vars
    PROVE  FlagTypes'
<1> USE DEF FlagTypes
<1>1. ASSUME Start PROVE FlagTypes'
  BY <1>1 DEF Start, StartEtw, StartEtwFails, Fault, Selected, queues, threads
<1>2. ASSUME Recover PROVE FlagTypes'
  BY <1>2 DEF Recover, StopEtw, EtwFailed, queues, threads, history
<1>3. ASSUME RecoverJoined PROVE FlagTypes'
  BY <1>3 DEF RecoverJoined, DropEtw, Joined, Selected, history
<1>4. ASSUME Attempt PROVE FlagTypes'
  BY <1>4 DEF Attempt, StartEtw, StartEtwFails, Fault, Selected, queues, threads
<1>5. ASSUME Drain PROVE FlagTypes'
  BY <1>5 DEF Drain, threads
<1>6. ASSUME Stop PROVE FlagTypes'
  BY <1>6 DEF Stop, StopEtw, queues, threads, history
<1>7. ASSUME StopJoined PROVE FlagTypes'
  BY <1>7 DEF StopJoined, DropEtw, Joined, history
<1>8. ASSUME Callback PROVE FlagTypes'
  BY <1>8 DEF Callback, manager, threads
<1>9. ASSUME ProcessTraceReturns PROVE FlagTypes'
  BY <1>9 DEF ProcessTraceReturns, Fault, manager, queues, history
<1>10. ASSUME ConsumerEnds PROVE FlagTypes'
  BY <1>10 DEF ConsumerEnds, manager, queues, history
<1>11. ASSUME LossReported PROVE FlagTypes'
  BY <1>11 DEF LossReported, Fault, manager, queues, threads, history
<1>12. ASSUME ParserPops PROVE FlagTypes'
  BY <1>12 DEF ParserPops, manager, threads, history
<1>13. ASSUME EnqueueOutput PROVE FlagTypes'
  BY <1>13 DEF EnqueueOutput, manager, threads, history
<1>14. ASSUME ParseFails PROVE FlagTypes'
  BY <1>14 DEF ParseFails, Fault, manager, threads, history
<1>15. ASSUME ParserEnds PROVE FlagTypes'
  BY <1>15 DEF ParserEnds, manager, queues, history
<1>16. ASSUME SessionTaken PROVE FlagTypes'
  BY <1>16 DEF SessionTaken, Fault, manager, queues, threads, history
<1>17. ASSUME Tick PROVE FlagTypes'
  BY <1>17 DEF Tick, queues, threads, history
<1>18. ASSUME ClockSetBack PROVE FlagTypes'
  BY <1>18 DEF ClockSetBack, Fault, queues, threads, history
<1>19. CASE UNCHANGED vars
  BY <1>19 DEF vars, manager, queues, threads, history
<1> QED
  BY <1>1, <1>2, <1>3, <1>4, <1>5, <1>6, <1>7, <1>8, <1>9, <1>10, <1>11, <1>12, <1>13, <1>14,
     <1>15, <1>16, <1>17, <1>18, <1>19
  DEF Next, CommandLoop, Consumer, Parser, Windows

\* Every step keeps the queues within their capacities.
LEMMA QueueTypesPreserved ==
    ASSUME QueueTypes, CountTypes, [Next]_vars
    PROVE  QueueTypes'
<1> USE SizesAssumption DEF QueueTypes, CountTypes, NoEvent
<1>1. ASSUME Start PROVE QueueTypes'
  BY <1>1 DEF Start, StartEtw, StartEtwFails, Fault, Selected, queues, threads
<1>2. ASSUME Recover PROVE QueueTypes'
  BY <1>2 DEF Recover, StopEtw, EtwFailed, queues, threads, history
<1>3. ASSUME RecoverJoined PROVE QueueTypes'
  BY <1>3 DEF RecoverJoined, DropEtw, Joined, Selected, history
<1>4. ASSUME Attempt PROVE QueueTypes'
  BY <1>4 DEF Attempt, StartEtw, StartEtwFails, Fault, Selected, queues, threads
<1>5. ASSUME Drain PROVE QueueTypes'
  BY <1>5 DEF Drain, threads
<1>6. ASSUME Stop PROVE QueueTypes'
  BY <1>6 DEF Stop, StopEtw, queues, threads, history
<1>7. ASSUME StopJoined PROVE QueueTypes'
  BY <1>7 DEF StopJoined, DropEtw, Joined, history
<1>8. ASSUME Callback PROVE QueueTypes'
  <2>1. received + 1 \in Nat
    OBVIOUS
  <2>2. raw' = Enqueued(raw, RawCapacity, received + 1) /\ UNCHANGED <<held, output>>
    BY <1>8 DEF Callback
  <2> QED
    BY <2>1, <2>2, EnqueuedFacts
<1>9. ASSUME ProcessTraceReturns PROVE QueueTypes'
  BY <1>9 DEF ProcessTraceReturns, Fault, manager, queues, history
<1>10. ASSUME ConsumerEnds PROVE QueueTypes'
  BY <1>10 DEF ConsumerEnds, manager, queues, history
<1>11. ASSUME LossReported PROVE QueueTypes'
  BY <1>11 DEF LossReported, Fault, manager, queues, threads, history
<1>12. ASSUME ParserPops PROVE QueueTypes'
  BY <1>12 DEF ParserPops, manager, threads, history
<1>13. ASSUME EnqueueOutput PROVE QueueTypes'
  BY <1>13, EnqueuedFacts DEF EnqueueOutput, manager, threads, history
<1>14. ASSUME ParseFails PROVE QueueTypes'
  BY <1>14 DEF ParseFails, Fault, manager, threads, history
<1>15. ASSUME ParserEnds PROVE QueueTypes'
  BY <1>15 DEF ParserEnds, manager, queues, history
<1>16. ASSUME SessionTaken PROVE QueueTypes'
  BY <1>16 DEF SessionTaken, Fault, manager, queues, threads, history
<1>17. ASSUME Tick PROVE QueueTypes'
  BY <1>17 DEF Tick, queues, threads, history
<1>18. ASSUME ClockSetBack PROVE QueueTypes'
  BY <1>18 DEF ClockSetBack, Fault, queues, threads, history
<1>19. CASE UNCHANGED vars
  BY <1>19 DEF vars, manager, queues, threads, history
<1> QED
  BY <1>1, <1>2, <1>3, <1>4, <1>5, <1>6, <1>7, <1>8, <1>9, <1>10, <1>11, <1>12, <1>13, <1>14,
     <1>15, <1>16, <1>17, <1>18, <1>19
  DEF Next, CommandLoop, Consumer, Parser, Windows

\* Every step keeps the numbers of events, faults and starts.
LEMMA CountTypesPreserved ==
    ASSUME QueueTypes, CountTypes, [Next]_vars
    PROVE  CountTypes'
<1> USE SizesAssumption DEF QueueTypes, CountTypes, NoEvent
<1>1. ASSUME Start PROVE CountTypes'
  BY <1>1 DEF Start, StartEtw, StartEtwFails, Fault, Selected, queues, threads
<1>2. ASSUME Recover PROVE CountTypes'
  BY <1>2 DEF Recover, StopEtw, EtwFailed, queues, threads, history
<1>3. ASSUME RecoverJoined PROVE CountTypes'
  BY <1>3 DEF RecoverJoined, DropEtw, Joined, Selected, history
<1>4. ASSUME Attempt PROVE CountTypes'
  BY <1>4 DEF Attempt, StartEtw, StartEtwFails, Fault, Selected, queues, threads
<1>5. ASSUME Drain PROVE CountTypes'
  BY <1>5 DEF Drain, threads
<1>6. ASSUME Stop PROVE CountTypes'
  BY <1>6 DEF Stop, StopEtw, queues, threads, history
<1>7. ASSUME StopJoined PROVE CountTypes'
  BY <1>7 DEF StopJoined, DropEtw, Joined, history
<1>8. ASSUME Callback PROVE CountTypes'
  BY <1>8 DEF Callback, manager, threads
<1>9. ASSUME ProcessTraceReturns PROVE CountTypes'
  BY <1>9 DEF ProcessTraceReturns, Fault, manager, queues, history
<1>10. ASSUME ConsumerEnds PROVE CountTypes'
  BY <1>10 DEF ConsumerEnds, manager, queues, history
<1>11. ASSUME LossReported PROVE CountTypes'
  BY <1>11 DEF LossReported, Fault, manager, queues, threads, history
<1>12. ASSUME ParserPops PROVE CountTypes'
  BY <1>12 DEF ParserPops, manager, threads, history
<1>13. ASSUME EnqueueOutput PROVE CountTypes'
  BY <1>13 DEF EnqueueOutput, manager, threads, history
<1>14. ASSUME ParseFails PROVE CountTypes'
  BY <1>14 DEF ParseFails, Fault, manager, threads, history
<1>15. ASSUME ParserEnds PROVE CountTypes'
  BY <1>15 DEF ParserEnds, manager, queues, history
<1>16. ASSUME SessionTaken PROVE CountTypes'
  BY <1>16 DEF SessionTaken, Fault, manager, queues, threads, history
<1>17. ASSUME Tick PROVE CountTypes'
  BY <1>17 DEF Tick, queues, threads, history
<1>18. ASSUME ClockSetBack PROVE CountTypes'
  BY <1>18 DEF ClockSetBack, Fault, queues, threads, history
<1>19. CASE UNCHANGED vars
  BY <1>19 DEF vars, manager, queues, threads, history
<1> QED
  BY <1>1, <1>2, <1>3, <1>4, <1>5, <1>6, <1>7, <1>8, <1>9, <1>10, <1>11, <1>12, <1>13, <1>14,
     <1>15, <1>16, <1>17, <1>18, <1>19
  DEF Next, CommandLoop, Consumer, Parser, Windows

LEMMA TypesPreserved == TypeOK /\ [Next]_vars => TypeOK'
<1> SUFFICES ASSUME TypeOK, [Next]_vars PROVE TypeOK'
  OBVIOUS
<1>1. ClockTypes /\ FlagTypes /\ QueueTypes /\ CountTypes
  BY TypeParts
<1>2. EtwTypes' /\ ClockTypes' /\ FlagTypes' /\ QueueTypes' /\ CountTypes'
  BY <1>1, EtwTypesPreserved, ClockTypesPreserved, FlagTypesPreserved,
     QueueTypesPreserved, CountTypesPreserved
<1> QED
  BY <1>2 DEF TypeOK, EtwTypes, ClockTypes, FlagTypes, QueueTypes, CountTypes

\* Every step keeps threads, session and queues in phase.
LEMMA PhasesPreserved ==
    ASSUME TypeOK, Phases, Failing, [Next]_vars
    PROVE  Phases'
<1> USE DEF TypeOK, Phases, Failing, Over, NoEvent
<1>1. ASSUME Start PROVE Phases'
  BY <1>1 DEF Start, StartEtw, StartEtwFails, Fault, Selected, FreshEtw, queues, threads
<1>2. ASSUME Recover PROVE Phases'
  BY <1>2 DEF Recover, StopEtw, EtwFailed, Health, Degraded, queues, threads, history
<1>3. ASSUME RecoverJoined PROVE Phases'
  BY <1>3 DEF RecoverJoined, DropEtw, Joined, Selected, history
<1>4. ASSUME Attempt PROVE Phases'
  BY <1>4 DEF Attempt, StartEtw, StartEtwFails, Fault, Selected, FreshEtw, queues, threads
<1>5. ASSUME Drain PROVE Phases'
  BY <1>5 DEF Drain, threads
<1>6. ASSUME Stop PROVE Phases'
  BY <1>6 DEF Stop, StopEtw, queues, threads, history
<1>7. ASSUME StopJoined PROVE Phases'
  BY <1>7 DEF StopJoined, DropEtw, Joined, history
<1>8. ASSUME Callback PROVE Phases'
  BY <1>8 DEF Callback, manager, threads
<1>9. ASSUME ProcessTraceReturns PROVE Phases'
  BY <1>9 DEF ProcessTraceReturns, Fault, manager, queues, history
<1>10. ASSUME ConsumerEnds PROVE Phases'
  BY <1>10 DEF ConsumerEnds, manager, queues, history
<1>11. ASSUME LossReported PROVE Phases'
  BY <1>11 DEF LossReported, Fault, manager, queues, threads, history
<1>12. ASSUME ParserPops PROVE Phases'
  BY <1>12 DEF ParserPops, manager, threads, history
<1>13. ASSUME EnqueueOutput PROVE Phases'
  BY <1>13 DEF EnqueueOutput, manager, threads, history
<1>14. ASSUME ParseFails PROVE Phases'
  BY <1>14 DEF ParseFails, Fault, manager, threads, history
<1>15. ASSUME ParserEnds PROVE Phases'
  BY <1>15 DEF ParserEnds, manager, queues, history
<1>16. ASSUME SessionTaken PROVE Phases'
  BY <1>16 DEF SessionTaken, Fault, manager, queues, threads, history
<1>17. ASSUME Tick PROVE Phases'
  BY <1>17 DEF Tick, queues, threads, history
<1>18. ASSUME ClockSetBack PROVE Phases'
  BY <1>18 DEF ClockSetBack, Fault, queues, threads, history
<1>19. CASE UNCHANGED vars
  BY <1>19 DEF vars, manager, queues, threads, history
<1> QED
  BY <1>1, <1>2, <1>3, <1>4, <1>5, <1>6, <1>7, <1>8, <1>9, <1>10, <1>11, <1>12, <1>13, <1>14,
     <1>15, <1>16, <1>17, <1>18, <1>19
  DEF Next, CommandLoop, Consumer, Parser, Windows

\* Every step leaves a producer failed only after ProcessTrace.
LEMMA FailingPreserved ==
    ASSUME TypeOK, Phases, Failing, [Next]_vars
    PROVE  Failing'
<1> USE DEF TypeOK, Phases, Failing, Over, NoEvent
<1>1. ASSUME Start PROVE Failing'
  BY <1>1, NewEtw DEF Start, StartEtw, StartEtwFails, Fault, Selected, queues, threads
<1>2. ASSUME Recover PROVE Failing'
  BY <1>2 DEF Recover, StopEtw, EtwFailed, Health, Degraded, queues, threads, history
<1>3. ASSUME RecoverJoined PROVE Failing'
  BY <1>3 DEF RecoverJoined, DropEtw, Joined, Selected, history
<1>4. ASSUME Attempt PROVE Failing'
  BY <1>4, NewEtw DEF Attempt, StartEtw, StartEtwFails, Fault, Selected, queues, threads
<1>5. ASSUME Drain PROVE Failing'
  BY <1>5 DEF Drain, threads
<1>6. ASSUME Stop PROVE Failing'
  BY <1>6 DEF Stop, StopEtw, queues, threads, history
<1>7. ASSUME StopJoined PROVE Failing'
  BY <1>7 DEF StopJoined, DropEtw, Joined, history
<1>8. ASSUME Callback PROVE Failing'
  BY <1>8 DEF Callback, manager, threads
<1>9. ASSUME ProcessTraceReturns PROVE Failing'
  BY <1>9 DEF ProcessTraceReturns, Fault, manager, queues, history
<1>10. ASSUME ConsumerEnds PROVE Failing'
  BY <1>10 DEF ConsumerEnds, manager, queues, history
<1>11. ASSUME LossReported PROVE Failing'
  BY <1>11 DEF LossReported, Fault, manager, queues, threads, history
<1>12. ASSUME ParserPops PROVE Failing'
  BY <1>12 DEF ParserPops, manager, threads, history
<1>13. ASSUME EnqueueOutput PROVE Failing'
  BY <1>13 DEF EnqueueOutput, manager, threads, history
<1>14. ASSUME ParseFails PROVE Failing'
  BY <1>14 DEF ParseFails, Fault, manager, threads, history
<1>15. ASSUME ParserEnds PROVE Failing'
  BY <1>15 DEF ParserEnds, manager, queues, history
<1>16. ASSUME SessionTaken PROVE Failing'
  BY <1>16 DEF SessionTaken, Fault, manager, queues, threads, history
<1>17. ASSUME Tick PROVE Failing'
  BY <1>17 DEF Tick, queues, threads, history
<1>18. ASSUME ClockSetBack PROVE Failing'
  BY <1>18 DEF ClockSetBack, Fault, queues, threads, history
<1>19. CASE UNCHANGED vars
  BY <1>19 DEF vars, manager, queues, threads, history
<1> QED
  BY <1>1, <1>2, <1>3, <1>4, <1>5, <1>6, <1>7, <1>8, <1>9, <1>10, <1>11, <1>12, <1>13, <1>14,
     <1>15, <1>16, <1>17, <1>18, <1>19
  DEF Next, CommandLoop, Consumer, Parser, Windows

\* Every step keeps the events in order.
LEMMA OrderPreserved ==
    ASSUME TypeOK, Phases, Order, [Next]_vars
    PROVE  Order'
<1> USE SizesAssumption, TimesAssumption, BoundsAssumption DEF TypeOK, Order, NoEvent
<1>1. ASSUME Start PROVE Order'
  BY <1>1 DEF Start, StartEtw, StartEtwFails, Fault, queues, threads
<1>2. ASSUME Recover PROVE Order'
  BY <1>2 DEF Recover, StopEtw, queues, threads, history
<1>3. ASSUME RecoverJoined PROVE Order'
  BY <1>3 DEF RecoverJoined, DropEtw, history, Sorted, Between, Before
<1>4. ASSUME Attempt PROVE Order'
  BY <1>4 DEF Attempt, StartEtw, StartEtwFails, Fault, queues, threads
<1>5. ASSUME Drain PROVE Order'
  <2> DEFINE n == IF Len(output) < MaxDrained THEN Len(output) ELSE MaxDrained
  <2>1. /\ n \in 0 .. Len(output) /\ output' = SubSeq(output, n + 1, Len(output))
        /\ handed' = IF n = 0 THEN handed ELSE output[n]
        /\ UNCHANGED <<raw, held, received>>
    BY <1>5 DEF Drain
  <2> HIDE DEF n
  <2>2. /\ output' \in Seq(Nat) /\ Len(output') = Len(output) - n /\ Len(output) \in Nat
        /\ \A i \in 1 .. Len(output') : output'[i] = output[i + n] /\ i + n \in 1 .. Len(output)
    <3>1. /\ output' \in Seq(Nat) /\ Len(output') = Len(output) - n
          /\ \A i \in 1 .. Len(output') : output'[i] = output[i + n]
      BY <2>1, SuffixFacts
    <3>2. Len(output) \in Nat /\ n \in Nat
      BY <2>1
    <3>3. ASSUME NEW i \in 1 .. Len(output') PROVE i + n \in 1 .. Len(output)
      <4>1. Len(output') = Len(output) - n
        BY <3>1
      <4> QED
        BY <3>2, <4>1, ShiftedIndex
    <3> QED
      BY <3>1, <3>2, <3>3
  <2>3. n # 0 => n \in 1 .. Len(output)
    BY <2>1
  <2>4. handed' \in Nat /\ handed =< handed' /\ handed' =< received
    BY <2>1, <2>3, SMTT(30) DEF Between
  <2>5. Sorted(output') /\ Before(output', raw)
    <3>1. ASSUME NEW i \in 1 .. Len(output'), NEW j \in 1 .. Len(output'), i < j
          PROVE  output'[i] < output'[j]
      <4>1. i + n < j + n /\ i + n \in 1 .. Len(output) /\ j + n \in 1 .. Len(output)
        BY <2>1, <2>2, <3>1
      <4> QED
        BY <2>2, <4>1 DEF Sorted
    <3>2. Before(output', raw)
      BY <2>2 DEF Before
    <3> QED
      BY <3>1, <3>2 DEF Sorted
  <2>6. \A high \in Nat : Between(output, handed, high) => Between(output', handed', high)
    <3> SUFFICES ASSUME NEW high \in Nat, Between(output, handed, high),
                        NEW i \in 1 .. Len(output')
                 PROVE  handed' < output'[i] /\ output'[i] < high
      BY DEF Between
    <3>1. output'[i] = output[i + n] /\ i + n \in 1 .. Len(output)
      BY <2>2
    <3>2. CASE n = 0
      BY <2>1, <3>1, <3>2 DEF Between
    <3>3. CASE n # 0
      <4>1. n < i + n
        BY <2>1, <2>2
      <4> QED
        BY <2>1, <2>3, <3>1, <3>3, <4>1 DEF Sorted, Between
    <3> QED
      BY <3>2, <3>3
  <2>8. Between(raw, handed', received + 1)
    <3> SUFFICES ASSUME NEW i \in 1 .. Len(raw)
                 PROVE  handed' < raw[i] /\ raw[i] < received + 1
      BY DEF Between
    <3>1. handed < raw[i] /\ raw[i] < received + 1
      BY DEF Between
    <3>2. n # 0 => output[n] < raw[i]
      BY <2>3 DEF Before
    <3> QED
      BY <2>1, <3>1, <3>2
  <2>9. held # 0 => handed' < held
    <3>1. held # 0 /\ n # 0 => output[n] < held
      BY <2>3 DEF Between
    <3> QED
      BY <2>1, <3>1
  <2> QED
    BY <2>1, <2>4, <2>5, <2>6, <2>8, <2>9
<1>6. ASSUME Stop PROVE Order'
  BY <1>6 DEF Stop, StopEtw, queues, threads, history
<1>7. ASSUME StopJoined PROVE Order'
  BY <1>7 DEF StopJoined, DropEtw, history, Sorted, Between, Before
<1>8. ASSUME Callback PROVE Order'
  <2>1. /\ raw' = Enqueued(raw, RawCapacity, received + 1) /\ received' = received + 1
        /\ UNCHANGED <<output, held, handed>>
    BY <1>8 DEF Callback
  <2>2. received + 1 < received' + 1 /\ handed < received + 1 /\ held < received + 1
        /\ received + 1 \in Nat /\ received' + 1 \in Nat
    BY <2>1
  <2>3. Sorted(raw') /\ Between(raw', handed, received' + 1)
    BY <2>1, <2>2, EnqueuedInOrder
  <2>4. held # 0 => Between(raw', held, received' + 1)
    BY <2>1, <2>2, EnqueuedInOrder
  <2>5. \A x : In(x, raw') => x = received + 1 \/ In(x, raw)
    BY <2>1, <2>2, EnqueuedKeeps
  <2>6. Before(output', raw')
    <3> SUFFICES ASSUME NEW i \in 1 .. Len(output), NEW j \in 1 .. Len(raw')
                 PROVE  output[i] < raw'[j]
      BY <2>1 DEF Before
    <3>1. raw'[j] = received + 1 \/ In(raw'[j], raw)
      BY <2>5 DEF In
    <3>2. output[i] < received + 1
      BY DEF Between
    <3> QED
      BY <3>1, <3>2 DEF Before, In
  <2>7. Between(output, handed, received' + 1)
    BY <2>1 DEF Between
  <2> QED
    BY <2>1, <2>2, <2>3, <2>4, <2>6, <2>7
<1>9. ASSUME ProcessTraceReturns PROVE Order'
  BY <1>9 DEF ProcessTraceReturns, Fault, manager, queues, history
<1>10. ASSUME ConsumerEnds PROVE Order'
  BY <1>10 DEF ConsumerEnds, manager, queues, history
<1>11. ASSUME LossReported PROVE Order'
  BY <1>11 DEF LossReported, Fault, manager, queues, threads, history
<1>12. ASSUME ParserPops PROVE Order'
  <2>1. /\ held = 0 /\ held' = Head(raw) /\ raw' = Tail(raw) /\ raw # <<>>
        /\ UNCHANGED <<output, handed, received>>
    BY <1>12 DEF ParserPops, history
  <2>2. /\ held' \in Nat /\ held' = raw[1] /\ Len(raw) \in Nat \ {0}
        /\ raw' \in Seq(Nat) /\ Len(raw') = Len(raw) - 1
        /\ \A i \in 1 .. Len(raw') : raw'[i] = raw[i + 1] /\ i + 1 \in 1 .. Len(raw)
    BY <2>1, PoppedFacts
  <2>3. handed < held' /\ held' =< received
    BY <2>2 DEF Between
  <2>4. Sorted(raw')
    <3> SUFFICES ASSUME NEW i \in 1 .. Len(raw'), NEW j \in 1 .. Len(raw'), i < j
                 PROVE  raw'[i] < raw'[j]
      BY DEF Sorted
    <3>1. i + 1 < j + 1 /\ i + 1 \in 1 .. Len(raw) /\ j + 1 \in 1 .. Len(raw)
      BY <2>2
    <3> QED
      BY <2>2, <3>1 DEF Sorted
  <2>5. ASSUME NEW i \in 1 .. Len(raw')
        PROVE  /\ handed < raw'[i] /\ raw'[i] < received + 1 /\ held' < raw'[i]
               /\ \A k \in 1 .. Len(output) : output[k] < raw'[i]
    <3>1. i + 1 \in 1 .. Len(raw) /\ 1 \in 1 .. Len(raw) /\ 1 < i + 1 /\ raw'[i] = raw[i + 1]
      BY <2>2, SMTT(30)
    <3>2. handed < raw[i + 1] /\ raw[i + 1] < received + 1
      BY <3>1 DEF Between
    <3>3. raw[1] < raw[i + 1]
      BY <3>1 DEF Sorted
    <3>4. \A k \in 1 .. Len(output) : output[k] < raw[i + 1]
      BY <3>1 DEF Before
    <3> QED
      BY <2>2, <3>1, <3>2, <3>3, <3>4
  <2>7. /\ Before(output, raw') /\ Between(raw', handed, received + 1)
        /\ Between(raw', held', received + 1)
    BY <2>5 DEF Before, Between
  <2>6. Between(output, handed, held')
    BY <2>2 DEF Before, Between
  <2> QED
    BY <2>1, <2>2, <2>3, <2>4, <2>6, <2>7
<1>13. ASSUME EnqueueOutput PROVE Order'
  <2>1. /\ held # 0 /\ held' = 0 /\ output' = Enqueued(output, OutputCapacity, held)
        /\ UNCHANGED <<raw, handed, received>>
    BY <1>13 DEF EnqueueOutput, history
  <2>2. Sorted(output') /\ Between(output', handed, received + 1)
    <3>1. held < received + 1 /\ received + 1 \in Nat /\ handed < held
      BY <2>1
    <3> QED
      BY <2>1, <3>1, EnqueuedInOrder
  <2>3. \A x : In(x, output') => x = held \/ In(x, output)
    BY <2>1, EnqueuedKeeps
  <2>4. Before(output', raw)
    <3> SUFFICES ASSUME NEW i \in 1 .. Len(output'), NEW j \in 1 .. Len(raw)
                 PROVE  output'[i] < raw[j]
      BY DEF Before
    <3>1. output'[i] = held \/ In(output'[i], output)
      BY <2>3 DEF In
    <3> QED
      BY <2>1, <3>1 DEF Before, Between, In
  <2> QED
    BY <2>1, <2>2, <2>4
<1>14. ASSUME ParseFails PROVE Order'
  BY <1>14 DEF ParseFails, Fault, manager, threads, history
<1>15. ASSUME ParserEnds PROVE Order'
  BY <1>15 DEF ParserEnds, manager, queues, history
<1>16. ASSUME SessionTaken PROVE Order'
  BY <1>16 DEF SessionTaken, Fault, manager, queues, threads, history
<1>17. ASSUME Tick PROVE Order'
  BY <1>17 DEF Tick, queues, threads, history
<1>18. ASSUME ClockSetBack PROVE Order'
  BY <1>18 DEF ClockSetBack, Fault, queues, threads, history
<1>19. CASE UNCHANGED vars
  BY <1>19 DEF vars, manager, queues, threads, history
<1> QED
  BY <1>1, <1>2, <1>3, <1>4, <1>5, <1>6, <1>7, <1>8, <1>9, <1>10, <1>11, <1>12, <1>13, <1>14,
     <1>15, <1>16, <1>17, <1>18, <1>19
  DEF Next, CommandLoop, Consumer, Parser, Windows

\* A new producer has been given no event.
LEMMA NewProducerLocated ==
    ASSUME TypeOK, StartEtw, UNCHANGED <<queues, received, handed>>
    PROVE  Located'
<1>1. base' = received' /\ received' \in Nat
  BY DEF StartEtw, TypeOK
<1>2. \A e \in base' + 1 .. received' : FALSE
  BY <1>1
<1> QED
  BY <1>2 DEF Located

\* An end of the threads loses no event.
LEMMA FlagsKept ==
    ASSUME TypeOK, Located,
           \/ UNCHANGED etw
           \/ etw' = [etw EXCEPT !.alive = FALSE]
           \/ etw' = [etw EXCEPT !.failure = @ \/ etw.alive]
           \/ etw' = [etw EXCEPT !.failure = TRUE],
           UNCHANGED <<producer, raw, held, output, outputDropped, received, handed, base>>
    PROVE  Located'
<1>1. etw \in EtwState
  BY DEF TypeOK
<1>2. ~ Degraded' /\ ~ etw'.failure => ~ Degraded /\ ~ etw.failure
  BY <1>1 DEF EtwState, Degraded
<1> QED
  BY <1>2 DEF Located, In

\* Every step keeps each event located.
LEMMA LocatedPreserved ==
    ASSUME TypeOK, Phases, Order, Located, [Next]_vars
    PROVE  Located'
<1> USE SizesAssumption, TimesAssumption, BoundsAssumption
   DEF TypeOK, Located, Degraded, NoEvent
<1>1. ASSUME Start PROVE Located'
  <2>1. CASE StartEtw
    BY <1>1, <2>1, NewProducerLocated DEF Start
  <2>2. CASE StartEtwFails
    BY <1>1, <2>2 DEF Start, StartEtwFails, queues
  <2> QED
    BY <1>1, <2>1, <2>2 DEF Start
<1>2. ASSUME Recover PROVE Located'
  <2>1. UNCHANGED <<producer, queues, history>>
    BY <1>2 DEF Recover
  <2>2. UNCHANGED etw \/ etw' = [etw EXCEPT !.alive = FALSE]
    BY <1>2 DEF Recover, StopEtw
  <2> QED
    BY <2>1, <2>2, FlagsKept DEF queues, history
<1>3. ASSUME RecoverJoined PROVE Located'
  BY <1>3 DEF RecoverJoined, DropEtw, Joined, history
<1>4. ASSUME Attempt PROVE Located'
  <2>1. CASE ~ AttemptDue
    BY <1>4, <2>1 DEF Attempt, queues, In
  <2>2. CASE StartEtw
    BY <1>4, <2>2, NewProducerLocated DEF Attempt
  <2>3. CASE StartEtwFails
    BY <1>4, <2>3 DEF Attempt, StartEtwFails, queues
  <2> QED
    BY <1>4, <2>1, <2>2, <2>3 DEF Attempt
<1>5. ASSUME Drain PROVE Located'
  <2> DEFINE n == IF Len(output) < MaxDrained THEN Len(output) ELSE MaxDrained
  <2>1. /\ n \in 0 .. Len(output) /\ output' = SubSeq(output, n + 1, Len(output))
        /\ handed' = IF n = 0 THEN handed ELSE output[n]
        /\ UNCHANGED <<raw, held, received, base, producer, etw, outputDropped>>
    BY <1>5 DEF Drain
  <2> HIDE DEF n
  <2>2. /\ Len(output') = Len(output) - n
        /\ \A i \in 1 .. Len(output') : output'[i] = output[i + n]
    BY <2>1, SuffixFacts
  <2>7. Len(output) \in Nat /\ n \in Nat
    BY <2>1
  <2>3. ASSUME NEW e \in Nat, In(e, output) PROVE e =< handed' \/ In(e, output')
    <3>1. PICK i \in 1 .. Len(output) : output[i] = e
      BY <2>3 DEF In
    <3>2. CASE i > n
      <4>1. i - n \in 1 .. Len(output') /\ (i - n) + n = i
        BY <2>1, <2>2, <2>7, <3>2
      <4> QED
        BY <2>2, <3>1, <4>1 DEF In
    <3>3. CASE i =< n
      <4>1. n \in 1 .. Len(output) /\ n # 0
        BY <2>1, <3>3
      <4>2. i = n \/ output[i] < output[n]
        BY <2>1, <3>3, <4>1 DEF Order, Sorted
      <4> QED
        BY <2>1, <3>1, <4>1, <4>2
    <3> QED
      BY <2>1, <3>2, <3>3
  <2>4. handed =< handed'
    BY <2>1 DEF Order, Between
  <2>5. \A e \in base + 1 .. received : e \in Nat
    OBVIOUS
  <2>6. \A e \in Nat : e =< handed => e =< handed'
    BY <2>1, <2>4
  <2> QED
    BY <2>1, <2>3, <2>5, <2>6
<1>6. ASSUME Stop PROVE Located'
  <2>1. UNCHANGED <<producer, queues, history>>
    BY <1>6 DEF Stop
  <2>2. UNCHANGED etw \/ etw' = [etw EXCEPT !.alive = FALSE]
    BY <1>6 DEF Stop, StopEtw
  <2> QED
    BY <2>1, <2>2, FlagsKept DEF queues, history
<1>7. ASSUME StopJoined PROVE Located'
  BY <1>7 DEF StopJoined, DropEtw, Joined, history
<1>8. ASSUME Callback PROVE Located'
  <2>1. /\ raw' = Enqueued(raw, RawCapacity, received + 1) /\ received' = received + 1
        /\ etw' = [etw EXCEPT !.rawDropped = @ \/ Len(raw) >= RawCapacity]
        /\ UNCHANGED <<output, held, handed, base, producer, outputDropped>>
    BY <1>8 DEF Callback, manager
  <2>2. In(received + 1, raw') /\ (~ (Len(raw) >= RawCapacity) => \A x : In(x, raw) => In(x, raw'))
    <3>1. received + 1 \in Nat
      OBVIOUS
    <3> QED
      BY <2>1, <3>1, EnqueuedKeeps
  <2> SUFFICES ASSUME producer, ~ Degraded', ~ etw'.failure, NEW e \in base + 1 .. received'
               PROVE  e =< handed \/ In(e, output) \/ In(e, raw') \/ (held # 0 /\ held = e)
    BY <2>1
  <2>3. ~ (Len(raw) >= RawCapacity) /\ ~ Degraded /\ ~ etw.failure
    BY <2>1 DEF EtwState, Degraded
  <2>4. e = received + 1 \/ e \in base + 1 .. received
    <3>1. base \in Nat /\ received \in Nat /\ e \in base + 1 .. received + 1
      BY <2>1
    <3> QED
      BY <3>1, LastOrEarlier
  <2> QED
    BY <2>2, <2>3, <2>4
<1>9. ASSUME ProcessTraceReturns PROVE Located'
  <2>1. UNCHANGED <<producer, queues, history>>
    BY <1>9 DEF ProcessTraceReturns
  <2>2. \/ UNCHANGED etw
        \/ etw' = [etw EXCEPT !.failure = @ \/ etw.alive]
        \/ etw' = [etw EXCEPT !.failure = TRUE]
    BY <1>9 DEF ProcessTraceReturns
  <2> QED
    BY <2>1, <2>2, FlagsKept DEF queues, history
<1>10. ASSUME ConsumerEnds PROVE Located'
  BY <1>10 DEF ConsumerEnds, manager, queues, history
<1>11. ASSUME LossReported PROVE Located'
  BY <1>11 DEF LossReported, Fault, manager, queues, threads, history
<1>12. ASSUME ParserPops PROVE Located'
  <2>1. /\ held = 0 /\ held' = Head(raw) /\ raw' = Tail(raw) /\ raw # <<>>
        /\ UNCHANGED <<output, handed, received, base, producer, etw, outputDropped>>
    BY <1>12 DEF ParserPops, history
  <2>2. \A x : In(x, raw) => x = held' \/ In(x, raw')
    BY <2>1, PoppedFacts
  <2>3. held' # 0
    <3>1. held' = raw[1] /\ 1 \in 1 .. Len(raw)
      BY <2>1, PoppedFacts
    <3>2. handed < raw[1] /\ raw[1] \in Nat /\ handed \in Nat
      BY <3>1 DEF Order, Between
    <3> QED
      BY <3>1, <3>2
  <2> QED
    BY <2>1, <2>2, <2>3
<1>13. ASSUME EnqueueOutput PROVE Located'
  <2>1. /\ held # 0 /\ held' = 0 /\ output' = Enqueued(output, OutputCapacity, held)
        /\ outputDropped' = (outputDropped \/ Len(output) >= OutputCapacity)
        /\ UNCHANGED <<raw, handed, received, base, producer, etw>>
    BY <1>13 DEF EnqueueOutput, history
  <2>2. In(held, output')
        /\ (~ (Len(output) >= OutputCapacity) => \A x : In(x, output) => In(x, output'))
    BY <2>1, EnqueuedKeeps
  <2> QED
    BY <2>1, <2>2
<1>14. ASSUME ParseFails PROVE Located'
  BY <1>14 DEF ParseFails, Fault, manager, threads, history
<1>15. ASSUME ParserEnds PROVE Located'
  BY <1>15 DEF ParserEnds, manager, queues, history
<1>16. ASSUME SessionTaken PROVE Located'
  BY <1>16 DEF SessionTaken, Fault, manager, queues, threads, history
<1>17. ASSUME Tick PROVE Located'
  BY <1>17 DEF Tick, queues, threads, history
<1>18. ASSUME ClockSetBack PROVE Located'
  BY <1>18 DEF ClockSetBack, Fault, queues, threads, history
<1>19. CASE UNCHANGED vars
  BY <1>19 DEF vars, manager, queues, threads, history
<1> QED
  BY <1>1, <1>2, <1>3, <1>4, <1>5, <1>6, <1>7, <1>8, <1>9, <1>10, <1>11, <1>12, <1>13, <1>14,
     <1>15, <1>16, <1>17, <1>18, <1>19
  DEF Next, CommandLoop, Consumer, Parser, Windows

LEMMA InvariantPreserved == IInv /\ [Next]_vars => IInv'
BY TypesPreserved, PhasesPreserved, FailingPreserved, OrderPreserved, LocatedPreserved DEF IInv

LEMMA Invariance == Spec => []IInv
BY InitInvariant, InvariantPreserved, PTL DEF Spec

-----------------------------------------------------------------------------
(* The properties *)

\* Queues, clock and flags keep their types and capacities.
THEOREM TypeCorrect == Spec => []TypeOK
<1>1. IInv => TypeOK
  BY DEF IInv
<1> QED
  BY Invariance, <1>1, PTL

\* A fallback to polling gives up no event the callback had accepted.
THEOREM NothingStrandedHolds == Spec => []NothingStranded
<1>1. IInv => NothingStranded
  BY DEF IInv, TypeOK, Phases, Failing, Over, NothingStranded, Joined
<1> QED
  BY Invariance, <1>1, PTL

\* A stop leaves no thread, no event and no trace session behind.
THEOREM StoppedIsQuietHolds == Spec => []StoppedIsQuiet
<1>1. IInv => StoppedIsQuiet
  BY DEF IInv, TypeOK, Phases, StoppedIsQuiet, Pipeline
<1> QED
  BY Invariance, <1>1, PTL

\* Two sequences in order, one before the other, are in order one after the other.
LEMMA JoinedInOrder ==
    ASSUME NEW s \in Seq(Nat), NEW t \in Seq(Nat), Sorted(s), Sorted(t), Before(s, t)
    PROVE  /\ s \o t \in Seq(Nat) /\ Sorted(s \o t)
           /\ \A e : In(e, s) \/ In(e, t) <=> In(e, s \o t)
<1>1. /\ s \o t \in Seq(Nat) /\ Len(s \o t) = Len(s) + Len(t)
      /\ Len(s) \in Nat /\ Len(t) \in Nat
      /\ \A i \in 1 .. Len(s) : (s \o t)[i] = s[i]
      /\ \A i \in 1 .. Len(t) : (s \o t)[Len(s) + i] = t[i]
  OBVIOUS
<1>2. \A i \in 1 .. Len(s \o t) :
         \/ i \in 1 .. Len(s) /\ (s \o t)[i] = s[i]
         \/ i - Len(s) \in 1 .. Len(t) /\ (s \o t)[i] = t[i - Len(s)]
  OBVIOUS
<1>3. ASSUME NEW i \in 1 .. Len(s \o t), NEW j \in 1 .. Len(s \o t), i < j
      PROVE  (s \o t)[i] < (s \o t)[j]
  <2>1. CASE i \in 1 .. Len(s) /\ j \in 1 .. Len(s)
    BY <1>1, <1>3, <2>1 DEF Sorted
  <2>2. CASE i \in 1 .. Len(s) /\ j - Len(s) \in 1 .. Len(t) /\ (s \o t)[j] = t[j - Len(s)]
    BY <1>1, <2>2 DEF Before
  <2>3. CASE /\ i - Len(s) \in 1 .. Len(t) /\ (s \o t)[i] = t[i - Len(s)]
             /\ j - Len(s) \in 1 .. Len(t) /\ (s \o t)[j] = t[j - Len(s)]
    <3>1. i - Len(s) < j - Len(s)
      BY <1>1, <1>3
    <3> QED
      BY <2>3, <3>1 DEF Sorted
  <2>4. ~ (i - Len(s) \in 1 .. Len(t) /\ j \in 1 .. Len(s))
    BY <1>1, <1>3
  <2> QED
    BY <1>2, <2>1, <2>2, <2>3, <2>4
<1>4. ASSUME NEW e, In(e, s \o t) PROVE In(e, s) \/ In(e, t)
  BY <1>2, <1>4 DEF In
<1>5. ASSUME NEW e, In(e, s) PROVE In(e, s \o t)
  BY <1>1, <1>5 DEF In
<1>6. ASSUME NEW e, In(e, t) PROVE In(e, s \o t)
  <2>1. PICK i \in 1 .. Len(t) : t[i] = e
    BY <1>6 DEF In
  <2>2. Len(s) + i \in 1 .. Len(s \o t)
    BY <1>1
  <2> QED
    BY <1>1, <2>1, <2>2 DEF In
<1> QED
  BY <1>1, <1>3, <1>4, <1>5, <1>6 DEF Sorted

LEMMA BeforeIn ==
    ASSUME NEW s, NEW t, \A x, y : In(x, s) /\ In(y, t) => x < y
    PROVE  Before(s, t)
BY DEF Before, In

LEMMA SingleFacts ==
    ASSUME NEW n \in Nat
    PROVE  <<n>> \in Seq(Nat) /\ Sorted(<<n>>) /\ \A x : In(x, <<n>>) <=> x = n
BY DEF Sorted, In

LEMMA EmptyFacts == <<>> \in Seq(Nat) /\ Sorted(<<>>) /\ \A x : ~ In(x, <<>>)
BY DEF Sorted, In

\* What is on its way is in order, and each event of it is in one of its places.
LEMMA PipelineInOrder ==
    ASSUME TypeOK, Order
    PROVE  /\ Pipeline \in Seq(Nat) /\ Sorted(Pipeline)
           /\ \A x : In(x, Pipeline) <=>
                 In(x, output) \/ In(x, raw) \/ (held # NoEvent /\ x = held)
<1> DEFINE mid == IF held = NoEvent THEN <<>> ELSE <<held>>
<1>1. output \in Seq(Nat) /\ raw \in Seq(Nat) /\ held \in Nat
  BY DEF TypeOK
<1>2. mid \in Seq(Nat) /\ Sorted(mid) /\ \A x : In(x, mid) <=> held # NoEvent /\ x = held
  BY <1>1, SingleFacts, EmptyFacts
<1> HIDE DEF mid
<1>3. Before(output, mid)
  <2>1. \A x, y : In(x, output) /\ In(y, mid) => x < y
    BY <1>2 DEF Order, Between, In
  <2> QED
    BY <2>1, BeforeIn
<1>4. output \o mid \in Seq(Nat) /\ Sorted(output \o mid)
      /\ \A x : In(x, output) \/ In(x, mid) <=> In(x, output \o mid)
  BY <1>1, <1>2, <1>3, JoinedInOrder DEF Order
<1>5. Before(output \o mid, raw)
  <2>1. \A x, y : In(x, output) /\ In(y, raw) => x < y
    BY DEF Order, Before, In
  <2>2. \A x, y : In(x, mid) /\ In(y, raw) => x < y
    BY <1>2 DEF Order, Between, In
  <2> QED
    BY <1>4, <2>1, <2>2, BeforeIn
<1>6. (output \o mid) \o raw = Pipeline
  BY DEF Pipeline, mid
<1> QED
  BY <1>1, <1>2, <1>4, <1>5, <1>6, JoinedInOrder DEF Order

\* Ticks are handed the events of Windows in order, and none of them twice.
THEOREM InOrderHolds == Spec => []InOrder
<1>1. ASSUME IInv PROVE InOrder
  <2>1. /\ Pipeline \in Seq(Nat) /\ Sorted(Pipeline)
        /\ \A x : In(x, Pipeline) =>
              In(x, output) \/ In(x, raw) \/ (held # NoEvent /\ x = held)
    BY <1>1, PipelineInOrder DEF IInv
  <2>2. handed \in Nat /\ received \in Nat /\ received + 1 \in Nat /\ handed < received + 1
    BY <1>1 DEF IInv, TypeOK, Order
  <2>3. \A x : In(x, Pipeline) => handed < x /\ x < received + 1
    <3>1. \A x : In(x, output) \/ In(x, raw) => handed < x /\ x < received + 1
      BY <1>1 DEF IInv, Order, Between, In
    <3>2. held # NoEvent => handed < held /\ held < received + 1
      BY <1>1, <2>2 DEF IInv, TypeOK, Order
    <3> QED
      BY <2>1, <3>1, <3>2
  <2>4. Before(<<handed>>, Pipeline)
    BY <2>2, <2>3, SingleFacts, BeforeIn
  <2>5. <<handed>> \o Pipeline \in Seq(Nat) /\ Sorted(<<handed>> \o Pipeline)
        /\ \A x : In(x, <<handed>>) \/ In(x, Pipeline) <=> In(x, <<handed>> \o Pipeline)
    BY <2>1, <2>2, <2>4, SingleFacts, JoinedInOrder
  <2>6. Before(<<handed>> \o Pipeline, <<received + 1>>)
    BY <2>2, <2>3, <2>5, SingleFacts, BeforeIn
  <2>7. Sorted((<<handed>> \o Pipeline) \o <<received + 1>>)
    BY <2>2, <2>5, <2>6, SingleFacts, JoinedInOrder
  <2> QED
    BY <2>7 DEF InOrder, Sorted
<1> QED
  BY Invariance, <1>1, PTL

\* A producer that calls itself healthy has lost none of its events.
THEOREM HealthyIsCompleteHolds == Spec => []HealthyIsComplete
<1>1. ASSUME IInv PROVE HealthyIsComplete
  <2> SUFFICES ASSUME producer, Health = "healthy", NEW e \in base + 1 .. received
               PROVE  e =< handed \/ In(e, Pipeline)
    BY DEF HealthyIsComplete, In
  <2>1. ~ Degraded /\ ~ etw.failure
    BY DEF Health
  <2>2. e =< handed \/ In(e, output) \/ In(e, raw) \/ (held # NoEvent /\ held = e)
    BY <1>1, <2>1 DEF IInv, Located
  <2> QED
    BY <1>1, <2>2, PipelineInOrder DEF IInv
<1> QED
  BY Invariance, <1>1, PTL
=============================================================================

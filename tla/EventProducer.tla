---------------------------- MODULE EventProducer ----------------------------
(***************************************************************************)
(* The source of process events of a runtime tick: the producer manager of *)
(* process_watcher.rs over the ETW producer of etw_producer.rs.  Four      *)
(* parties run side by side: the command loop of the core, which starts,   *)
(* drains, recovers and stops; the consumer thread inside ProcessTrace,    *)
(* whose callback fills the raw queue; the parser thread, which moves      *)
(* events from the raw queue to the output queue; and Windows, where any   *)
(* administrator may stop the named trace session.                         *)
(***************************************************************************)
EXTENDS Integers, Sequences

CONSTANTS
    RawCapacity, OutputCapacity,    \* RAW_QUEUE_CAPACITY, OUTPUT_QUEUE_CAPACITY
    MaxDrained,                     \* MAX_DRAINED_EVENTS
    BaseInterval, MaxInterval,      \* the recovery interval, least and greatest
    MaxSkew,                        \* how far the wall clock is set back
    MaxEvents, MaxFaults, MaxStarts \* bounds of the model

ASSUME SizesAssumption ==
    /\ RawCapacity \in Nat \ {0}
    /\ OutputCapacity \in Nat \ {0}
    /\ MaxDrained \in Nat \ {0}

ASSUME TimesAssumption ==
    /\ BaseInterval \in Nat \ {0}
    /\ MaxInterval \in Nat
    /\ BaseInterval =< MaxInterval
    /\ MaxSkew \in Nat

ASSUME BoundsAssumption ==
    MaxEvents \in Nat /\ MaxFaults \in Nat /\ MaxStarts \in Nat

VARIABLES
    running,        \* the manager's running flag
    pc,             \* what the command loop is doing to the producer
    source,         \* status.selected_source and its health when stopped
    producer,       \* etw_producer.is_some()
    etw,            \* the producer's flags that its threads share
    session,        \* the trace session with the producer's name
    consumer, parser,
    raw, held, output,
    outputDropped,  \* dropped_event_count > 0, over all producers
    sinceAttempt,   \* time since last_recovery_attempt_ms, or Never
    interval,       \* recovery_interval_ms
    received,       \* events the callback was given, which numbers them
    handed,         \* history: the last event a tick was handed
    base,           \* history: the events received before the present producer
    faults, starts

manager == <<running, pc, source, sinceAttempt, interval, starts>>
queues == <<raw, held, output, outputDropped>>
threads == <<consumer, parser>>
history == <<received, handed, base>>
vars == <<manager, producer, etw, session, threads, queues, history, faults>>

\* No attempt is remembered: outside the range of the clock
Never == -MaxSkew - 1
NoEvent == 0
Events == 1..MaxEvents

FreshEtw == [alive |-> TRUE, rundown |-> TRUE, rawDropped |-> FALSE,
             lost |-> FALSE, parseErrors |-> FALSE, failure |-> FALSE]

EtwState == [alive : BOOLEAN, rundown : BOOLEAN, rawDropped : BOOLEAN,
             lost : BOOLEAN, parseErrors : BOOLEAN, failure : BOOLEAN]

TypeOK ==
    /\ running \in BOOLEAN
    /\ pc \in {"idle", "joining", "attempting", "draining", "closing"}
    /\ source \in {"etw", "polling", "stopped"}
    /\ producer \in BOOLEAN
    /\ etw \in EtwState
    /\ session \in {"none", "ours", "foreign"}
    /\ consumer \in {"none", "running", "ending", "done"}
    /\ parser \in {"none", "running", "done"}
    /\ raw \in Seq(Nat) /\ Len(raw) =< RawCapacity
    /\ held \in Nat
    /\ output \in Seq(Nat) /\ Len(output) =< OutputCapacity
    /\ outputDropped \in BOOLEAN
    /\ sinceAttempt \in Never..MaxInterval
    /\ interval \in BaseInterval..MaxInterval
    /\ received \in Nat /\ handed \in Nat /\ base \in Nat
    /\ faults \in Nat /\ starts \in Nat

Init ==
    /\ running = FALSE /\ pc = "idle" /\ source = "stopped"
    /\ producer = FALSE /\ etw = [FreshEtw EXCEPT !.alive = FALSE]
    /\ session \in {"none", "foreign"}
    /\ consumer = "none" /\ parser = "none"
    /\ raw = <<>> /\ held = NoEvent /\ output = <<>> /\ outputDropped = FALSE
    /\ sinceAttempt = Never /\ interval = BaseInterval
    /\ received = 0 /\ handed = 0 /\ base = 0
    /\ faults = 0 /\ starts = 0

-----------------------------------------------------------------------------
(* Pieces *)

\* Mutant: what the output queue dropped is not counted as degradation
DegradedByRawOnly == etw.rawDropped \/ etw.lost \/ etw.parseErrors \/ ~etw.rundown

\* The health the producer reports of itself
Degraded == \/ etw.rawDropped \/ outputDropped
            \/ etw.lost \/ etw.parseErrors \/ ~etw.rundown
Health == IF ~etw.alive \/ (etw.failure /\ ~Degraded) THEN "unavailable"
          ELSE IF Degraded \/ etw.failure THEN "degraded" ELSE "healthy"

\* A queue at its capacity gives up its oldest event
Enqueued(queue, capacity, e) ==
    Append(IF Len(queue) >= capacity THEN Tail(queue) ELSE queue, e)

Fault == faults < MaxFaults /\ faults' = faults + 1

\* select_process_watcher_producer.  No caller offers WMI or the service.
Selected(etwAvailable) == IF etwAvailable THEN "etw" ELSE "polling"

\* StartTraceW takes the name over from whoever has it; a refusal of any of the
\* calls that follow stops the session again.
StartEtw ==
    /\ producer' = TRUE
    /\ session' = "ours"
    /\ consumer' = "running" /\ parser' = "running"
    /\ base' = received
    /\ \/ etw' = FreshEtw /\ UNCHANGED faults
       \/ etw' = [FreshEtw EXCEPT !.rundown = FALSE, !.failure = TRUE] /\ Fault
    /\ source' = Selected(TRUE)
    /\ sinceAttempt' = Never /\ interval' = BaseInterval

StartEtwFails ==
    /\ Fault
    /\ session' \in {session, "none"}
    /\ source' = Selected(FALSE)
    /\ UNCHANGED <<producer, etw, threads, base>>

\* Mutant: only the threads are told to stop
StopEtwKeepingSession ==
    /\ etw' = [etw EXCEPT !.alive = FALSE]
    /\ UNCHANGED session

\* EtwProcessProducer::stop up to its joins
StopEtw ==
    /\ etw' = [etw EXCEPT !.alive = FALSE]
    /\ session' = IF session = "ours" THEN "none" ELSE session

Joined == consumer \in {"none", "done"} /\ parser \in {"none", "done"}

\* What the joined producer takes with it: its raw queue
DropEtw ==
    /\ producer' = FALSE
    /\ consumer' = "none" /\ parser' = "none"
    /\ raw' = <<>>

-----------------------------------------------------------------------------
(* The command loop *)

Start ==
    /\ pc = "idle" /\ ~running /\ starts < MaxStarts
    /\ starts' = starts + 1
    /\ running' = TRUE
    /\ \/ StartEtw
       \/ StartEtwFails /\ UNCHANGED <<sinceAttempt, interval>>
    /\ UNCHANGED <<pc, queues, received, handed>>

\* Mutant: the running flag of the producer is not asked
EtwFailedByReport == producer /\ etw.failure /\ ~Degraded

EtwFailed == producer /\ Health = "unavailable"

\* recover_if_due, first half: a failed producer is stopped, and its threads
\* joined, before anything else
Recover ==
    /\ pc = "idle" /\ running
    /\ \/ /\ source = "etw" /\ ~EtwFailed
          /\ pc' = "draining"
          /\ UNCHANGED <<etw, session>>
       \/ /\ EtwFailed
          /\ pc' = "joining"
          /\ StopEtw
       \/ /\ source # "etw" /\ ~EtwFailed
          /\ pc' = "attempting"
          /\ UNCHANGED <<etw, session>>
    /\ UNCHANGED <<running, source, sinceAttempt, interval, starts, producer, threads,
                   queues, history, faults>>

RecoverJoined ==
    /\ pc = "joining" /\ Joined
    /\ DropEtw
    /\ source' = Selected(FALSE)
    /\ pc' = "attempting"
    /\ UNCHANGED <<running, sinceAttempt, interval, starts, etw, session, held, output,
                   outputDropped, history, faults>>

AttemptDue == sinceAttempt = Never \/ sinceAttempt >= interval

Doubled == IF 2 * interval < MaxInterval THEN 2 * interval ELSE MaxInterval

\* recover_if_due, second half
Attempt ==
    /\ pc = "attempting"
    /\ pc' = "draining"
    /\ \/ /\ ~AttemptDue
          /\ UNCHANGED <<source, sinceAttempt, interval, producer, etw, session, threads,
                         base, faults>>
       \/ AttemptDue /\ StartEtw
       \/ /\ AttemptDue /\ StartEtwFails
          /\ sinceAttempt' = 0
          /\ interval' = Doubled
    /\ UNCHANGED <<running, starts, queues, received, handed>>

\* drain_events
Drain ==
    /\ pc = "draining"
    /\ LET count == IF Len(output) < MaxDrained THEN Len(output) ELSE MaxDrained
       IN  /\ output' = SubSeq(output, count + 1, Len(output))
           /\ handed' = IF count = 0 THEN handed ELSE output[count]
    /\ pc' = "idle"
    /\ UNCHANGED <<running, source, sinceAttempt, interval, starts, producer, etw, session,
                   threads, raw, held, outputDropped, received, base, faults>>

\* RuntimeProcessWatcherProducer::stop, up to the joins and after them
Stop ==
    /\ pc = "idle" /\ running
    /\ running' = FALSE
    /\ pc' = "closing"
    /\ IF producer THEN StopEtw ELSE UNCHANGED <<etw, session>>
    /\ UNCHANGED <<source, sinceAttempt, interval, starts, producer, threads, queues, history,
                   faults>>

StopJoined ==
    /\ pc = "closing" /\ Joined
    /\ DropEtw
    /\ output' = <<>>
    /\ source' = "stopped"
    /\ pc' = "idle"
    /\ UNCHANGED <<running, sinceAttempt, interval, starts, etw, session, held, outputDropped,
                   history, faults>>

-----------------------------------------------------------------------------
(* The threads of the producer *)

\* etw_event_record_callback, also for what is still buffered when the session
\* has ended
Callback ==
    /\ consumer = "running" /\ received < MaxEvents
    /\ received' = received + 1
    /\ raw' = Enqueued(raw, RawCapacity, received + 1)
    /\ etw' = [etw EXCEPT !.rawDropped = @ \/ Len(raw) >= RawCapacity]
    /\ UNCHANGED <<manager, producer, session, threads, held, output, outputDropped, handed,
                   base, faults>>

\* ProcessTrace returns, because the session ended or with an error of its own.
\* Only a stop that was asked for may be reported as cancelled.
ProcessTraceReturns ==
    /\ consumer = "running"
    /\ consumer' = "ending"
    /\ \/ /\ session # "ours"
          /\ \/ UNCHANGED etw
             \/ etw' = [etw EXCEPT !.failure = @ \/ etw.alive]
          /\ UNCHANGED faults
       \/ Fault /\ etw' = [etw EXCEPT !.failure = TRUE]
    /\ UNCHANGED <<manager, producer, session, parser, queues, history>>

ConsumerEnds ==
    /\ consumer = "ending"
    /\ consumer' = "done"
    /\ etw' = [etw EXCEPT !.alive = FALSE]
    /\ UNCHANGED <<manager, producer, session, parser, queues, history, faults>>

\* Mutant: the newest raw event is taken first
ParserPopsNewest ==
    /\ parser = "running" /\ held = NoEvent /\ raw # <<>>
    /\ held' = raw[Len(raw)]
    /\ raw' = SubSeq(raw, 1, Len(raw) - 1)
    /\ UNCHANGED <<manager, producer, etw, session, threads, output, outputDropped, history,
                   faults>>

ParserPops ==
    /\ parser = "running" /\ held = NoEvent /\ raw # <<>>
    /\ held' = Head(raw)
    /\ raw' = Tail(raw)
    /\ UNCHANGED <<manager, producer, etw, session, threads, output, outputDropped, history,
                   faults>>

EnqueueOutput ==
    /\ parser = "running" /\ held # NoEvent
    /\ output' = Enqueued(output, OutputCapacity, held)
    /\ held' = NoEvent
    /\ outputDropped' = (outputDropped \/ Len(output) >= OutputCapacity)
    /\ UNCHANGED <<manager, producer, etw, session, threads, raw, history, faults>>

ParseFails ==
    /\ parser = "running" /\ held # NoEvent /\ Fault
    /\ held' = NoEvent
    /\ etw' = [etw EXCEPT !.parseErrors = TRUE, !.failure = TRUE]
    /\ UNCHANGED <<manager, producer, session, threads, raw, output, outputDropped, history>>

\* Mutant: the parser leaves as soon as it is told to
ParserEndsAtOnce ==
    /\ parser = "running" /\ held = NoEvent /\ ~etw.alive
    /\ parser' = "done"
    /\ UNCHANGED <<manager, producer, etw, session, consumer, queues, history, faults>>

ParserEnds ==
    /\ parser = "running" /\ held = NoEvent /\ raw = <<>> /\ ~etw.alive
    /\ parser' = "done"
    /\ UNCHANGED <<manager, producer, etw, session, consumer, queues, history, faults>>

\* refresh_trace_loss_stats, or the buffer callback: Windows discarded events
LossReported ==
    /\ consumer = "running" /\ Fault
    /\ etw' = [etw EXCEPT !.lost = TRUE]
    /\ UNCHANGED <<manager, producer, session, threads, queues, history>>

-----------------------------------------------------------------------------
(* Windows *)

\* Another program stops the session, or takes its name as a second core does
SessionTaken ==
    /\ session = "ours" /\ Fault
    /\ session' \in {"none", "foreign"}
    /\ UNCHANGED <<manager, producer, etw, threads, queues, history>>

\* The wall clock, which the core reads once per tick
Tick ==
    /\ sinceAttempt # Never /\ sinceAttempt < MaxInterval
    /\ sinceAttempt' = sinceAttempt + 1
    /\ UNCHANGED <<running, pc, source, interval, starts, producer, etw, session, threads,
                   queues, history, faults>>

ClockSetBack ==
    /\ sinceAttempt # Never /\ Fault
    /\ sinceAttempt' = IF sinceAttempt - MaxSkew < -MaxSkew THEN -MaxSkew
                       ELSE sinceAttempt - MaxSkew
    /\ UNCHANGED <<running, pc, source, interval, starts, producer, etw, session, threads,
                   queues, history>>

CommandLoop == Start \/ Recover \/ RecoverJoined \/ Attempt \/ Drain \/ Stop \/ StopJoined
Consumer == Callback \/ ProcessTraceReturns \/ ConsumerEnds \/ LossReported
Parser == ParserPops \/ EnqueueOutput \/ ParseFails \/ ParserEnds
Windows == SessionTaken \/ Tick \/ ClockSetBack

Next == CommandLoop \/ Consumer \/ Parser \/ Windows

Spec == Init /\ [][Next]_vars

\* Weak fairness of the threads and of the command loop inside a tick; ticks keep
\* coming while an exam runs, and the clock goes on.  Nothing is assumed of starts
\* and stops, of events, or of a ProcessTrace whose session lives.
Fairness ==
    /\ WF_vars(Recover) /\ WF_vars(RecoverJoined) /\ WF_vars(Attempt) /\ WF_vars(Drain)
    /\ WF_vars(StopJoined)
    /\ WF_vars(session # "ours" /\ ProcessTraceReturns) /\ WF_vars(ConsumerEnds)
    /\ WF_vars(ParserPops) /\ WF_vars(EnqueueOutput) /\ WF_vars(ParserEnds)
    /\ WF_vars(Tick)

FairSpec == Spec /\ Fairness

-----------------------------------------------------------------------------
(* Properties *)

\* What is on its way to the next ticks, oldest first
Pipeline == output \o (IF held = NoEvent THEN <<>> ELSE <<held>>) \o raw

\* Ticks are handed events in the order Windows reported them, none twice: also
\* across full queues, and when a new producer fills the queue of an old one.
InOrder ==
    LET all == <<handed>> \o Pipeline \o <<received + 1>>
    IN  \A i, j \in 1..Len(all) : i < j => all[i] < all[j]

\* A producer that calls itself healthy has lost nothing it was given: every event
\* since its start was handed to a tick or is on its way.
HealthyIsComplete ==
    producer /\ Health = "healthy" =>
        \A e \in base + 1..received :
            e =< handed \/ \E i \in 1..Len(Pipeline) : Pipeline[i] = e

\* When a failed producer has been joined, its raw queue is empty: the fallback
\* gives up no event the callback had accepted.
NothingStranded == pc = "joining" /\ Joined => raw = <<>> /\ held = NoEvent

\* Between a stop and the next start no thread runs, no event waits, and no trace
\* session of this core is left behind in Windows.
StoppedIsQuiet ==
    ~running /\ pc = "idle" =>
        /\ consumer = "none" /\ parser = "none" /\ ~producer
        /\ Pipeline = <<>>
        /\ session # "ours"

\* While the manager runs, a trace session that could not be started, failed or was
\* taken by another program is replaced, unless a stop comes first.
EventsResume == running /\ session # "ours" ~> session = "ours" \/ ~running
=============================================================================

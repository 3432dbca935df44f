--------------------------- MODULE SupervisorProofs ---------------------------
(***************************************************************************)
(* For every timeout, grace, back-off and restart budget that              *)
(* BootstrapConfig::parse lets through: nothing outlives recovery, a child *)
(* is judged by its own heartbeats only, silence is noticed in time, and   *)
(* run() implements the safety part of GuardedMachine.                     *)
(*                                                                         *)
(* The properties are nearly inductive together.  Stages adds where in     *)
(* run() the machine is certainly free: before the launch, after a launch  *)
(* that failed, and once the helper has reported success.                  *)
(***************************************************************************)
EXTENDS Supervisor, TLAPS

StagesInOrder ==
  /\ pc = "launch" => child = "unborn"
  /\ pc \in {"launch", "aborted"} => cores = {} /\ ~guarded /\ desktop = "default"
  /\ pc = "aborted" => child = "exited"
  /\ helper # "none" <=> pc \in {"cleanup", "done"}
  /\ helper = "restored" => ~guarded /\ desktop = "default"

BeatWritten == beat.sequence <= written

IInv ==
  /\ TypeOK
  /\ StagesInOrder
  /\ NothingOutlivesRecovery
  /\ HeartbeatIsOwn /\ SequenceNotAhead /\ BeatWritten
  /\ SilenceNoticed

LEMMA Numbers ==
  /\ HeartbeatTimeout \in Nat \ {0} /\ StartupGrace \in Nat \ {0}
  /\ Patience \in Nat \ {0} /\ Backoff \in Nat \ {0}
  /\ HoldTime \in Nat \ {0} /\ MaxSequence \in Nat \ {0} /\ MaxEvents \in Nat \ {0}
  /\ RestartMax \in Nat /\ Backoff <= HeartbeatTimeout /\ HeartbeatTimeout <= StartupGrace
BY SupervisorAssumption

LEMMA InitIInv == Init => IInv
<1> SUFFICES ASSUME Init PROVE IInv
  OBVIOUS
<1> USE Numbers DEF Init
<1>1. TypeOK
  <2>1. beat \in Beats
    BY DEF Beats
  <2>2. pid \in Pids /\ uptime \in 0..(StartupGrace + 1) /\ nap \in 0..HeartbeatTimeout
    BY DEF Pids
  <2>3. written \in 0..MaxSequence /\ lastHealthy \in 0..MaxSequence
    OBVIOUS
  <2>4. events \in Seq(Interactions)
    OBVIOUS
  <2>5. pc \in Stages /\ outcome \in Outcomes
    BY DEF Stages, Outcomes
  <2> QED BY <2>1, <2>2, <2>3, <2>4, <2>5 DEF TypeOK, NoInteraction
<1>2. StagesInOrder /\ NothingOutlivesRecovery
  BY DEF StagesInOrder, NothingOutlivesRecovery, Alive
<1>3. HeartbeatIsOwn /\ SequenceNotAhead /\ BeatWritten /\ SilenceNoticed
  BY DEF HeartbeatIsOwn, SequenceNotAhead, BeatWritten, SilenceNoticed, NoBeat
<1> QED BY <1>1, <1>2, <1>3 DEF IInv

LEMMA StepKeepsIInv == IInv /\ [Next]_vars => IInv'
<1> SUFFICES ASSUME IInv, [Next]_vars PROVE IInv'
  OBVIOUS
<1> USE Numbers DEF IInv, Pids, Beats, NoBeat, NotPending, NotHolding, Interactions,
        NoInteraction, Looping, Recovering, Stages, Outcomes, Alive,
        loopVars, childVars, beatVars, coreVars, endVars, widgetVars, askVars
<1> DEFINE ValuesOK ==
      /\ pc \in Stages /\ nap \in 0..HeartbeatTimeout /\ outcome \in Outcomes
      /\ child \in {"unborn", "running", "hung", "stopped", "exited"}
      /\ code \in {0, 1, 222} /\ pid \in Pids /\ uptime \in 0..(StartupGrace + 1)
      /\ written \in 0..MaxSequence /\ beat \in Beats /\ beatAge \in Nat
      /\ lastHealthy \in 0..MaxSequence /\ cores \subseteq Pids
      /\ desktop \in {"default", "exam"}
      /\ helper \in {"none", "restored", "incomplete", "failed"}
      /\ stateFile \in {"absent", "hidden", "shown"}
      /\ holdAge \in {NotHolding} \cup 0..HoldTime /\ events \in Seq(Interactions)
      /\ eventFile \in Interactions \cup {NoInteraction}
      /\ pending \in Nat \cup {NotPending} /\ waiting \in Nat \cup {NotPending}
<1>1. CASE Launch
  <2>1. TypeOK'
    BY <1>1 DEF Launch, TypeOK
  <2>2. StagesInOrder' /\ NothingOutlivesRecovery'
    BY <1>1 DEF Launch, TypeOK, StagesInOrder, NothingOutlivesRecovery
  <2>3. HeartbeatIsOwn' /\ SequenceNotAhead' /\ BeatWritten'
    BY <1>1 DEF Launch, TypeOK, StagesInOrder, HeartbeatIsOwn, SequenceNotAhead, BeatWritten
  <2>4. SilenceNoticed'
    BY <1>1 DEF Launch, TypeOK, SilenceNoticed
  <2> QED BY <2>1, <2>2, <2>3, <2>4
<1>2. CASE LaunchFails
  <2>1. TypeOK'
    BY <1>2 DEF LaunchFails, TypeOK
  <2>2. StagesInOrder' /\ NothingOutlivesRecovery'
    BY <1>2 DEF LaunchFails, TypeOK, StagesInOrder, NothingOutlivesRecovery
  <2>3. HeartbeatIsOwn' /\ SequenceNotAhead' /\ BeatWritten'
    BY <1>2 DEF LaunchFails, TypeOK, StagesInOrder, HeartbeatIsOwn, SequenceNotAhead, BeatWritten
  <2>4. SilenceNoticed'
    BY <1>2 DEF LaunchFails, TypeOK, SilenceNoticed
  <2> QED BY <2>1, <2>2, <2>3, <2>4
<1>3. CASE PollWidget
  <2>1. TypeOK'
    <3>1. (guarded \in BOOLEAN)' /\ (shown \in BOOLEAN)'
      BY <1>3 DEF PollWidget, TypeOK
    <3>2. (request \in BOOLEAN)' /\ (restarted \in BOOLEAN)'
      BY <1>3 DEF PollWidget, TypeOK
    <3>3. ValuesOK'
      <4>1. events # <<>> => Last(events) \in Interactions
        BY DEF TypeOK, Last
      <4> QED BY <4>1, <1>3 DEF PollWidget, TypeOK
    <3> QED BY <3>1, <3>2, <3>3 DEF TypeOK
  <2>2. StagesInOrder' /\ NothingOutlivesRecovery'
    BY <1>3 DEF PollWidget, TypeOK, StagesInOrder, NothingOutlivesRecovery
  <2>3. HeartbeatIsOwn' /\ SequenceNotAhead' /\ BeatWritten'
    BY <1>3 DEF PollWidget, TypeOK, StagesInOrder, HeartbeatIsOwn, SequenceNotAhead, BeatWritten
  <2>4. SilenceNoticed'
    BY <1>3 DEF PollWidget, TypeOK, SilenceNoticed
  <2> QED BY <2>1, <2>2, <2>3, <2>4
<1>4. CASE ControlFileFails
  <2>1. TypeOK'
    BY <1>4 DEF ControlFileFails, BreakLoop, TerminateJob, TypeOK
  <2>2. StagesInOrder' /\ NothingOutlivesRecovery'
    BY <1>4 DEF ControlFileFails, BreakLoop, TerminateJob, TypeOK, StagesInOrder, NothingOutlivesRecovery
  <2>3. HeartbeatIsOwn' /\ SequenceNotAhead' /\ BeatWritten'
    BY <1>4 DEF ControlFileFails, BreakLoop, TerminateJob, TypeOK, StagesInOrder, HeartbeatIsOwn, SequenceNotAhead, BeatWritten
  <2>4. SilenceNoticed'
    BY <1>4 DEF ControlFileFails, BreakLoop, TerminateJob, TypeOK, SilenceNoticed
  <2> QED BY <2>1, <2>2, <2>3, <2>4
<1>5. CASE PollRequest
  <2>1. TypeOK'
    <3>1. (guarded \in BOOLEAN /\ shown \in BOOLEAN)'
      BY <1>5 DEF PollRequest, BreakLoop, TerminateJob, TypeOK
    <3>2. (request \in BOOLEAN)' /\ (restarted \in BOOLEAN)'
      BY <1>5 DEF PollRequest, BreakLoop, TerminateJob, TypeOK
    <3>3. ValuesOK'
      <4>1. CASE request
        BY <1>5, <4>1 DEF PollRequest, BreakLoop, TerminateJob, TypeOK
      <4>2. CASE ~request /\ pending >= Patience
        BY <1>5, <4>2 DEF PollRequest, BreakLoop, TerminateJob, TypeOK
      <4>3. CASE ~request /\ pending < Patience
        <5> HIDE DEF NotPending, childVars, coreVars
        <5>0. ~(pending >= Patience)
          BY <4>3 DEF TypeOK, NotPending
        <5>1. pc' = "exit" /\ UNCHANGED <<outcome, childVars, coreVars>>
          BY <1>5, <4>3, <5>0, Zenon DEF PollRequest
        <5>2. UNCHANGED <<nap, beatVars, endVars, widgetVars, eventFile, pending, waiting>>
          BY <1>5 DEF PollRequest
        <5> QED BY <5>1, <5>2 DEF TypeOK, childVars, coreVars
      <4> QED BY <4>1, <4>2, <4>3, <1>5 DEF PollRequest
    <3> QED BY <3>1, <3>2, <3>3 DEF TypeOK
  <2>2. StagesInOrder' /\ NothingOutlivesRecovery'
    BY <1>5 DEF PollRequest, BreakLoop, TerminateJob, TypeOK, StagesInOrder, NothingOutlivesRecovery
  <2>3. HeartbeatIsOwn' /\ SequenceNotAhead' /\ BeatWritten'
    BY <1>5 DEF PollRequest, BreakLoop, TerminateJob, TypeOK, StagesInOrder, HeartbeatIsOwn, SequenceNotAhead, BeatWritten
  <2>4. SilenceNoticed'
    BY <1>5 DEF PollRequest, BreakLoop, TerminateJob, TypeOK, SilenceNoticed
  <2> QED BY <2>1, <2>2, <2>3, <2>4
<1>6. CASE PollExit
  <2>1. TypeOK'
    BY <1>6 DEF PollExit, TypeOK
  <2>2. StagesInOrder' /\ NothingOutlivesRecovery'
    BY <1>6 DEF PollExit, TypeOK, StagesInOrder, NothingOutlivesRecovery
  <2>3. HeartbeatIsOwn' /\ SequenceNotAhead' /\ BeatWritten'
    BY <1>6 DEF PollExit, TypeOK, StagesInOrder, HeartbeatIsOwn, SequenceNotAhead, BeatWritten
  <2>4. SilenceNoticed'
    BY <1>6 DEF PollExit, TypeOK, SilenceNoticed
  <2> QED BY <2>1, <2>2, <2>3, <2>4
<1>7. CASE Relaunch
  <2>1. TypeOK'
    BY <1>7 DEF Relaunch, ShouldRestartChild, TypeOK
  <2>2. StagesInOrder' /\ NothingOutlivesRecovery'
    BY <1>7 DEF Relaunch, ShouldRestartChild, TypeOK, StagesInOrder, NothingOutlivesRecovery
  <2>3. HeartbeatIsOwn' /\ SequenceNotAhead' /\ BeatWritten'
    BY <1>7 DEF Relaunch, ShouldRestartChild, TypeOK, StagesInOrder, HeartbeatIsOwn, SequenceNotAhead, BeatWritten
  <2>4. SilenceNoticed'
    BY <1>7 DEF Relaunch, ShouldRestartChild, TypeOK, SilenceNoticed
  <2> QED BY <2>1, <2>2, <2>3, <2>4
<1>8. CASE RelaunchFails
  <2>1. TypeOK'
    BY <1>8 DEF RelaunchFails, BreakLoop, TerminateJob, TypeOK
  <2>2. StagesInOrder' /\ NothingOutlivesRecovery'
    BY <1>8 DEF RelaunchFails, BreakLoop, TerminateJob, TypeOK, StagesInOrder, NothingOutlivesRecovery
  <2>3. HeartbeatIsOwn' /\ SequenceNotAhead' /\ BeatWritten'
    BY <1>8 DEF RelaunchFails, BreakLoop, TerminateJob, TypeOK, StagesInOrder, HeartbeatIsOwn, SequenceNotAhead, BeatWritten
  <2>4. SilenceNoticed'
    BY <1>8 DEF RelaunchFails, BreakLoop, TerminateJob, TypeOK, SilenceNoticed
  <2> QED BY <2>1, <2>2, <2>3, <2>4
<1>9. CASE JudgeHeartbeat
  <2>1. TypeOK'
    <3>1. (guarded \in BOOLEAN /\ shown \in BOOLEAN)'
      BY <1>9 DEF JudgeHeartbeat, BreakLoop, TerminateJob, Health, TypeOK
    <3>2. (request \in BOOLEAN)' /\ (restarted \in BOOLEAN)'
      BY <1>9 DEF JudgeHeartbeat, BreakLoop, TerminateJob, Health, TypeOK
    <3>3. ValuesOK'
      <4>1. CASE Health \in {"waiting", "healthy"}
        <5>1. Health = "healthy" => beat.sequence \in 0..MaxSequence
          BY DEF Health, TypeOK
        <5>2. /\ pc' = "sleep" /\ nap' = 1
              /\ lastHealthy' = IF Health = "healthy" THEN beat.sequence ELSE lastHealthy
              /\ UNCHANGED <<outcome, childVars, coreVars>>
          BY <1>9, <4>1 DEF JudgeHeartbeat
        <5>3. UNCHANGED <<written, beat, beatAge, endVars, widgetVars, askVars>>
          BY <1>9 DEF JudgeHeartbeat
        <5> QED BY <5>1, <5>2, <5>3 DEF TypeOK
      <4>2. CASE Health \in {"stale", "invalid"}
        BY <1>9, <4>2 DEF JudgeHeartbeat, BreakLoop, TerminateJob, TypeOK
      <4> QED BY <4>1, <4>2, <1>9 DEF JudgeHeartbeat
    <3> QED BY <3>1, <3>2, <3>3 DEF TypeOK
  <2>2. StagesInOrder' /\ NothingOutlivesRecovery'
    BY <1>9 DEF JudgeHeartbeat, BreakLoop, TerminateJob, Health, TypeOK, StagesInOrder, NothingOutlivesRecovery
  <2>3. HeartbeatIsOwn' /\ SequenceNotAhead' /\ BeatWritten'
    BY <1>9 DEF JudgeHeartbeat, BreakLoop, TerminateJob, Health, TypeOK, StagesInOrder, HeartbeatIsOwn, SequenceNotAhead, BeatWritten
  <2>4. SilenceNoticed'
    BY <1>9 DEF JudgeHeartbeat, BreakLoop, TerminateJob, Health, TypeOK, SilenceNoticed
  <2> QED BY <2>1, <2>2, <2>3, <2>4
<1>10. CASE Tick
  <2>1. TypeOK'
    BY <1>10 DEF Tick, Elapsed, TypeOK
  <2>2. StagesInOrder' /\ NothingOutlivesRecovery'
    BY <1>10 DEF Tick, Elapsed, TypeOK, StagesInOrder, NothingOutlivesRecovery
  <2>3. HeartbeatIsOwn' /\ SequenceNotAhead' /\ BeatWritten'
    BY <1>10 DEF Tick, Elapsed, TypeOK, StagesInOrder, HeartbeatIsOwn, SequenceNotAhead, BeatWritten
  <2>4. SilenceNoticed'
    BY <1>10 DEF Tick, Elapsed, TypeOK, SilenceNoticed
  <2> QED BY <2>1, <2>2, <2>3, <2>4
<1>11. CASE Wake
  <2>1. TypeOK'
    BY <1>11 DEF Wake, TypeOK
  <2>2. StagesInOrder' /\ NothingOutlivesRecovery'
    BY <1>11 DEF Wake, TypeOK, StagesInOrder, NothingOutlivesRecovery
  <2>3. HeartbeatIsOwn' /\ SequenceNotAhead' /\ BeatWritten'
    BY <1>11 DEF Wake, TypeOK, StagesInOrder, HeartbeatIsOwn, SequenceNotAhead, BeatWritten
  <2>4. SilenceNoticed'
    BY <1>11 DEF Wake, TypeOK, SilenceNoticed
  <2> QED BY <2>1, <2>2, <2>3, <2>4
<1>12. CASE EndJob
  <2>1. TypeOK'
    BY <1>12 DEF EndJob, TerminateJob, TypeOK
  <2>2. StagesInOrder' /\ NothingOutlivesRecovery'
    BY <1>12 DEF EndJob, TerminateJob, TypeOK, StagesInOrder, NothingOutlivesRecovery
  <2>3. HeartbeatIsOwn' /\ SequenceNotAhead' /\ BeatWritten'
    BY <1>12 DEF EndJob, TerminateJob, TypeOK, StagesInOrder, HeartbeatIsOwn, SequenceNotAhead, BeatWritten
  <2>4. SilenceNoticed'
    BY <1>12 DEF EndJob, TerminateJob, TypeOK, SilenceNoticed
  <2> QED BY <2>1, <2>2, <2>3, <2>4
<1>13. CASE GiveBackDesktop
  <2>1. TypeOK'
    BY <1>13 DEF GiveBackDesktop, TypeOK
  <2>2. StagesInOrder' /\ NothingOutlivesRecovery'
    BY <1>13 DEF GiveBackDesktop, TypeOK, StagesInOrder, NothingOutlivesRecovery
  <2>3. HeartbeatIsOwn' /\ SequenceNotAhead' /\ BeatWritten'
    BY <1>13 DEF GiveBackDesktop, TypeOK, StagesInOrder, HeartbeatIsOwn, SequenceNotAhead, BeatWritten
  <2>4. SilenceNoticed'
    BY <1>13 DEF GiveBackDesktop, TypeOK, SilenceNoticed
  <2> QED BY <2>1, <2>2, <2>3, <2>4
<1>14. CASE RunEmergencyRestore
  <2>1. TypeOK'
    <3>1. (guarded \in BOOLEAN /\ shown \in BOOLEAN)'
      BY <1>14 DEF RunEmergencyRestore, TypeOK
    <3>2. (request \in BOOLEAN)' /\ (restarted \in BOOLEAN)'
      BY <1>14 DEF RunEmergencyRestore, TypeOK
    <3>3. ValuesOK'
      BY <1>14 DEF RunEmergencyRestore, TypeOK
    <3> QED BY <3>1, <3>2, <3>3 DEF TypeOK
  <2>2. StagesInOrder' /\ NothingOutlivesRecovery'
    BY <1>14 DEF RunEmergencyRestore, TypeOK, StagesInOrder, NothingOutlivesRecovery
  <2>3. HeartbeatIsOwn' /\ SequenceNotAhead' /\ BeatWritten'
    BY <1>14 DEF RunEmergencyRestore, TypeOK, StagesInOrder, HeartbeatIsOwn, SequenceNotAhead, BeatWritten
  <2>4. SilenceNoticed'
    BY <1>14 DEF RunEmergencyRestore, TypeOK, SilenceNoticed
  <2> QED BY <2>1, <2>2, <2>3, <2>4
<1>15. CASE Cleanup
  <2>1. TypeOK'
    <3>1. (guarded \in BOOLEAN /\ shown \in BOOLEAN)'
      BY <1>15 DEF Cleanup, TypeOK
    <3>2. (request \in BOOLEAN)' /\ (restarted \in BOOLEAN)'
      BY <1>15 DEF Cleanup, TypeOK
    <3>3. ValuesOK'
      BY <1>15 DEF Cleanup, TypeOK
    <3> QED BY <3>1, <3>2, <3>3 DEF TypeOK
  <2>2. StagesInOrder' /\ NothingOutlivesRecovery'
    BY <1>15 DEF Cleanup, TypeOK, StagesInOrder, NothingOutlivesRecovery
  <2>3. HeartbeatIsOwn' /\ SequenceNotAhead' /\ BeatWritten'
    BY <1>15 DEF Cleanup, TypeOK, StagesInOrder, HeartbeatIsOwn, SequenceNotAhead, BeatWritten
  <2>4. SilenceNoticed'
    BY <1>15 DEF Cleanup, TypeOK, SilenceNoticed
  <2> QED BY <2>1, <2>2, <2>3, <2>4
<1>16. CASE WriteHeartbeat
  <2>1. TypeOK'
    BY <1>16 DEF WriteHeartbeat, TypeOK
  <2>2. StagesInOrder' /\ NothingOutlivesRecovery'
    BY <1>16 DEF WriteHeartbeat, TypeOK, StagesInOrder, NothingOutlivesRecovery
  <2>3. HeartbeatIsOwn' /\ SequenceNotAhead' /\ BeatWritten'
    BY <1>16 DEF WriteHeartbeat, TypeOK, StagesInOrder, HeartbeatIsOwn, SequenceNotAhead, BeatWritten
  <2>4. SilenceNoticed'
    BY <1>16 DEF WriteHeartbeat, TypeOK, SilenceNoticed
  <2> QED BY <2>1, <2>2, <2>3, <2>4
<1>17. CASE Hang
  <2>1. TypeOK'
    BY <1>17 DEF Hang, TypeOK
  <2>2. StagesInOrder' /\ NothingOutlivesRecovery'
    BY <1>17 DEF Hang, TypeOK, StagesInOrder, NothingOutlivesRecovery
  <2>3. HeartbeatIsOwn' /\ SequenceNotAhead' /\ BeatWritten'
    BY <1>17 DEF Hang, TypeOK, StagesInOrder, HeartbeatIsOwn, SequenceNotAhead, BeatWritten
  <2>4. SilenceNoticed'
    BY <1>17 DEF Hang, TypeOK, SilenceNoticed
  <2> QED BY <2>1, <2>2, <2>3, <2>4
<1>18. CASE Quit
  <2>1. TypeOK'
    <3>1. (guarded \in BOOLEAN /\ shown \in BOOLEAN)'
      BY <1>18 DEF Quit, TypeOK
    <3>2. (request \in BOOLEAN)' /\ (restarted \in BOOLEAN)'
      BY <1>18 DEF Quit, TypeOK
    <3>3. ValuesOK'
      BY <1>18 DEF Quit, TypeOK
    <3> QED BY <3>1, <3>2, <3>3 DEF TypeOK
  <2>2. StagesInOrder' /\ NothingOutlivesRecovery'
    BY <1>18 DEF Quit, TypeOK, StagesInOrder, NothingOutlivesRecovery
  <2>3. HeartbeatIsOwn' /\ SequenceNotAhead' /\ BeatWritten'
    BY <1>18 DEF Quit, TypeOK, StagesInOrder, HeartbeatIsOwn, SequenceNotAhead, BeatWritten
  <2>4. SilenceNoticed'
    BY <1>18 DEF Quit, TypeOK, SilenceNoticed
  <2> QED BY <2>1, <2>2, <2>3, <2>4
<1>19. CASE ChildExits
  <2>1. TypeOK'
    BY <1>19 DEF ChildExits, TypeOK
  <2>2. StagesInOrder' /\ NothingOutlivesRecovery'
    BY <1>19 DEF ChildExits, TypeOK, StagesInOrder, NothingOutlivesRecovery
  <2>3. HeartbeatIsOwn' /\ SequenceNotAhead' /\ BeatWritten'
    BY <1>19 DEF ChildExits, TypeOK, StagesInOrder, HeartbeatIsOwn, SequenceNotAhead, BeatWritten
  <2>4. SilenceNoticed'
    BY <1>19 DEF ChildExits, TypeOK, SilenceNoticed
  <2> QED BY <2>1, <2>2, <2>3, <2>4
<1>20. CASE CoreStarts
  <2>1. TypeOK'
    BY <1>20 DEF CoreStarts, TypeOK
  <2>2. StagesInOrder' /\ NothingOutlivesRecovery'
    BY <1>20 DEF CoreStarts, TypeOK, StagesInOrder, NothingOutlivesRecovery
  <2>3. HeartbeatIsOwn' /\ SequenceNotAhead' /\ BeatWritten'
    BY <1>20 DEF CoreStarts, TypeOK, StagesInOrder, HeartbeatIsOwn, SequenceNotAhead, BeatWritten
  <2>4. SilenceNoticed'
    BY <1>20 DEF CoreStarts, TypeOK, SilenceNoticed
  <2> QED BY <2>1, <2>2, <2>3, <2>4
<1>21. CASE CoreExits
  <2>1. TypeOK'
    <3>1. (guarded \in BOOLEAN /\ shown \in BOOLEAN)'
      BY <1>21 DEF CoreExits, TypeOK
    <3>2. (request \in BOOLEAN)' /\ (restarted \in BOOLEAN)'
      BY <1>21 DEF CoreExits, TypeOK
    <3>3. ValuesOK'
      BY <1>21 DEF CoreExits, TypeOK
    <3> QED BY <3>1, <3>2, <3>3 DEF TypeOK
  <2>2. StagesInOrder' /\ NothingOutlivesRecovery'
    BY <1>21 DEF CoreExits, TypeOK, StagesInOrder, NothingOutlivesRecovery
  <2>3. HeartbeatIsOwn' /\ SequenceNotAhead' /\ BeatWritten'
    BY <1>21 DEF CoreExits, TypeOK, StagesInOrder, HeartbeatIsOwn, SequenceNotAhead, BeatWritten
  <2>4. SilenceNoticed'
    BY <1>21 DEF CoreExits, TypeOK, SilenceNoticed
  <2> QED BY <2>1, <2>2, <2>3, <2>4
<1>22. CASE CoreGuards
  <2>1. TypeOK'
    BY <1>22 DEF CoreGuards, TypeOK
  <2>2. StagesInOrder' /\ NothingOutlivesRecovery'
    BY <1>22 DEF CoreGuards, TypeOK, StagesInOrder, NothingOutlivesRecovery
  <2>3. HeartbeatIsOwn' /\ SequenceNotAhead' /\ BeatWritten'
    BY <1>22 DEF CoreGuards, TypeOK, StagesInOrder, HeartbeatIsOwn, SequenceNotAhead, BeatWritten
  <2>4. SilenceNoticed'
    BY <1>22 DEF CoreGuards, TypeOK, SilenceNoticed
  <2> QED BY <2>1, <2>2, <2>3, <2>4
<1>23. CASE CoreSyncsWidget
  <2>1. TypeOK'
    BY <1>23 DEF CoreSyncsWidget, TypeOK
  <2>2. StagesInOrder' /\ NothingOutlivesRecovery'
    BY <1>23 DEF CoreSyncsWidget, TypeOK, StagesInOrder, NothingOutlivesRecovery
  <2>3. HeartbeatIsOwn' /\ SequenceNotAhead' /\ BeatWritten'
    BY <1>23 DEF CoreSyncsWidget, TypeOK, StagesInOrder, HeartbeatIsOwn, SequenceNotAhead, BeatWritten
  <2>4. SilenceNoticed'
    BY <1>23 DEF CoreSyncsWidget, TypeOK, SilenceNoticed
  <2> QED BY <2>1, <2>2, <2>3, <2>4
<1>24. CASE CoreTakesInteraction
  <2>1. TypeOK'
    <3>1. (guarded \in BOOLEAN /\ shown \in BOOLEAN)'
      BY <1>24 DEF CoreTakesInteraction, TypeOK
    <3>2. (request \in BOOLEAN)' /\ (restarted \in BOOLEAN)'
      BY <1>24 DEF CoreTakesInteraction, TypeOK
    <3>3. ValuesOK'
      BY <1>24 DEF CoreTakesInteraction, TypeOK
    <3> QED BY <3>1, <3>2, <3>3 DEF TypeOK
  <2>2. StagesInOrder' /\ NothingOutlivesRecovery'
    BY <1>24 DEF CoreTakesInteraction, TypeOK, StagesInOrder, NothingOutlivesRecovery
  <2>3. HeartbeatIsOwn' /\ SequenceNotAhead' /\ BeatWritten'
    BY <1>24 DEF CoreTakesInteraction, TypeOK, StagesInOrder, HeartbeatIsOwn, SequenceNotAhead, BeatWritten
  <2>4. SilenceNoticed'
    BY <1>24 DEF CoreTakesInteraction, TypeOK, SilenceNoticed
  <2> QED BY <2>1, <2>2, <2>3, <2>4
<1>25. CASE PressWidget
  <2>1. TypeOK'
    BY <1>25 DEF PressWidget, Push, TypeOK
  <2>2. StagesInOrder' /\ NothingOutlivesRecovery'
    BY <1>25 DEF PressWidget, Push, TypeOK, StagesInOrder, NothingOutlivesRecovery
  <2>3. HeartbeatIsOwn' /\ SequenceNotAhead' /\ BeatWritten'
    BY <1>25 DEF PressWidget, Push, TypeOK, StagesInOrder, HeartbeatIsOwn, SequenceNotAhead, BeatWritten
  <2>4. SilenceNoticed'
    BY <1>25 DEF PressWidget, Push, TypeOK, SilenceNoticed
  <2> QED BY <2>1, <2>2, <2>3, <2>4
<1>26. CASE ReleaseWidget
  <2>1. TypeOK'
    BY <1>26 DEF ReleaseWidget, Push, TypeOK
  <2>2. StagesInOrder' /\ NothingOutlivesRecovery'
    BY <1>26 DEF ReleaseWidget, Push, TypeOK, StagesInOrder, NothingOutlivesRecovery
  <2>3. HeartbeatIsOwn' /\ SequenceNotAhead' /\ BeatWritten'
    BY <1>26 DEF ReleaseWidget, Push, TypeOK, StagesInOrder, HeartbeatIsOwn, SequenceNotAhead, BeatWritten
  <2>4. SilenceNoticed'
    BY <1>26 DEF ReleaseWidget, Push, TypeOK, SilenceNoticed
  <2> QED BY <2>1, <2>2, <2>3, <2>4
<1>27. CASE CompleteHold
  <2>1. TypeOK'
    BY <1>27 DEF CompleteHold, Push, TypeOK
  <2>2. StagesInOrder' /\ NothingOutlivesRecovery'
    BY <1>27 DEF CompleteHold, Push, TypeOK, StagesInOrder, NothingOutlivesRecovery
  <2>3. HeartbeatIsOwn' /\ SequenceNotAhead' /\ BeatWritten'
    BY <1>27 DEF CompleteHold, Push, TypeOK, StagesInOrder, HeartbeatIsOwn, SequenceNotAhead, BeatWritten
  <2>4. SilenceNoticed'
    BY <1>27 DEF CompleteHold, Push, TypeOK, SilenceNoticed
  <2> QED BY <2>1, <2>2, <2>3, <2>4
<1>28. CASE UNCHANGED vars
  BY <1>28 DEF vars, TypeOK, StagesInOrder, NothingOutlivesRecovery, HeartbeatIsOwn,
     SequenceNotAhead, BeatWritten, SilenceNoticed
<1> QED
  BY <1>1, <1>2, <1>3, <1>4, <1>5, <1>6, <1>7, <1>8, <1>9, <1>10, <1>11, <1>12, <1>13, <1>14, <1>15, <1>16, <1>17, <1>18, <1>19, <1>20, <1>21, <1>22, <1>23, <1>24, <1>25, <1>26, <1>27, <1>28 DEF Next, Loop, Recovery, Electron, Sidecar, Widget

-----------------------------------------------------------------------------
(* IInv holds in every reachable state: the other theorems rest on it.       *)
THEOREM StrengthenedInvariant == Spec => []IInv
BY InitIInv, StepKeepsIInv, PTL DEF Spec

(* Every variable keeps its type, and the restart budget is never exceeded.  *)
THEOREM TypeCorrect == Spec => []TypeOK
<1>1. IInv => TypeOK
  BY DEF IInv
<1> QED BY <1>1, StrengthenedInvariant, PTL

(* run(), after the loop: no process of the job is alive while the machine    *)
(* is put back, whichever way the loop ended.                                 *)
THEOREM RecoveryUndisturbed == Spec => []NothingOutlivesRecovery
<1>1. IInv => NothingOutlivesRecovery
  BY DEF IInv
<1> QED BY <1>1, StrengthenedInvariant, PTL

(* evaluate_heartbeat compares a child with its own heartbeats only, through  *)
(* any number of relaunches.                                                  *)
THEOREM JudgedByOwnHeartbeats == Spec => [](HeartbeatIsOwn /\ SequenceNotAhead)
<1>1. IInv => HeartbeatIsOwn /\ SequenceNotAhead
  BY DEF IInv
<1> QED BY <1>1, StrengthenedInvariant, PTL

(* No Electron that still should write a heartbeat goes unheard for longer    *)
(* than the timeout, or the startup grace, and one poll.                      *)
THEOREM SilenceIsNoticed == Spec => []SilenceNoticed
<1>1. IInv => SilenceNoticed
  BY DEF IInv
<1> QED BY <1>1, StrengthenedInvariant, PTL

(* should_restart_child: an Electron that quit by itself is not brought back. *)
THEOREM CleanExitIsFinal == Spec => CleanExitFinal
<1>1. IInv /\ [Next]_vars => [child = "exited" /\ code = 0 => child' = "exited"]_vars
  <2> SUFFICES ASSUME IInv, Next, child = "exited", code = 0
               PROVE  child' = "exited"
    BY DEF vars
  <2> USE DEF Alive, childVars
  <2>1. pc # "launch" /\ ~ShouldRestartChild
    BY DEF IInv, StagesInOrder, ShouldRestartChild
  <2>2. CASE Loop
    BY <2>1, <2>2 DEF Loop, PollWidget, ControlFileFails, PollRequest, PollExit, Relaunch,
       RelaunchFails, JudgeHeartbeat, Tick, Wake, BreakLoop, TerminateJob
  <2>3. CASE Recovery
    BY <2>3 DEF Recovery, EndJob, GiveBackDesktop, RunEmergencyRestore, Cleanup, TerminateJob
  <2>4. CASE Electron
    BY <2>4 DEF Electron, WriteHeartbeat, Hang, Quit, ChildExits
  <2>5. CASE Sidecar
    BY <2>5 DEF Sidecar, CoreStarts, CoreExits, CoreGuards, CoreSyncsWidget, CoreTakesInteraction
  <2>6. CASE Widget
    BY <2>6 DEF Widget, PressWidget, ReleaseWidget, CompleteHold, Push
  <2> QED BY <2>1, <2>2, <2>3, <2>4, <2>5, <2>6 DEF Next, Launch, LaunchFails
<1> QED BY <1>1, StrengthenedInvariant, PTL DEF Spec, CleanExitFinal

-----------------------------------------------------------------------------
(* The clock of the fallback.                                              *)

(* The loop looks at the clock once in every poll, before it sleeps, so that a *)
(* completed hold ages past Patience only while the loop is asleep: for a poll *)
(* interval, or for the back-off of a relaunch.                                *)
ClockLookedAt ==
  /\ pc = "launch" => pending = NotPending /\ waiting = NotPending /\ events = <<>>
  /\ pc \in {"exit", "judge"} => pending < Patience
  /\ pc = "sleep" => pending + nap < Patience + Backoff /\ nap <= Backoff
  /\ pc \in {"widgets", "request"} => pending < Patience + Backoff

(* Whatever the widget thread does, the clock that the loop looks at never gets *)
(* further than the 2,500 ms and one back-off.                                  *)
FallbackInTime == pc \in Looping => pending < Patience + Backoff

(* Completing one hold and then another takes longer than the first one waits.  *)
(* A second press may begin in the gap between two polls that saw the first hold*)
(* completed, before its clock starts, which is where the second Backoff is for.*)
HoldOutlasts == HoldTime >= Patience + 2 * Backoff

HoldCompleted == Contains(events, "restoreRequested")

(* While a completed hold waits for its answer no other one can be completed.   *)
(* The press under way, if any, began after the first hold was completed.       *)
NoSecondHold ==
  /\ pc \in Looping /\ pending # NotPending =>
       ~HoldCompleted /\ holdAge <= pending + Backoff
  /\ pending = NotPending /\ HoldCompleted =>
       /\ pc \in {"request", "exit", "judge"} => holdAge <= 0
       /\ pc = "sleep" => holdAge <= Backoff - nap
       /\ pc = "widgets" => holdAge <= Backoff

(* Until another hold restarts it, the clock is that of the first one.          *)
FirstHoldsClock ==
  /\ pc \in Looping /\ ~restarted => pending = waiting
  /\ pc \in Looping => (pending = NotPending <=> waiting = NotPending)

HInv ==
  /\ IInv /\ ClockLookedAt /\ FirstHoldsClock
  /\ HoldOutlasts => NoSecondHold /\ ~restarted

LEMMA ContainsAppend ==
  ASSUME NEW S, NEW s \in Seq(S), NEW e \in S, NEW x
  PROVE  Contains(Append(s, e), x) <=> Contains(s, x) \/ e = x
<1>1. /\ Len(Append(s, e)) = Len(s) + 1
      /\ \A i \in 1..Len(s) : Append(s, e)[i] = s[i]
      /\ Append(s, e)[Len(s) + 1] = e
      /\ Len(s) \in Nat
  OBVIOUS
<1>2. 1..(Len(s) + 1) = (1..Len(s)) \cup {Len(s) + 1}
  BY <1>1
<1> QED BY <1>1, <1>2 DEF Contains

LEMMA ContainsNone == \A x : ~Contains(<< >>, x)
BY DEF Contains

(* An event that is not a completed hold does not make one of the events.     *)
LEMMA PushAdds ==
  ASSUME IInv, NEW kind \in Interactions, kind # "restoreRequested", Push(kind)
  PROVE  HoldCompleted' = HoldCompleted
<1>1. events \in Seq(Interactions) /\ events' = Append(events, kind)
  BY DEF IInv, TypeOK, Push
<1>2. HoldCompleted' <=> HoldCompleted
  BY <1>1, ContainsAppend DEF HoldCompleted
<1>3. HoldCompleted \in BOOLEAN /\ HoldCompleted' \in BOOLEAN
  BY DEF HoldCompleted, Contains
<1> QED BY <1>2, <1>3

LEMMA InitHInv == Init => HInv
<1> SUFFICES ASSUME Init PROVE HInv
  OBVIOUS
<1>1. IInv
  BY InitIInv
<1>2. ClockLookedAt
  BY Numbers DEF Init, ClockLookedAt, NotPending
<1>3. NoSecondHold
  BY ContainsNone DEF Init, NoSecondHold, Looping, HoldCompleted, NotPending
<1>4. FirstHoldsClock /\ ~restarted
  BY DEF Init, FirstHoldsClock, Looping
<1> QED BY <1>1, <1>2, <1>3, <1>4 DEF HInv

LEMMA StepKeepsClock == IInv /\ ClockLookedAt /\ [Next]_vars => ClockLookedAt'
<1> SUFFICES ASSUME IInv, ClockLookedAt, [Next]_vars PROVE ClockLookedAt'
  OBVIOUS
<1>0. pc \in Stages /\ nap \in Nat /\ pending \in Nat \cup {-1}
  BY Numbers DEF IInv, TypeOK, NotPending
<1> USE <1>0, Numbers DEF ClockLookedAt, NotPending
<1>1. CASE Launch \/ LaunchFails
  BY <1>1 DEF Launch, LaunchFails, askVars, widgetVars
<1>2. CASE PollWidget
  BY <1>2 DEF PollWidget
<1>3. CASE ControlFileFails \/ RelaunchFails
  BY <1>3 DEF ControlFileFails, RelaunchFails, BreakLoop
<1>4. CASE PollRequest
  BY <1>4 DEF PollRequest, BreakLoop
<1>5. CASE PollExit
  BY <1>5 DEF PollExit, askVars
<1>6. CASE Relaunch
  BY <1>6 DEF Relaunch, askVars
<1>7. CASE JudgeHeartbeat
  BY <1>7 DEF JudgeHeartbeat, BreakLoop, askVars
<1>8. CASE Tick
  BY <1>8 DEF Tick, Elapsed
<1>9. CASE Wake
  BY <1>9 DEF Wake, askVars
<1>10. CASE Recovery
  BY <1>10 DEF Recovery, EndJob, GiveBackDesktop, RunEmergencyRestore, Cleanup
<1>11. CASE Electron
  BY <1>11 DEF Electron, WriteHeartbeat, Hang, Quit, ChildExits, loopVars, askVars, widgetVars
<1>12. CASE Sidecar
  BY <1>12 DEF Sidecar, CoreStarts, CoreExits, CoreGuards, CoreSyncsWidget,
     CoreTakesInteraction, loopVars, askVars, widgetVars
<1>13. CASE Widget
  BY <1>13 DEF Widget, PressWidget, ReleaseWidget, CompleteHold, Push, loopVars, askVars, Looping
<1>14. CASE UNCHANGED vars
  BY <1>14 DEF vars, loopVars, askVars, widgetVars
<1> QED BY <1>1, <1>2, <1>3, <1>4, <1>5, <1>6, <1>7, <1>8, <1>9, <1>10, <1>11, <1>12,
           <1>13, <1>14 DEF Next, Loop

LEMMA StepKeepsFirstHold ==
  IInv /\ ClockLookedAt /\ FirstHoldsClock /\ [Next]_vars => FirstHoldsClock'
<1> SUFFICES ASSUME IInv, ClockLookedAt, FirstHoldsClock, [Next]_vars PROVE FirstHoldsClock'
  OBVIOUS
<1>0. /\ pc \in Stages /\ nap \in Nat /\ pending \in Nat \cup {-1}
      /\ waiting \in Nat \cup {-1} /\ restarted \in BOOLEAN
  BY Numbers DEF IInv, TypeOK, NotPending
<1> USE <1>0, Numbers DEF FirstHoldsClock, NotPending
<1>1. CASE /\ UNCHANGED <<pending, waiting, restarted>>
           /\ pc' \in Looping => pc \in Looping
  BY <1>1
<1>2. CASE Launch \/ LaunchFails
  BY <1>2 DEF Launch, LaunchFails, askVars, ClockLookedAt
<1>3. CASE PollWidget
  <2> DEFINE completed == shown' /\ Contains(events, "restoreRequested")
  <2>1. /\ pc \in Looping
        /\ pending' = IF completed THEN 0 ELSE pending
        /\ waiting' = IF completed /\ waiting = NotPending THEN 0 ELSE waiting
        /\ restarted' = (restarted \/ (completed /\ waiting # NotPending))
    BY <1>3 DEF PollWidget, Looping
  <2> HIDE DEF completed
  <2>2. CASE completed
    <3>1. pending' = 0 /\ waiting' = IF waiting = -1 THEN 0 ELSE waiting
      BY <2>1, <2>2
    <3>2. waiting # -1 => restarted'
      BY <2>1, <2>2
    <3> QED BY <3>1, <3>2
  <2>3. CASE ~completed
    <3>1. pending' = pending /\ waiting' = waiting
      BY <2>1, <2>3
    <3>2. restarted' <=> restarted
      BY <2>1, <2>3
    <3> QED BY <2>1, <3>1, <3>2
  <2> QED BY <2>2, <2>3
<1>4. CASE ControlFileFails \/ RelaunchFails
  BY <1>4 DEF ControlFileFails, RelaunchFails, BreakLoop, Looping
<1>5. CASE PollRequest
  BY <1>1, <1>5 DEF PollRequest, BreakLoop, Looping
<1>6. CASE PollExit \/ Relaunch \/ Wake
  BY <1>1, <1>6 DEF PollExit, Relaunch, Wake, askVars, Looping
<1>7. CASE JudgeHeartbeat
  BY <1>1, <1>7 DEF JudgeHeartbeat, BreakLoop, askVars, Looping
<1>8. CASE Tick
  <2>1. pc = "sleep" /\ pc \in Looping /\ pending + nap < Patience + Backoff /\ nap > 0
    BY <1>8 DEF Tick, ClockLookedAt, Looping
  <2>2. pending' = Elapsed(pending) /\ restarted' = restarted
    BY <1>8 DEF Tick
  <2>3. CASE restarted
    <3>1. waiting' = -1 <=> waiting = -1
      BY <1>8 DEF Tick, Elapsed, Answering
    <3> QED BY <2>1, <2>2, <2>3, <3>1 DEF Elapsed
  <2>4. CASE ~restarted
    <3>1. pending = waiting /\ waiting < Answering
      BY <2>1, <2>4 DEF Answering
    <3>2. waiting' = Elapsed(waiting)
      BY <1>8, <3>1 DEF Tick
    <3> QED BY <2>1, <2>2, <2>4, <3>1, <3>2 DEF Elapsed
  <2> QED BY <2>3, <2>4
<1>9. CASE Recovery
  BY <1>9 DEF Recovery, EndJob, GiveBackDesktop, RunEmergencyRestore, Cleanup, Looping
<1>10. CASE Electron
  BY <1>1, <1>10 DEF Electron, WriteHeartbeat, Hang, Quit, ChildExits, loopVars, askVars
<1>11. CASE Sidecar
  BY <1>1, <1>11 DEF Sidecar, CoreStarts, CoreExits, CoreGuards, CoreSyncsWidget,
     CoreTakesInteraction, loopVars, askVars
<1>12. CASE Widget
  BY <1>1, <1>12 DEF Widget, PressWidget, ReleaseWidget, CompleteHold, Push, loopVars, askVars
<1>13. CASE UNCHANGED vars
  BY <1>1, <1>13 DEF vars, loopVars, askVars
<1> QED BY <1>2, <1>3, <1>4, <1>5, <1>6, <1>7, <1>8, <1>9, <1>10, <1>11, <1>12, <1>13
        DEF Next, Loop

(* Only a poll that finds a hold completed anew restarts the clock.            *)
LEMMA RestartedKept ==
  ASSUME [Next]_vars, ~PollWidget
  PROVE  restarted' = restarted
<1>1. CASE Launch \/ LaunchFails \/ Loop
  BY <1>1 DEF Launch, LaunchFails, Loop, ControlFileFails, PollRequest, PollExit, Relaunch,
     RelaunchFails, JudgeHeartbeat, Tick, Wake, askVars
<1>2. CASE Recovery
  BY <1>2 DEF Recovery, EndJob, GiveBackDesktop, RunEmergencyRestore, Cleanup, askVars
<1>3. CASE Electron \/ Widget
  BY <1>3 DEF Electron, WriteHeartbeat, Hang, Quit, ChildExits, Widget, PressWidget,
     ReleaseWidget, CompleteHold, Push, askVars
<1>4. CASE Sidecar
  BY <1>4 DEF Sidecar, CoreStarts, CoreExits, CoreGuards, CoreSyncsWidget,
     CoreTakesInteraction, askVars
<1>5. CASE UNCHANGED vars
  BY <1>5 DEF vars, askVars
<1> QED BY <1>1, <1>2, <1>3, <1>4, <1>5 DEF Next

(* The steps that leave the widget's events, the press and both clocks alone.*)
LEMMA HoldUndisturbed ==
  ASSUME NoSecondHold, pc # "launch",
         UNCHANGED <<events, holdAge, pending, waiting>>,
         \/ UNCHANGED <<pc, nap>>
         \/ pc \in Looping /\ pc' \in {"request", "exit", "judge"} /\ pc \in {"request", "exit"}
         \/ pc' \notin Looping \cup {"launch"}
  PROVE  NoSecondHold'
<1>1. HoldCompleted' = HoldCompleted
  BY DEF HoldCompleted
<1> QED BY <1>1 DEF NoSecondHold, Looping

LEMMA StepKeepsNoSecondHold ==
  HInv /\ HoldOutlasts /\ [Next]_vars => NoSecondHold'
<1> SUFFICES ASSUME HInv, HoldOutlasts, [Next]_vars PROVE NoSecondHold'
  OBVIOUS
<1>0. /\ IInv /\ ClockLookedAt /\ NoSecondHold
      /\ pc \in Stages /\ nap \in Nat
      /\ pending \in Nat \cup {-1} /\ waiting \in Nat \cup {-1}
      /\ holdAge \in {-1} \cup 0..HoldTime /\ holdAge \in Int
  BY Numbers DEF HInv, IInv, TypeOK, NotPending, NotHolding
<1> USE <1>0, Numbers DEF NotPending, NotHolding
<1>1. CASE Launch
  <2>1. HoldCompleted' = HoldCompleted /\ ~HoldCompleted
    BY <1>1, ContainsNone DEF Launch, widgetVars, ClockLookedAt, HoldCompleted
  <2> QED BY <1>1, <2>1 DEF Launch, widgetVars, askVars, ClockLookedAt, NoSecondHold, Looping
<1>2. CASE LaunchFails
  <2>1. HoldCompleted' = HoldCompleted /\ ~HoldCompleted
    BY <1>2, ContainsNone DEF LaunchFails, widgetVars, ClockLookedAt, HoldCompleted
  <2> QED BY <1>2, <2>1 DEF LaunchFails, widgetVars, askVars, ClockLookedAt, NoSecondHold, Looping
<1>3. CASE PollWidget
  <2>1. pc = "widgets" /\ pc' = "request" /\ holdAge' = holdAge /\ ~HoldCompleted'
    BY <1>3, ContainsNone DEF PollWidget, HoldCompleted
  <2>2. CASE shown' /\ HoldCompleted
    <3>1. pending = NotPending /\ holdAge <= Backoff
      BY <2>1, <2>2 DEF NoSecondHold, Looping
    <3>2. pending' = 0
      BY <1>3, <2>2, <3>1 DEF PollWidget, HoldCompleted
    <3> QED BY <2>1, <3>1, <3>2 DEF NoSecondHold
  <2>3. CASE ~(shown' /\ HoldCompleted)
    <3>1. pending' = pending
      BY <1>3, <2>3 DEF PollWidget, HoldCompleted
    <3> QED BY <2>1, <3>1 DEF NoSecondHold, Looping
  <2> QED BY <2>2, <2>3
<1>4. CASE ControlFileFails
  BY <1>4, HoldUndisturbed DEF ControlFileFails, BreakLoop, widgetVars, askVars, Looping
<1>5. CASE PollRequest
  BY <1>5, HoldUndisturbed DEF PollRequest, BreakLoop, widgetVars, Looping
<1>6. CASE PollExit
  BY <1>6, HoldUndisturbed DEF PollExit, widgetVars, askVars, Looping
<1>7. CASE Relaunch
  <2>1. HoldCompleted' = HoldCompleted
    BY <1>7 DEF Relaunch, widgetVars, HoldCompleted
  <2> QED BY <1>7, <2>1 DEF Relaunch, widgetVars, askVars, NoSecondHold, Looping
<1>8. CASE RelaunchFails
  BY <1>8, HoldUndisturbed DEF RelaunchFails, BreakLoop, widgetVars, askVars, Looping
<1>9. CASE JudgeHeartbeat
  <2>1. HoldCompleted' = HoldCompleted
    BY <1>9 DEF JudgeHeartbeat, widgetVars, HoldCompleted
  <2>2. /\ UNCHANGED <<events, holdAge, pending, waiting>>
        /\ pc = "judge"
        /\ (pc' = "sleep" /\ nap' = 1) \/ pc' = "terminate"
    BY <1>9 DEF JudgeHeartbeat, BreakLoop, widgetVars, askVars
  <2> QED BY <2>1, <2>2 DEF NoSecondHold, Looping
<1>10. CASE Tick
  <2>1. HoldCompleted' <=> HoldCompleted
    BY <1>10 DEF Tick, HoldCompleted
  <2>2. pc = "sleep" /\ pc' = "sleep" /\ nap' = nap - 1
    BY <1>10 DEF Tick
  <2>3. holdAge' \in Int /\ holdAge' <= holdAge + 1 /\ (holdAge = -1 => holdAge' = -1)
    BY <1>10 DEF Tick
  <2>4. CASE pending = -1
    <3>1. pending' = -1
      BY <1>10, <2>2, <2>4 DEF Tick, Elapsed
    <3>2. HoldCompleted' => holdAge' <= Backoff - nap'
      BY <2>1, <2>2, <2>3, <2>4 DEF NoSecondHold
    <3> QED BY <2>2, <3>1, <3>2 DEF NoSecondHold
  <2>5. CASE pending \in Nat
    <3>1. pending' = pending + 1
      BY <1>10, <2>2, <2>5 DEF Tick, Elapsed
    <3>2. ~HoldCompleted' /\ holdAge' <= pending' + Backoff
      BY <2>1, <2>2, <2>3, <2>5, <3>1 DEF NoSecondHold, Looping
    <3> QED BY <2>2, <2>5, <3>1, <3>2 DEF NoSecondHold
  <2> QED BY <2>4, <2>5
<1>11. CASE Wake
  <2>1. HoldCompleted' = HoldCompleted
    BY <1>11 DEF Wake, widgetVars, HoldCompleted
  <2> QED BY <1>11, <2>1 DEF Wake, widgetVars, askVars, NoSecondHold, Looping
<1>12. CASE Recovery
  <2>1. pc # "launch" /\ pc' \notin Looping \cup {"launch"}
    BY <1>12 DEF Recovery, EndJob, GiveBackDesktop, RunEmergencyRestore, Cleanup, Looping
  <2>2. pending' = pending /\ waiting' = waiting /\ holdAge' = holdAge /\ events' = events
    BY <1>12 DEF Recovery, EndJob, GiveBackDesktop, RunEmergencyRestore, Cleanup,
       widgetVars, askVars
  <2> QED BY <2>1, <2>2, HoldUndisturbed
<1>13. CASE Electron
  <2>1. pc # "launch"
    BY <1>13 DEF Electron, WriteHeartbeat, Hang, Quit, ChildExits, Alive, IInv, StagesInOrder
  <2>2. UNCHANGED <<pc, nap, events, holdAge, pending, waiting>>
    BY <1>13 DEF Electron, WriteHeartbeat, Hang, Quit, ChildExits, loopVars, widgetVars, askVars
  <2> QED BY <2>1, <2>2, HoldUndisturbed
<1>14. CASE Sidecar
  <2>1. pc # "launch"
    BY <1>14 DEF Sidecar, CoreStarts, CoreExits, CoreGuards, CoreSyncsWidget,
       CoreTakesInteraction, IInv, StagesInOrder
  <2>2. UNCHANGED <<pc, nap, events, holdAge, pending, waiting>>
    BY <1>14 DEF Sidecar, CoreStarts, CoreExits, CoreGuards, CoreSyncsWidget,
       CoreTakesInteraction, loopVars, widgetVars, askVars
  <2> QED BY <2>1, <2>2, HoldUndisturbed
<1>15. CASE PressWidget
  <2>1. HoldCompleted' = HoldCompleted
    BY <1>15, PushAdds DEF PressWidget, Interactions
  <2>2. pc \in Looping /\ holdAge' = 0 /\ UNCHANGED <<pc, nap, pending, waiting>>
    BY <1>15 DEF PressWidget, Push, loopVars, askVars
  <2> QED BY <2>1, <2>2 DEF NoSecondHold, Looping, ClockLookedAt
<1>16. CASE ReleaseWidget
  <2>1. HoldCompleted' = HoldCompleted
    BY <1>16, PushAdds DEF ReleaseWidget, Interactions
  <2>2. pc \in Looping /\ holdAge' = -1 /\ UNCHANGED <<pc, nap, pending, waiting>>
    BY <1>16 DEF ReleaseWidget, Push, loopVars, askVars
  <2> QED BY <2>1, <2>2 DEF NoSecondHold, Looping, ClockLookedAt
<1>17. CASE CompleteHold
  <2>1. pc \in Looping /\ holdAge' = -1 /\ UNCHANGED <<pc, nap, pending, waiting>>
    BY <1>17 DEF CompleteHold, Push, loopVars, askVars
  <2>2. pending = NotPending
    <3>1. pending < Patience + Backoff
      BY <2>1 DEF ClockLookedAt, Looping
    <3>2. holdAge >= Patience + 2 * Backoff
      BY <1>17 DEF CompleteHold, HoldOutlasts
    <3> QED BY <2>1, <3>1, <3>2 DEF NoSecondHold
  <2> QED BY <2>1, <2>2 DEF NoSecondHold, Looping, ClockLookedAt
<1>18. CASE UNCHANGED vars
  <2>1. HoldCompleted' = HoldCompleted
    BY <1>18 DEF vars, widgetVars, HoldCompleted
  <2> QED BY <1>18, <2>1 DEF vars, loopVars, widgetVars, askVars, NoSecondHold
<1> QED BY <1>1, <1>2, <1>3, <1>4, <1>5, <1>6, <1>7, <1>8, <1>9, <1>10, <1>11, <1>12,
           <1>13, <1>14, <1>15, <1>16, <1>17, <1>18 DEF Next, Loop, Widget

LEMMA StepKeepsHInv == HInv /\ [Next]_vars => HInv'
<1> SUFFICES ASSUME HInv, [Next]_vars PROVE HInv'
  OBVIOUS
<1>1. IInv' /\ ClockLookedAt' /\ FirstHoldsClock'
  BY StepKeepsIInv, StepKeepsClock, StepKeepsFirstHold DEF HInv
<1>2. HoldOutlasts' <=> HoldOutlasts
  BY DEF HoldOutlasts
<1>3. HoldOutlasts => NoSecondHold'
  BY StepKeepsNoSecondHold
<1>4. ASSUME HoldOutlasts PROVE ~restarted'
  <2>1. ~restarted /\ NoSecondHold /\ FirstHoldsClock
    BY <1>4 DEF HInv
  <2>2. CASE PollWidget
    <3>1. CASE HoldCompleted
      <4>1. waiting = NotPending
        BY <2>1, <2>2, <3>1 DEF PollWidget, NoSecondHold, FirstHoldsClock, Looping
      <4> QED BY <2>1, <2>2, <4>1 DEF PollWidget
    <3>2. CASE ~HoldCompleted
      BY <2>1, <2>2, <3>2 DEF PollWidget, HoldCompleted
    <3> QED BY <3>1, <3>2
  <2> QED BY <2>1, <2>2, RestartedKept
<1> QED BY <1>1, <1>2, <1>3, <1>4 DEF HInv

LEMMA HoldInvariant == Spec => []HInv
BY InitHInv, StepKeepsHInv, PTL DEF Spec

(* The loop in run(): the fallback's clock is never left to run further than   *)
(* the 2,500 ms the core is given and one back-off.                            *)
THEOREM FallbackIsInTime == Spec => []FallbackInTime
<1>1. HInv => FallbackInTime
  <2> SUFFICES ASSUME HInv PROVE FallbackInTime
    OBVIOUS
  <2>1. nap \in Nat /\ pending \in Int
    BY Numbers DEF HInv, IInv, TypeOK, NotPending
  <2> QED BY <2>1, Numbers DEF HInv, ClockLookedAt, FallbackInTime, Looping
<1> QED BY <1>1, HoldInvariant, PTL

(* A completed hold is answered in time unless the student completes another   *)
(* one first: the clock of the fallback is the first hold's own, and no        *)
(* relaunch, no child and no core stops or restarts it.                        *)
THEOREM HoldAnswered == Spec => []HoldAnsweredInTime
<1>1. HInv => HoldAnsweredInTime
  <2> SUFFICES ASSUME HInv, pc \in Looping, ~restarted PROVE waiting < Answering
    BY DEF HoldAnsweredInTime
  <2>1. nap \in Nat /\ pending \in Int
    BY Numbers DEF HInv, IInv, TypeOK, NotPending
  <2> QED BY <2>1, Numbers DEF HInv, ClockLookedAt, FirstHoldsClock, Looping, Answering
<1> QED BY <1>1, HoldInvariant, PTL

(* For a policy whose holds outlast the answer no such exception is needed:    *)
(* there is no time to complete another hold, and the first one is answered.   *)
THEOREM LongHoldsAnswered ==
  ASSUME HoldOutlasts
  PROVE  Spec => []FirstHoldAnswered
<1>1. HInv => HoldAnsweredInTime /\ ~restarted
  <2> SUFFICES ASSUME HInv PROVE HoldAnsweredInTime /\ ~restarted
    OBVIOUS
  <2>1. nap \in Nat /\ pending \in Int
    BY Numbers DEF HInv, IInv, TypeOK, NotPending
  <2>2. ~restarted
    BY HoldOutlasts DEF HInv
  <2> QED BY <2>1, <2>2, Numbers DEF HInv, ClockLookedAt, FirstHoldsClock, Looping, Answering,
             HoldAnsweredInTime
<1>2. HInv => FirstHoldAnswered
  BY <1>1 DEF HoldAnsweredInTime, FirstHoldAnswered
<1> QED BY <1>2, HoldInvariant, PTL

-----------------------------------------------------------------------------
(* The initial state maps to the initial state of GuardedMachine.            *)
LEMMA InitKeepsPromise == Init => Promise!Init
BY DEF Init, Promise!Init, Phase, Held

(* Every step of run(), of Electron, of a sidecar or of the widget thread is  *)
(* one of GuardedMachine, or changes neither its phase nor whether it is held.*)
LEMMA StepKeepsPromise ==
    IInv /\ [Next]_vars => [Promise!Next]_<<Phase, Held>>
<1> SUFFICES ASSUME IInv, [Next]_vars PROVE [Promise!Next]_<<Phase, Held>>
  OBVIOUS
<1> USE DEF Looping, Phase, Held, loopVars, childVars, coreVars, endVars
<1>1. IInv => StagesInOrder /\ NothingOutlivesRecovery /\ guarded \in BOOLEAN /\ pc \in Stages
  BY DEF IInv, TypeOK
<1>2. CASE Launch \/ LaunchFails
  BY <1>1, <1>2 DEF Launch, LaunchFails, StagesInOrder, Promise!Next, Promise!Supervise, Promise!Abandon
<1>3. CASE Loop
  BY <1>1, <1>3 DEF Loop, PollWidget, ControlFileFails, PollRequest, PollExit, Relaunch,
     RelaunchFails, JudgeHeartbeat, Tick, Wake, BreakLoop, TerminateJob
<1>4. cores # {} => Phase = "supervised"
  BY <1>1 DEF StagesInOrder, NothingOutlivesRecovery, Alive, Stages, Recovering
<1>5. CASE Recovery
  <2>1. CASE EndJob
    BY <2>1 DEF EndJob, TerminateJob, Promise!Next, Promise!BeginRecovery
  <2>2. CASE GiveBackDesktop
    BY <1>1, <2>2 DEF GiveBackDesktop, StagesInOrder, Promise!Next, Promise!Ease
  <2>3. CASE RunEmergencyRestore
    <3>1. pc = "restore" /\ pc' = "cleanup"
      BY <2>3 DEF RunEmergencyRestore
    <3>2. CASE helper' = "restored" /\ guarded' = FALSE /\ desktop' = "default"
      BY <3>1, <3>2 DEF Promise!Next, Promise!EndRecovery
    <3>3. CASE helper' \in {"incomplete", "failed"} /\ UNCHANGED <<guarded, desktop>>
      BY <3>1, <3>3 DEF Promise!Next, Promise!EndRecovery
    <3> QED BY <2>3, <3>2, <3>3 DEF RunEmergencyRestore
  <2>4. CASE Cleanup
    BY <2>4 DEF Cleanup
  <2> QED BY <1>5, <2>1, <2>2, <2>3, <2>4 DEF Recovery
<1>6. CASE Electron \/ Sidecar
  <2>1. Phase' = Phase
    BY <1>6 DEF Electron, WriteHeartbeat, Hang, Quit, ChildExits,
       Sidecar, CoreStarts, CoreExits, CoreGuards, CoreSyncsWidget, CoreTakesInteraction
  <2>2. (guarded' = guarded /\ desktop' = desktop) \/ cores # {}
    BY <1>6 DEF Electron, WriteHeartbeat, Hang, Quit, ChildExits,
       Sidecar, CoreStarts, CoreExits, CoreGuards, CoreSyncsWidget, CoreTakesInteraction
  <2>3. Held' \in BOOLEAN
    BY Zenon
  <2> QED BY <1>4, <2>1, <2>2, <2>3 DEF Promise!Next, Promise!Supervise
<1>7. CASE Widget
  BY <1>1, <1>7 DEF Widget, PressWidget, ReleaseWidget, CompleteHold, Push
<1>8. CASE UNCHANGED vars
  BY <1>8 DEF vars
<1> QED BY <1>2, <1>3, <1>5, <1>6, <1>7, <1>8 DEF Next

(* The safety part of PromiseKept: run() implements GuardedMachine.           *)
THEOREM ImplementsGuardedMachine == Spec => Promise!Spec
BY InitKeepsPromise, StepKeepsPromise, StrengthenedInvariant, PTL DEF Spec, Promise!Spec
=============================================================================

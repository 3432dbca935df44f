--------------------------- MODULE GuardedMachine ---------------------------
(***************************************************************************)
(* What the bootstrapper promises the owner of the machine.  While a run   *)
(* is supervised the machine may be held (a guard in place, or the input   *)
(* on the exam desktop) and let go any number of times.  Once recovery has *)
(* begun it is never held anew, and recovery ends: the machine is released *)
(* or the run says that it could not be.                                   *)
(***************************************************************************)
VARIABLES phase, held

Phases == {"supervised", "recovering", "released", "unrestored"}

Init == phase = "supervised" /\ held = FALSE

Supervise ==
  /\ phase = "supervised"
  /\ held' \in BOOLEAN
  /\ UNCHANGED phase

\* The exam never started.
Abandon ==
  /\ phase = "supervised" /\ ~held
  /\ phase' = "released"
  /\ UNCHANGED held

BeginRecovery ==
  /\ phase = "supervised"
  /\ phase' = "recovering"
  /\ UNCHANGED held

Ease ==
  /\ phase = "recovering"
  /\ held' \in {FALSE, held}
  /\ UNCHANGED phase

EndRecovery ==
  /\ phase = "recovering"
  /\ \/ phase' = "released" /\ held' = FALSE
     \/ phase' = "unrestored" /\ UNCHANGED held

Next == Supervise \/ Abandon \/ BeginRecovery \/ Ease \/ EndRecovery

Spec == Init /\ [][Next]_<<phase, held>>

FairSpec == Spec /\ WF_<<phase, held>>(EndRecovery)
=============================================================================

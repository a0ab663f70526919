------------------------ MODULE ProcessCleanupProofs ------------------------
(***************************************************************************)
(* For every number of descendants and every setting of the three          *)
(* deadlines: the escalation misses nobody and keeps within its budget.    *)
(***************************************************************************)
EXTENDS ProcessCleanup, TLAPS

Ending == {"timeout504", "cancelled"}

(* The escalation has passed SIGKILL, or ended without need of it.         *)
Swept == phase \in {"kill", "reap"} \/ (phase = "over" /\ outcome # "result")

(* Where in the cleanup the run is, by the clock: each wait begins no      *)
(* later than the one before it had to end.                                *)
OnSchedule ==
    /\ phase # "over" => now <= deadline
    /\ phase = "grace" => deadline <= began + Grace
    /\ phase = "kill"  => deadline <= began + Grace + KillWait
    /\ phase = "reap"  => deadline <= began + Grace + KillWait + KillWait
    /\ phase = "over" /\ outcome # "result" =>
            now <= began + Grace + KillWait + KillWait

Inv ==
    /\ CleanupTypeOK
    /\ phase \in {"grace", "kill", "reap"} => outcome \in Ending
    /\ Swept => alive \subseteq killed
    /\ OnSchedule

(* A run starts with its child alive, and inside the first deadline.       *)
LEMMA InitInv == Init => Inv
<1> SUFFICES ASSUME Init
             PROVE  Inv
  OBVIOUS
<1>1. CleanupTypeOK
  BY CleanupAssumption DEF Init, CleanupTypeOK, Processes, Phases
<1>2. OnSchedule
  BY CleanupAssumption DEF Init, OnSchedule
<1>3. ~ Swept /\ phase \notin {"grace", "kill", "reap"}
  BY DEF Init, Swept
<1> QED
  BY <1>1, <1>2, <1>3 DEF Inv

(* What the operating system does keeps the invariant: a group all of      *)
(* whose members are killed cannot fork.                                   *)
LEMMA KernelInv ==
    ASSUME Inv, Kernel
    PROVE  Inv'
<1> USE DEF Inv, CleanupTypeOK, Swept, OnSchedule, Ending, loop
<1>1. ASSUME NEW d \in Descendants, Fork(d)
      PROVE  Inv'
  BY <1>1 DEF Fork, Processes
<1>2. ASSUME NEW p \in Processes, Exit(p)
      PROVE  Inv'
  BY <1>2 DEF Exit
<1>3. ASSUME NEW p \in Processes, Sleep(p)
      PROVE  Inv'
  BY <1>3 DEF Sleep
<1>4. ASSUME NEW p \in Processes, Wake(p)
      PROVE  Inv'
  BY <1>4 DEF Wake
<1>5. ASSUME Reap
      PROVE  Inv'
  BY <1>5 DEF Reap, os
<1> QED
  BY <1>1, <1>2, <1>3, <1>4, <1>5 DEF Kernel

(* Each step of the sidecar keeps it: SIGKILL goes to all who are alive,   *)
(* and every wait starts on time.                                          *)
LEMMA LoopInv ==
    ASSUME Inv, Loop \/ Cancelled
    PROVE  Inv'
<1> USE CleanupAssumption DEF Inv, CleanupTypeOK, Swept, OnSchedule, Ending,
        os, Phases, Await
<1>1. CASE Returns
  BY <1>1 DEF Returns
<1>2. CASE TimesOut \/ Cancelled
  BY <1>2 DEF TimesOut, Cancelled, BeginCleanup
<1>3. CASE SeenGone
  BY <1>3 DEF SeenGone, AfterWaits, GroupGone
<1>4. CASE Escalate
  BY <1>4 DEF Escalate, KillGroup
<1>5. CASE GiveUp
  BY <1>5 DEF GiveUp, AfterWaits, GroupGone
<1>6. CASE ReapOver
  BY <1>6 DEF ReapOver
<1> QED
  BY <1>1, <1>2, <1>3, <1>4, <1>5, <1>6 DEF Loop

(* The invariant is inductive.                                             *)
LEMMA StepInv == Inv /\ [Next]_vars => Inv'
<1> SUFFICES ASSUME Inv, [Next]_vars
             PROVE  Inv'
  OBVIOUS
<1>1. CASE Loop \/ Cancelled
  BY <1>1, LoopInv
<1>2. CASE Kernel
  BY <1>2, KernelInv
<1>3. CASE Tick
  BY <1>3 DEF Tick, Inv, CleanupTypeOK, Swept, OnSchedule, Ending, loop, os
<1>4. CASE UNCHANGED vars
  BY <1>4 DEF vars, Inv, CleanupTypeOK, Swept, OnSchedule, Ending, os
<1> QED
  BY <1>1, <1>2, <1>3, <1>4 DEF Next

(* Type correctness of _communicate_with_timeout and its cleanup.          *)
THEOREM CleanupTypeCorrect == Spec => []CleanupTypeOK
<1>1. Inv => CleanupTypeOK
  BY DEF Inv
<1> QED
  BY <1>1, InitInv, StepInv, PTL DEF Spec

(* Whoever survives a timed-out or cancelled run was sent SIGKILL, whatever*)
(* it forked and when.                                                     *)
THEOREM EscalationMissesNobody == Spec => []SurvivorsWereKilled
<1>1. Inv => SurvivorsWereKilled
  BY DEF Inv, Swept, SurvivorsWereKilled
<1> QED
  BY <1>1, InitInv, StepInv, PTL DEF Spec

(* The cleanup of a run never takes longer than the grace period and two   *)
(* kill waits.                                                             *)
THEOREM CleanupKeepsBudget == Spec => []CleanupWithinBudget
<1>1. Inv => CleanupWithinBudget
  BY CleanupAssumption
  DEF Inv, CleanupTypeOK, OnSchedule, Phases, CleanupWithinBudget
<1> QED
  BY <1>1, InitInv, StepInv, PTL DEF Spec
=============================================================================

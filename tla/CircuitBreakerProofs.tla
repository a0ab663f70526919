------------------------ MODULE CircuitBreakerProofs ------------------------
(***************************************************************************)
(* The circuit breaker for every setting of its five parameters, and with  *)
(* no bound on the failures, the calls or, but for MaxTime, the clock.     *)
(***************************************************************************)
EXTENDS CircuitBreaker, CircuitTheorems

Inv ==
    /\ now \in Nat
    /\ ledger \in Seq(Nat)
    /\ Sound(circuit, now)

(* A new breaker is closed.                                                *)
LEMMA InitInv == Init => Inv
BY ClosedSound DEF Init, Inv

(* The invariant is inductive: each method keeps the breaker sound.        *)
LEMMA StepInv == Inv /\ [Next]_vars => Inv'
<1> SUFFICES ASSUME Inv, [Next]_vars
             PROVE  Inv'
  OBVIOUS
<1>1. CASE ShouldSkip
  BY <1>1, ShouldSkipSound DEF ShouldSkip, Inv
<1>2. CASE Success
  BY <1>2, ClosedSound DEF Success, AfterSuccess, Inv
<1>3. ASSUME NEW why \in ReportedReasons, Failure(why)
      PROVE  Inv'
  <2>1. Sound(AfterFailure(circuit, why, now), now)
    BY FailureSound DEF Inv
  <2>2. ledger' \in Seq(Nat)
    BY <1>3 DEF Failure, Inv
  <2> QED
    BY <1>3, <2>1, <2>2 DEF Failure, Inv
<1>4. CASE Tick
  BY <1>4, TickSound DEF Tick, Inv
<1>5. CASE UNCHANGED vars
  BY <1>5 DEF vars, Inv
<1> QED
  BY <1>1, <1>2, <1>3, <1>4, <1>5 DEF Next

(* Type correctness of the CircuitBreaker dataclass.                       *)
THEOREM BreakerTypeCorrect == Spec => []BreakerTypeOK
<1>1. Inv => BreakerTypeOK
  BY DEF Inv, Sound, BreakerTypeOK
<1> QED
  BY <1>1, InitInv, StepInv, PTL DEF Spec

(* The deque of transient failures stays below the threshold.              *)
THEOREM DequeStaysBounded == Spec => []DequeBounded
<1>1. Inv => DequeBounded
  BY DEF Inv, Sound, DequeBounded
<1> QED
  BY <1>1, InitInv, StepInv, PTL DEF Spec

(* A breaker is never open without a reason, nor longer than the reason's  *)
(* period from now.                                                        *)
THEOREM OpenStaysExplained == Spec => []OpenIsExplained
<1>1. Inv => OpenIsExplained
  BY DEF Inv, Sound, OpenIsExplained
<1> QED
  BY <1>1, InitInv, StepInv, PTL DEF Spec

-----------------------------------------------------------------------------
(* The breaker against the one that never forgets and closes on time       *)

AbridgedInv == Abridges(circuit.failures, ledger, now)

Verdict ==
    IF IsOpen(circuit, now)
    THEN [until |-> circuit.openUntil, why |-> circuit.reason]
    ELSE [until |-> 0, why |-> NoReason]

LEMMA SameCardinality == \A S : Eager!Cardinality(S) = Cardinality(S)
BY Zenon DEF Cardinality, Eager!Cardinality

(* What failure() does: ignore the reason, open, or count.                 *)
LEMMA FailureCases ==
    ASSUME Inv, AbridgedInv, NEW why \in ReportedReasons, Failure(why)
    PROVE  \/ why = "capability" /\ UNCHANGED vars
           \/ /\ why \in Reasons
              /\ circuit' = Opened(why, now) /\ ledger' = <<>> /\ now' = now
              /\ why \in TransientReasons => Eager!Cardinality(Eager!InWindow) + 1 >= Threshold
           \/ /\ why \in TransientReasons
              /\ circuit' = [circuit EXCEPT
                    !.failures = Append(Prune(circuit.failures, now - Window), now)]
              /\ ledger' = Append(ledger, now) /\ now' = now
              /\ Eager!Cardinality(Eager!InWindow) + 1 < Threshold
<1> DEFINE kept == Prune(circuit.failures, now - Window)
           recent == Append(kept, now)
<1>1. /\ now \in Nat /\ circuit \in Circuits /\ ledger \in Seq(Nat)
      /\ Threshold \in Nat \ {0}
  BY CircuitAssumption DEF Inv, Sound, CircuitAssumption
<1>2. /\ Abridges(kept, ledger, now)
      /\ Len(kept) = Eager!Cardinality(Eager!InWindow)
  <2>1. /\ Abridges(kept, ledger, now)
        /\ Len(kept) = Cardinality(Counting(ledger, now))
    BY <1>1, AbridgesPruned DEF AbridgedInv
  <2> QED
    BY <2>1, SameCardinality, Zenon DEF Eager!InWindow, Counting
<1>3. /\ kept \in Seq(Nat) /\ recent \in Seq(Nat) /\ recent # <<>>
      /\ Len(recent) = Eager!Cardinality(Eager!InWindow) + 1
  <2>1. kept \in Seq(Nat)
    BY <1>2 DEF Abridges
  <2> HIDE DEF kept
  <2>2. recent \in Seq(Nat) /\ Len(recent) = Len(kept) + 1 /\ Len(recent) # 0
    BY <1>1, <2>1
  <2> QED
    BY <1>2, <2>1, <2>2
<1>4. /\ circuit' = AfterFailure(circuit, why, now) /\ now' = now
      /\ ledger' = IF why \notin Reasons THEN ledger
                   ELSE IF circuit'.failures = <<>> THEN <<>>
                   ELSE Append(ledger, now)
  BY DEF Failure
<1>5. \A w : Opened(w, now).failures = <<>>
  BY DEF Opened
<1>6. CASE why \in {"quota", "auth"}
  <2>1. why \in Reasons /\ why \notin TransientReasons
    BY <1>6 DEF Reasons, TransientReasons
  <2>2. circuit' = Opened(why, now)
    BY <1>4, <1>6, <2>1 DEF AfterFailure
  <2> QED
    BY <1>4, <1>5, <2>1, <2>2
<1>7. CASE why \in TransientReasons
  <2>1. why \in Reasons /\ why \notin {"quota", "auth"}
    BY <1>7 DEF Reasons, TransientReasons
  <2>2. circuit' = AfterTransient(circuit, why, now)
    BY <1>4, <1>7, <2>1 DEF AfterFailure
  <2>3. CASE Len(recent) >= Threshold
    <3>1. circuit' = Opened(why, now)
      BY <2>2, <2>3 DEF AfterTransient
    <3> QED
      BY <1>3, <1>4, <1>5, <2>1, <2>3, <3>1
  <2>4. CASE ~ (Len(recent) >= Threshold)
    <3>1. circuit' = [circuit EXCEPT !.failures = recent]
      BY <2>2, <2>4 DEF AfterTransient
    <3> HIDE DEF recent, kept
    <3>2. circuit'.failures = recent
      BY <1>1, <3>1 DEF Circuits
    <3>3. Len(recent) < Threshold /\ Eager!Cardinality(Eager!InWindow) + 1 < Threshold
      <4>1. Len(recent) \in Nat
        BY <1>3
      <4> QED
        BY <1>1, <1>3, <2>4, <4>1
    <3> QED
      BY <1>3, <1>4, <1>7, <2>1, <3>1, <3>2, <3>3 DEF recent, kept
  <2> QED
    BY <2>3, <2>4
<1>8. CASE why = "capability"
  <2>1. why \notin Reasons /\ why \notin {"quota", "auth"} /\ why \notin TransientReasons
    BY <1>8 DEF Reasons, TransientReasons
  <2>2. circuit' = circuit
    BY <1>4, <2>1 DEF AfterFailure
  <2> QED
    BY <1>4, <1>8, <2>1, <2>2 DEF vars
<1> QED
  BY <1>6, <1>7, <1>8 DEF ReportedReasons, Reasons

(* The verdict of an open breaker.                                         *)
LEMMA VerdictOpened ==
    ASSUME now \in Nat, NEW why \in Reasons, circuit' = Opened(why, now), now' = now
    PROVE  Verdict' = [until |-> now + Eager!C!OpenSeconds(why), why |-> why]
<1>1. OpenSeconds(why) \in Nat \ {0} /\ Eager!C!OpenSeconds(why) = OpenSeconds(why)
  BY OpenSecondsNat DEF OpenSeconds, Eager!C!OpenSeconds
<1>2. /\ circuit'.openUntil = now + OpenSeconds(why) /\ circuit'.reason = why
  BY DEF Opened
<1> QED
  BY <1>1, <1>2 DEF Verdict, IsOpen

LEMMA SameVerdict ==
    ASSUME circuit'.openUntil = circuit.openUntil, circuit'.reason = circuit.reason,
           now' = now
    PROVE  Verdict' = Verdict
BY DEF Verdict, IsOpen

LEMMA InitAbridged == Init => AbridgedInv
BY AbridgesNothing DEF Init, AbridgedInv, ClosedCircuit

LEMMA StepAbridged == Inv /\ AbridgedInv /\ [Next]_vars => AbridgedInv'
<1> SUFFICES ASSUME Inv, AbridgedInv, [Next]_vars
             PROVE  AbridgedInv'
  OBVIOUS
<1>1. now \in Nat /\ circuit \in Circuits
  BY DEF Inv, Sound
<1>2. CASE ShouldSkip
  <2>1. circuit'.failures = circuit.failures
    BY <1>1, <1>2 DEF ShouldSkip, AfterShouldSkip, Circuits
  <2> QED
    BY <1>2, <2>1 DEF ShouldSkip, AbridgedInv, Abridges
<1>3. CASE Success
  BY <1>3, AbridgesNothing DEF Success, AfterSuccess, ClosedCircuit, AbridgedInv
<1>4. ASSUME NEW why \in ReportedReasons, Failure(why)
      PROVE  AbridgedInv'
  <2> DEFINE kept == Prune(circuit.failures, now - Window)
  <2>1. CASE UNCHANGED vars
    BY <2>1 DEF vars, AbridgedInv
  <2>2. CASE circuit' = Opened(why, now) /\ ledger' = <<>>
    BY <2>2, AbridgesNothing DEF Opened, AbridgedInv
  <2>3. CASE /\ circuit' = [circuit EXCEPT !.failures = Append(kept, now)]
             /\ ledger' = Append(ledger, now) /\ now' = now
    <3>1. Abridges(kept, ledger, now)
      BY <1>1, AbridgesPruned DEF AbridgedInv
    <3> HIDE DEF kept
    <3>2. Abridges(Append(kept, now), Append(ledger, now), now)
      BY <1>1, <3>1, AbridgesAnother
    <3>3. circuit'.failures = Append(kept, now)
      BY <1>1, <2>3 DEF Circuits
    <3> QED
      BY <2>3, <3>2, <3>3 DEF AbridgedInv
  <2> QED
    BY <1>4, <2>1, <2>2, <2>3, FailureCases
<1>5. CASE Tick
  BY <1>1, <1>5, AbridgesInTime DEF Tick, AbridgedInv
<1>6. CASE UNCHANGED vars
  BY <1>6 DEF vars, AbridgedInv
<1> QED
  BY <1>2, <1>3, <1>4, <1>5, <1>6 DEF Next

LEMMA InitEager == Init => Eager!Init
<1>1. Init => Verdict = [until |-> 0, why |-> NoReason]
  BY DEF Init, ClosedCircuit, Verdict, IsOpen
<1> QED
  BY <1>1 DEF Init, Eager!Init, Eager!Closed, Eager!C!NoReason, Verdict, NoReason

LEMMA StepEager ==
    Inv /\ AbridgedInv /\ [Next]_vars => [Eager!Next]_<<now, Verdict, ledger>>
<1> SUFFICES ASSUME Inv, AbridgedInv, [Next]_vars
             PROVE  [Eager!Next]_<<now, Verdict, ledger>>
  OBVIOUS
<1>1. now \in Nat /\ circuit \in Circuits /\ circuit.openUntil \in Nat
  BY DEF Inv, Sound, Circuits
<1>2. CASE ShouldSkip
  <2>1. Verdict' = Verdict
    BY <1>1, <1>2 DEF ShouldSkip, AfterShouldSkip, Verdict, IsOpen, Circuits
  <2> QED
    BY <1>2, <2>1 DEF ShouldSkip
<1>3. CASE Success
  <2>1. Verdict' = [until |-> 0, why |-> NoReason] /\ ledger' = <<>> /\ now' = now
    BY <1>1, <1>3 DEF Success, AfterSuccess, ClosedCircuit, Verdict, IsOpen
  <2>2. Eager!Reset
    BY <2>1 DEF Eager!Reset, Eager!Closed, Eager!C!NoReason, NoReason, Verdict
  <2> QED
    BY <2>2 DEF Eager!Next
<1>4. ASSUME NEW why \in ReportedReasons, Failure(why)
      PROVE  [Eager!Next]_<<now, Verdict, ledger>>
  <2>1. CASE UNCHANGED vars
    <3>1. Verdict' = Verdict
      BY <2>1, SameVerdict DEF vars
    <3> QED
      BY <2>1, <3>1 DEF vars
  <2>2. CASE /\ why \in Reasons
             /\ circuit' = Opened(why, now) /\ ledger' = <<>> /\ now' = now
             /\ why \in TransientReasons => Eager!Cardinality(Eager!InWindow) + 1 >= Threshold
    <3>1. Verdict' = [until |-> now + Eager!C!OpenSeconds(why), why |-> why]
      BY <1>1, <2>2, VerdictOpened
    <3>2. Eager!Trip(why)
      BY <2>2, <3>1 DEF Eager!Trip, Verdict
    <3>3. CASE why \in {"quota", "auth"}
      BY <3>2, <3>3 DEF Eager!Next, Eager!TripDefinite
    <3>4. CASE why \in TransientReasons
      <4>1. why \in Eager!C!TransientReasons
        BY <3>4 DEF TransientReasons, Eager!C!TransientReasons
      <4> QED
        BY <2>2, <3>2, <3>4, <4>1 DEF Eager!Next, Eager!TripTransient
    <3> QED
      BY <2>2, <3>3, <3>4 DEF Reasons
  <2>3. CASE /\ circuit' = [circuit EXCEPT
                    !.failures = Append(Prune(circuit.failures, now - Window), now)]
             /\ ledger' = Append(ledger, now) /\ now' = now
             /\ Eager!Cardinality(Eager!InWindow) + 1 < Threshold
    <3>1. Verdict' = Verdict
      BY <1>1, <2>3, SameVerdict DEF Circuits
    <3>2. Eager!Count
      BY <2>3, <3>1 DEF Eager!Count, Verdict
    <3> QED
      BY <3>2 DEF Eager!Next
  <2> QED
    BY <1>4, <2>1, <2>2, <2>3, FailureCases
<1>5. CASE Tick
  <2>1. Verdict' = IF Verdict.until > now' THEN Verdict ELSE [until |-> 0, why |-> NoReason]
    BY <1>1, <1>5 DEF Tick, Verdict, IsOpen
  <2>2. Eager!Tick
    BY <1>5, <2>1 DEF Tick, Eager!Tick, Eager!Closed, Eager!C!NoReason, NoReason, Verdict
  <2> QED
    BY <2>2 DEF Eager!Next
<1>6. CASE UNCHANGED vars
  <2>1. Verdict' = Verdict
    BY <1>6, SameVerdict DEF vars
  <2> QED
    BY <1>6, <2>1 DEF vars
<1> QED
  BY <1>2, <1>3, <1>4, <1>5, <1>6 DEF Next

(* The deque that is pruned and the opening that expires unnoticed decide  *)
(* as a complete record of failures and a breaker that closes on time do.  *)
THEOREM LazinessIsInvisible == Spec => LazyImplementsEager
<1>1. Spec => [](Inv /\ AbridgedInv)
  BY InitInv, StepInv, InitAbridged, StepAbridged, PTL DEF Spec
<1>2. Spec => Eager!Init /\ [][Eager!Next]_<<now, Verdict, ledger>>
  BY <1>1, InitEager, StepEager, PTL DEF Spec
<1> QED
  BY <1>2 DEF LazyImplementsEager, Eager!Spec, Verdict
=============================================================================

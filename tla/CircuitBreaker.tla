--------------------------- MODULE CircuitBreaker ---------------------------
(***************************************************************************)
(* One CircuitBreaker of app/main.py, called in any order by concurrent    *)
(* request handlers while the clock advances.                              *)
(***************************************************************************)
EXTENDS Circuit

CONSTANT MaxTime    \* bound on the clock, for TLC only

VARIABLES
    now,
    circuit,
    ledger      \* history: transient failures since the last success or opening

vars == <<now, circuit, ledger>>

Init ==
    /\ now = 0
    /\ circuit = ClosedCircuit
    /\ ledger = <<>>

ShouldSkip ==
    /\ circuit' = AfterShouldSkip(circuit, now)
    /\ UNCHANGED <<now, ledger>>

Success ==
    /\ circuit' = AfterSuccess(circuit)
    /\ ledger' = <<>>
    /\ UNCHANGED now

(* The history follows the calls, not the deque: it grows with every       *)
(* transient failure and is emptied when the breaker (re)opens, which the  *)
(* deque shows by being empty after a failure it does not ignore.          *)
Failure(why) ==
    /\ circuit' = AfterFailure(circuit, why, now)
    /\ ledger' = IF why \notin Reasons THEN ledger
                 ELSE IF circuit'.failures = <<>> THEN <<>>
                 ELSE Append(ledger, now)
    /\ UNCHANGED now

Tick ==
    /\ now < MaxTime
    /\ now' = now + 1
    /\ UNCHANGED <<circuit, ledger>>

Next ==
    \/ ShouldSkip
    \/ Success
    \/ \E why \in ReportedReasons : Failure(why)
    \/ Tick

Spec == Init /\ [][Next]_vars

-----------------------------------------------------------------------------

(* Type: the breaker's fields and the history hold times not in the future.*)
BreakerTypeOK ==
    /\ now \in Nat
    /\ circuit \in Circuits
    /\ ledger \in Seq(Nat)
    /\ \A i \in 1..Len(circuit.failures) : circuit.failures[i] <= now

(* The deque never holds Threshold entries between calls, however the      *)
(* calls interleave with the clock: the failure that would fill it opens   *)
(* the breaker and empties it, so memory stays bounded.                    *)
DequeBounded == Len(circuit.failures) < Threshold

(* An open breaker always says why, and never has longer to run than the   *)
(* period configured for that reason, whichever failures overlapped.       *)
OpenIsExplained ==
    IsOpen(circuit, now) =>
        /\ circuit.reason \in Reasons
        /\ circuit.openUntil - now <= OpenSeconds(circuit.reason)

(* Laziness is invisible: closing only when somebody asks, and pruning the *)
(* deque only when a failure arrives, decides exactly as a breaker that    *)
(* keeps every failure and closes on time.                                 *)
Eager == INSTANCE EagerBreaker WITH
    verdict <- IF IsOpen(circuit, now)
               THEN [until |-> circuit.openUntil, why |-> circuit.reason]
               ELSE [until |-> 0, why |-> NoReason]

LazyImplementsEager == Eager!Spec
=============================================================================

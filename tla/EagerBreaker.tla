---------------------------- MODULE EagerBreaker ----------------------------
(***************************************************************************)
(* What a circuit breaker of the gateway promises, with no trace of how it *)
(* is stored: a breaker that never forgets a failure before a reset, and   *)
(* that closes at the very tick its period ends.                           *)
(***************************************************************************)
EXTENDS Integers, Sequences, FiniteSets

CONSTANTS QuotaOpen, AuthOpen, TransientOpen, Window, Threshold

VARIABLES
    now,
    verdict,   \* [until, why] while open, Closed otherwise
    ledger     \* times of all transient failures since the last reset

C == INSTANCE Circuit

Closed == [until |-> 0, why |-> C!NoReason]

InWindow == {i \in 1..Len(ledger) : ledger[i] >= now - Window}

Trip(why) ==
    /\ verdict' = [until |-> now + C!OpenSeconds(why), why |-> why]
    /\ ledger' = <<>>
    /\ UNCHANGED now

Init ==
    /\ now = 0
    /\ verdict = Closed
    /\ ledger = <<>>

(* A definite failure, or the transient failure that fills the window.     *)
TripDefinite == \E why \in {"quota", "auth"} : Trip(why)

TripTransient ==
    /\ Cardinality(InWindow) + 1 >= Threshold
    /\ \E why \in C!TransientReasons : Trip(why)

Count ==
    /\ Cardinality(InWindow) + 1 < Threshold
    /\ ledger' = Append(ledger, now)
    /\ UNCHANGED <<now, verdict>>

Reset ==
    /\ verdict' = Closed
    /\ ledger' = <<>>
    /\ UNCHANGED now

Tick ==
    /\ now' = now + 1
    /\ verdict' = IF verdict.until > now' THEN verdict ELSE Closed
    /\ UNCHANGED ledger

Next == TripDefinite \/ TripTransient \/ Count \/ Reset \/ Tick

Spec == Init /\ [][Next]_<<now, verdict, ledger>>
=============================================================================

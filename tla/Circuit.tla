------------------------------- MODULE Circuit -------------------------------
(***************************************************************************)
(* The value of one CircuitBreaker (app/main.py) and what each of its      *)
(* methods makes of it.  Every method runs under the breaker's own lock    *)
(* and awaits nothing inside it, so on the single event loop each of them  *)
(* is one atomic step: a pure operator on the breaker's value and the      *)
(* current time.  The gateway owns two breakers (text and image), hence    *)
(* operators here and state machines in the modules that use them.         *)
(*                                                                         *)
(* Times are whole ticks.  `now` is time.time(), assumed not to run back.  *)
(***************************************************************************)
EXTENDS Integers, Sequences, FiniteSets

CONSTANTS
    QuotaOpen,      \* settings.quota_open_seconds
    AuthOpen,       \* settings.auth_open_seconds
    TransientOpen,  \* settings.transient_open_seconds
    Window,         \* settings.transient_failure_window_seconds
    Threshold       \* settings.transient_failure_threshold

(* Settings.from_env clamps each of the five with max(1, int(...)).        *)
ASSUME CircuitAssumption ==
    /\ QuotaOpen \in Nat \ {0}
    /\ AuthOpen \in Nat \ {0}
    /\ TransientOpen \in Nat \ {0}
    /\ Window \in Nat \ {0}
    /\ Threshold \in Nat \ {0}

NoReason == "none"

TransientReasons ==
    {"timeout", "network", "upstream_5xx", "invalid_success", "rate_limit"}

Reasons == {"quota", "auth"} \cup TransientReasons

(* The reasons a caller may hand to failure(): "capability" (an HTTP 404   *)
(* of the image endpoint) is one that the breaker ignores.                 *)
ReportedReasons == Reasons \cup {"capability"}

Circuits == [openUntil : Nat, reason : Reasons \cup {NoReason}, failures : Seq(Nat)]

ClosedCircuit == [openUntil |-> 0, reason |-> NoReason, failures |-> <<>>]

(* How long a breaker opened for reason `why` stays open.                  *)
OpenSeconds(why) ==
    CASE why = "quota" -> QuotaOpen
      [] why = "auth"  -> AuthOpen
      [] OTHER         -> TransientOpen

-----------------------------------------------------------------------------

IsOpen(c, now) == c.openUntil > now

(* The reason should_skip() and snapshot() report: that of an open breaker.*)
SkipReason(c, now) == IF IsOpen(c, now) THEN c.reason ELSE NoReason

(* Mutant: an expired breaker also forgets the failures it has counted.    *)
AfterShouldSkipForgetting(c, now) ==
    IF IsOpen(c, now) THEN c ELSE ClosedCircuit

(* should_skip(): an expired breaker is closed, its failures are kept.     *)
AfterShouldSkip(c, now) ==
    IF IsOpen(c, now)
    THEN c
    ELSE [c EXCEPT !.openUntil = 0, !.reason = NoReason]

(* success(): everything is forgotten.                                     *)
AfterSuccess(c) == ClosedCircuit

-----------------------------------------------------------------------------
(* failure(reason)                                                         *)

(* The deque entries popleft() removes: the leading run older than cutoff. *)
Stale(failures, cutoff) ==
    {i \in 1..Len(failures) : \A j \in 1..i : failures[j] < cutoff}

(* Mutant: entries at the very edge of the window are dropped too.         *)
PruneAtEdge(failures, cutoff) ==
    SubSeq(failures, Cardinality(Stale(failures, cutoff + 1)) + 1, Len(failures))

Prune(failures, cutoff) ==
    SubSeq(failures, Cardinality(Stale(failures, cutoff)) + 1, Len(failures))

Opened(why, now) ==
    [openUntil |-> now + OpenSeconds(why), reason |-> why, failures |-> <<>>]

(* Mutant: the breaker opens only on the failure after the threshold.      *)
AfterTransientLate(c, why, now) ==
    LET recent == Append(Prune(c.failures, now - Window), now)
    IN  IF Len(recent) > Threshold
        THEN Opened(why, now)
        ELSE [c EXCEPT !.failures = recent]

(* Mutant: the deque records the cutoff instead of the time.               *)
AfterTransientCutoff(c, why, now) ==
    LET recent == Append(Prune(c.failures, now - Window), now - Window)
    IN  IF Len(recent) >= Threshold
        THEN Opened(why, now)
        ELSE [c EXCEPT !.failures = recent]

AfterTransient(c, why, now) ==
    LET recent == Append(Prune(c.failures, now - Window), now)
    IN  IF Len(recent) >= Threshold
        THEN Opened(why, now)
        ELSE [c EXCEPT !.failures = recent]

(* Mutant: an authentication failure opens for the quota period.           *)
AfterFailureLongAuth(c, why, now) ==
    CASE why \in {"quota", "auth"}  ->
            [openUntil |-> now + QuotaOpen, reason |-> why, failures |-> <<>>]
      [] why \in TransientReasons   -> AfterTransient(c, why, now)
      [] OTHER                      -> c

AfterFailure(c, why, now) ==
    CASE why \in {"quota", "auth"}  -> Opened(why, now)
      [] why \in TransientReasons   -> AfterTransient(c, why, now)
      [] OTHER                      -> c
=============================================================================

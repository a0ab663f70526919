------------------------------ MODULE Deadlines ------------------------------
(***************************************************************************)
(* The gateway's calls and the sidecar's handlers together in time.  The   *)
(* gateway gives a call up after PROVIDER_TIMEOUT_SECONDS and takes the    *)
(* next request; the sidecar is not told, and the handler of the abandoned *)
(* call keeps its places in the queues (app/main.py, _call_provider;       *)
(* app/codex_upstream.py).                                                 *)
(*                                                                         *)
(* Every handler takes the steps of the module Sidecar; here they get      *)
(* durations, in ticks.  Both event loops are assumed to be on time: no    *)
(* tick passes over a timer that is due or a task that is ready.           *)
(***************************************************************************)
EXTENDS Sidecar

CONSTANTS
    GatewayConcurrency,  \* the gateway's MAX_CONCURRENCY
    ProviderTimeout,     \* PROVIDER_TIMEOUT_SECONDS
    CodexTimeout,        \* CODEX_TIMEOUT_SECONDS
    CleanupTime,         \* Grace + KillWait + KillWait of ProcessCleanup
    FetchTime,           \* all input images of a run; see below
    GenerateTime         \* the calls of generate_codex_image()

(* The caps of the cleanup periods keep 180 + 20 below 210 seconds.  An    *)
(* image generation makes up to four calls (two token refreshes and two    *)
(* attempts) of up to CodexTimeout each.  The timeout of an image fetch    *)
(* bounds each read and not the fetch; FetchTime is a bound on the whole.  *)
ASSUME DeadlinesAssumption ==
    /\ GatewayConcurrency \in Nat \ {0}
    /\ CodexTimeout \in Nat \ {0}
    /\ CleanupTime \in Nat
    /\ FetchTime \in Nat
    /\ GenerateTime \in Nat /\ GenerateTime >= CodexTimeout
    /\ ProviderTimeout \in Nat /\ ProviderTimeout > CodexTimeout + CleanupTime

Calls == {"none", "open", "answered", "abandoned"}

VARIABLES
    call,     \* the gateway's call of the sidecar, per request
    age,      \* ticks since an open call was posted
    spent,    \* ticks the handler has spent at its stage
    delayed   \* history: the handlers that waited for a permit or the lock,
              \* spent time on images, or had their output repaired

clocks == <<call, age, spent, delayed>>
timedVars == <<vars, clocks>>

TimedInit ==
    /\ Init
    /\ call = [r \in Requests |-> "none"]
    /\ age = [r \in Requests |-> 0]
    /\ spent = [r \in Requests |-> 0]
    /\ delayed = {}

OpenCalls == {r \in Requests : call[r] = "open"}

-----------------------------------------------------------------------------

(* What a step of r's handler does to the clocks; `c` is r's call before.  *)
(* The answer goes to the gateway if it still waits.                       *)
Stamp(r, c) ==
    LET over == stage'[r] = "done" /\ c = "open"
    IN  /\ call' = [call EXCEPT ![r] = IF over THEN "answered" ELSE c]
        /\ age' = IF over THEN [age EXCEPT ![r] = 0] ELSE age
        /\ spent' = [spent EXCEPT ![r] = 0]
        /\ delayed' = IF stage'[r] \in {"sem", "lock"} \/ attempt'[r] = 2
                      THEN delayed \cup {r} ELSE delayed

(* Mutant: the gateway does not remember the call it posted.               *)
PostForgotten(r) ==
    /\ Cardinality(OpenCalls) < GatewayConcurrency
    /\ Arrive(r)
    /\ Stamp(r, call[r])

(* The gateway has a permit for r and posts it.                            *)
Post(r) ==
    /\ Cardinality(OpenCalls) < GatewayConcurrency
    /\ Arrive(r)
    /\ Stamp(r, "open")

(* httpx gives up; nothing tells the sidecar.                              *)
Abandon(r) ==
    /\ call[r] = "open"
    /\ age[r] = ProviderTimeout
    /\ call' = [call EXCEPT ![r] = "abandoned"]
    /\ age' = [age EXCEPT ![r] = 0]
    /\ UNCHANGED <<vars, spent, delayed>>

(* Mutant: CODEX_TIMEOUT_SECONDS is raised to PROVIDER_TIMEOUT_SECONDS.    *)
LimitCoinciding(where) ==
    CASE where = "prepare"  -> FetchTime
      [] where = "run"      -> ProviderTimeout
      [] where = "cleanup"  -> CleanupTime
      [] where = "generate" -> GenerateTime

(* How long a handler may stay where something bounds its stay.            *)
Limit(where) ==
    CASE where = "prepare"  -> FetchTime
      [] where = "run"      -> CodexTimeout
      [] where = "cleanup"  -> CleanupTime
      [] where = "generate" -> GenerateTime

Bounded == {"prepare", "run", "cleanup", "generate"}

(* A run may end at any time, but times out only when its time is over.    *)
Work(r) ==
    /\ Serve(r)
    /\ stage[r] = "run" /\ stage'[r] = "cleanup" => spent[r] = Limit("run")
    /\ Stamp(r, call[r])

Tick ==
    /\ sem.woken = {} /\ lock.woken = {}
    /\ \A r \in Requests :
         /\ stage[r] \in Bounded => spent[r] < Limit(stage[r])
         /\ call[r] = "open" => age[r] < ProviderTimeout
    /\ \E r \in Requests : stage[r] \in Bounded
    /\ age' = [r \in Requests |-> IF call[r] = "open" THEN age[r] + 1 ELSE age[r]]
    /\ spent' = [r \in Requests |-> IF stage[r] \in Bounded \cup {"lock"}
                                    THEN spent[r] + 1 ELSE spent[r]]
    /\ delayed' = delayed \cup {r \in Requests : stage[r] = "prepare"}
    /\ UNCHANGED <<vars, call>>

TimedNext == Tick \/ \E r \in Requests : Post(r) \/ Work(r) \/ Abandon(r)

TimedSpec == TimedInit /\ [][TimedNext]_timedVars

-----------------------------------------------------------------------------

(* The longest anybody can hold the lock at a stretch.                     *)
Tenure ==
    LET run == FetchTime + CodexTimeout + CleanupTime
    IN  IF run > GenerateTime THEN run ELSE GenerateTime

(* Those who can be ahead of somebody in the queue for the lock: the other *)
(* holders of a permit, and image generations, which need none.            *)
Contenders ==
    MaxConcurrency - 1 + Cardinality({r \in Requests : kind[r] = "image"})

(* Type: what each variable may hold.                                      *)
DeadlinesTypeOK ==
    /\ SidecarTypeOK
    /\ call \in [Requests -> Calls]
    /\ age \in [Requests -> 0..ProviderTimeout]
    /\ spent \in [Requests -> Nat]
    /\ delayed \subseteq Requests
    /\ \A r \in Requests : (call[r] = "none") <=> (stage[r] = "idle")

(* The margin between the deadlines does what it is for: a completion that *)
(* met no queue, fetched no image and needed no repair is never given up   *)
(* by the gateway, so that even the 504 of a run that was taken down with  *)
(* full grace arrives in time.                                             *)
UndelayedIsAnswered ==
    \A r \in Requests :
        kind[r] \in Completions /\ r \notin delayed => call[r] # "abandoned"

(* Nobody waits for the lock longer than everybody ahead may hold it once: *)
(* runs that time out, abandoned handlers and above all repair runs, which *)
(* ask for the lock again, do not push others back.                        *)
LockWaitBounded ==
    \A r \in Requests : stage[r] = "lock" => spent[r] <= Contenders * Tenure

-----------------------------------------------------------------------------

(* README.md, on the two deadlines: "The gateway deadline is deliberately  *)
(* longer so the sidecar's typed HTTP 504 `codex execution timed out`      *)
(* reaches the caller before the gateway abandons the request."            *)
TypedTimeoutReachesGateway ==
    \A r \in Requests :
        stage[r] = "done" /\ reply[r] = "timeout504" => call[r] = "answered"
=============================================================================

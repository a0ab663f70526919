------------------------------- MODULE Gateway -------------------------------
(***************************************************************************)
(* The gateway (app/main.py and app/runtime_app.py) serving a set of       *)
(* concurrent requests on one event loop.                                  *)
(*                                                                         *)
(* A handler runs without interruption between two awaits that really      *)
(* suspend it: the wait for a permit, and each call of a provider.  Hence  *)
(* the stages of a request, and one action for each stretch between two of *)
(* them.  The circuit's lock is never held across an await, so taking it   *)
(* does not suspend.                                                       *)
(***************************************************************************)
EXTENDS Circuit, AsyncSemaphore

CONSTANTS
    Requests,
    MaxConcurrency,  \* settings.max_concurrency
    Kinds,           \* the kinds of request that arrive, a subset of AllKinds
    Configurations,  \* the settings the gateway may have been started with
    MaxTime          \* bound on the clock, for TLC only


AllKinds == {
    "luna",         \* chat or responses, for a model Codex serves
    "forced",       \* the same with X-Luna-Gateway-Force-Fallback: quota
    "api_only",     \* chat or responses, for a model Codex does not serve
    "passthrough",  \* a path of API_PASSTHROUGH_METHODS
    "image"}        \* images/generations

Settings == [apiKey       : BOOLEAN,   \* server_openai_api_key is not empty
             paidImages   : BOOLEAN,   \* ALLOW_PAID_OPENAI_IMAGE_FALLBACK
             testControls : BOOLEAN]   \* enable_test_controls

(* Settings.from_env clamps the concurrency with max(1, int(...)).         *)
ASSUME GatewayAssumption ==
    /\ MaxConcurrency \in Nat \ {0}
    /\ Kinds \subseteq AllKinds
    /\ Configurations \subseteq Settings

Channels == {"text", "image"}

Stages == {"idle", "queued", "codex", "openai", "paid", "done"}
Calling == {"codex", "openai"}    \* a provider call that holds a permit

(* Who the answer comes from; a paid call that fails is an answer too.     *)
Replies == {"none", "codex", "openai", "openai_failed", "error"}

Never == -1

VARIABLES
    now,
    settings,     \* the configuration, fixed at start
    text, image,  \* Gateway.circuit and Gateway.image_circuit
    sem,          \* Gateway.semaphore
    kind,         \* per request, what arrived
    skip,         \* per request, the local skip_reason of its handler
    stage, reply,
    confirmed,    \* history: when quota was last reported, per channel
    justified     \* history: the requests the paid API may be used for

circuits == <<text, image>>
history  == <<confirmed, justified>>
vars == <<now, settings, text, image, sem, kind, skip, stage, reply,
          confirmed, justified>>

ChannelOf(k) == IF k = "image" THEN "image"
                ELSE IF k \in {"luna", "forced"} THEN "text" ELSE "api"

Init ==
    /\ now = 0
    /\ settings \in Configurations
    /\ text = ClosedCircuit
    /\ image = ClosedCircuit
    /\ sem = Unused(MaxConcurrency)
    /\ kind = [r \in Requests |-> "none"]
    /\ skip = [r \in Requests |-> NoReason]
    /\ stage = [r \in Requests |-> "idle"]
    /\ reply = [r \in Requests |-> "none"]
    /\ confirmed = [c \in Channels |-> Never]
    /\ justified = {}

-----------------------------------------------------------------------------
(* The ways a stretch of a handler can end.  `s` is the semaphore at the   *)
(* time, of which the request holds a permit in Call and Answer.           *)

Call(r, where, s) ==
    /\ stage' = [stage EXCEPT ![r] = where]
    /\ sem' = s
    /\ UNCHANGED reply

Finish(r, who, s) ==
    /\ stage' = [stage EXCEPT ![r] = "done"]
    /\ reply' = [reply EXCEPT ![r] = who]
    /\ sem' = s

Answer(r, who, s) == Finish(r, who, Release(s))

(* Mutant: the early return for want of a credential keeps the permit.     *)
FallbackLeaking(r, s) ==
    IF settings.apiKey THEN Call(r, "openai", s) ELSE Finish(r, "error", s)

(* request(), when Codex is given up: the fallback needs a credential.     *)
Fallback(r, s) ==
    IF settings.apiKey THEN Call(r, "openai", s) ELSE Answer(r, "error", s)

(* Mutant: the paid call is made with the permit, and gives none back.     *)
ExhaustedKeeping(r, s) ==
    IF settings.paidImages /\ settings.apiKey
    THEN Call(r, "paid", s)
    ELSE Answer(r, "error", s)

(* generate_image() has found the quota exhausted and answers 429; its     *)
(* wrapper, outside the semaphore, turns that into a paid call.            *)
Exhausted(r, s) ==
    IF settings.paidImages /\ settings.apiKey
    THEN Call(r, "paid", Release(s))
    ELSE Answer(r, "error", s)

(* Codex, or the test control, reports that the quota of c is exhausted.   *)
QuotaReported(r, c) ==
    /\ confirmed' = [confirmed EXCEPT ![c] = now]
    /\ justified' = justified \cup {r}

-----------------------------------------------------------------------------
(* Arriving, and passing the semaphore                                     *)

(* Mutant: an open image circuit leads to the fallback whatever opened it. *)
EnterImageAnyReason(r, why, s) ==
    IF why = NoReason THEN Call(r, "codex", s) ELSE Exhausted(r, s)

(* generate_image() with a permit: codex only while its circuit is closed, *)
(* the paid fallback only if it is open for quota.                         *)
EnterImage(r, why, s) ==
    CASE why = NoReason -> Call(r, "codex", s)
      [] why = "quota"  -> Exhausted(r, s)
      [] OTHER          -> Answer(r, "error", s)

(* From the moment r has a permit of s to the first provider call, or the  *)
(* answer.  `why` is what should_skip() said, `t` the text circuit and `j` *)
(* the justified requests before.                                          *)
Enter(r, k, why, s, t, j) ==
    /\ \/ k = "luna" /\ why = NoReason /\ Call(r, "codex", s)
       \/ k = "luna" /\ why # NoReason /\ Fallback(r, s)
       \/ k = "forced" /\ Fallback(r, s)
       \/ k = "image" /\ EnterImage(r, why, s)
       \/ k \in {"api_only", "passthrough"} /\ Call(r, "openai", s)
    /\ IF k = "forced"
       THEN /\ text' = AfterFailure(t, "quota", now)
            /\ QuotaReported(r, "text")
       ELSE /\ text' = t
            /\ justified' = j
            /\ UNCHANGED confirmed

(* What should_skip() of the circuit of kind k answers.                    *)
SkipFor(k) ==
    CASE k \in {"luna", "forced"} -> SkipReason(text, now)
      [] k = "image"              -> SkipReason(image, now)
      [] OTHER                    -> NoReason

Recent(c) ==
    \/ c = "api"
    \/ c \in Channels /\ confirmed[c] # Never /\ now - confirmed[c] < QuotaOpen

(* A valid request arrives: should_skip() and then, without suspending,    *)
(* either the first provider call or the queue of the semaphore.           *)
Accept(r, k) ==
    LET t == IF ChannelOf(k) = "text" THEN AfterShouldSkip(text, now) ELSE text
        j == IF Recent(ChannelOf(k)) THEN justified \cup {r} ELSE justified
    IN  /\ k = "forced" => settings.testControls
        /\ k = "api_only" => settings.apiKey
        /\ skip' = [skip EXCEPT ![r] = SkipFor(k)]
        /\ image' = IF k = "image" THEN AfterShouldSkip(image, now) ELSE image
        /\ IF CanTake(sem)
           THEN Enter(r, k, SkipFor(k), Take(sem), t, j)
           ELSE /\ Call(r, "queued", Enqueue(sem, r))
                /\ text' = t
                /\ justified' = j
                /\ UNCHANGED confirmed

(* One that is refused before the semaphore: no caller key, malformed, a   *)
(* model not allowed, test controls disabled or no credential for a model  *)
(* that needs one.  A bad reasoning effort is found after should_skip().   *)
Refuse(r, k) ==
    /\ Finish(r, "error", sem)
    /\ \/ UNCHANGED text
       \/ /\ k = "luna" \/ (k = "forced" /\ settings.testControls)
          /\ text' = AfterShouldSkip(text, now)
    /\ UNCHANGED <<image, skip, history>>

Arrive(r) ==
    /\ stage[r] = "idle"
    /\ \E k \in Kinds :
         /\ kind' = [kind EXCEPT ![r] = k]
         /\ Accept(r, k) \/ Refuse(r, k)
    /\ UNCHANGED <<now, settings>>

(* A request that waited for a permit gets it.  It acts on the skip        *)
(* decision it took before it waited.                                      *)
Resumed(r) ==
    /\ r \in sem.woken
    /\ Enter(r, kind[r], skip[r], Resume(sem, r), text, justified)
    /\ UNCHANGED <<now, settings, image, kind, skip>>

-----------------------------------------------------------------------------
(* Codex answers a text request                                            *)

Outcomes == {
    "ok", "invalid_success",            \* 2xx, usable or not
    "quota", "rate_limit",              \* 429, with and without a quota term
    "auth", "capability", "upstream_5xx", "client_error",   \* other statuses
    "timeout", "network"}               \* no response

(* Mutant: a rate limit counts as quota exhaustion.                        *)
ClassifyRateLimit(outcome) ==
    IF outcome \in {"quota", "rate_limit"} THEN "quota" ELSE NoReason

(* classify_failure(): every failure but quota is answered as it is.       *)
ClassifyFailure(outcome) == IF outcome = "quota" THEN "quota" ELSE NoReason

CodexAnswersText(r, outcome) ==
    /\ stage[r] = "codex" /\ kind[r] = "luna"
    /\ IF outcome = "ok"
       THEN /\ text' = AfterSuccess(text)
            /\ Answer(r, "codex", sem)
       ELSE IF ClassifyFailure(outcome) = NoReason
       THEN /\ Answer(r, "codex", sem)
            /\ UNCHANGED text
       ELSE /\ text' = AfterFailure(text, ClassifyFailure(outcome), now)
            /\ Fallback(r, sem)
    /\ IF outcome = "quota" THEN QuotaReported(r, "text") ELSE UNCHANGED history
    /\ UNCHANGED <<now, settings, image, kind, skip>>

-----------------------------------------------------------------------------
(* Codex answers an image request                                          *)

(* classify_image_failure_response(), and the reasons given without one.   *)
ClassifyImage(outcome) ==
    IF outcome = "client_error" THEN NoReason ELSE outcome

CodexAnswersImage(r, outcome) ==
    /\ stage[r] = "codex" /\ kind[r] = "image"
    /\ IF outcome = "ok"
       THEN /\ image' = AfterSuccess(image)
            /\ Answer(r, "codex", sem)
       ELSE IF ClassifyImage(outcome) = NoReason
       THEN /\ Answer(r, "codex", sem)
            /\ UNCHANGED image
       ELSE /\ image' = AfterFailure(image, ClassifyImage(outcome), now)
            /\ IF ClassifyImage(outcome) = "quota"
               THEN Exhausted(r, sem)
               ELSE Answer(r, IF outcome \in {"timeout", "network"}
                              THEN "error" ELSE "codex", sem)
    /\ IF outcome = "quota" THEN QuotaReported(r, "image") ELSE UNCHANGED history
    /\ UNCHANGED <<now, settings, text, kind, skip>>

CodexAnswers(r) ==
    \E outcome \in Outcomes :
        CodexAnswersText(r, outcome) \/ CodexAnswersImage(r, outcome)

-----------------------------------------------------------------------------
(* The paid API answers, or fails to                                       *)

OpenAIAnswers(r) ==
    /\ stage[r] = "openai"
    /\ \E who \in {"openai", "openai_failed"} : Answer(r, who, sem)
    /\ UNCHANGED <<now, settings, circuits, kind, skip, history>>

(* Mutant: the wrapper gives back the permit its inner call gave back.     *)
PaidAnswersReleasing(r) ==
    /\ stage[r] = "paid"
    /\ \E who \in {"openai", "openai_failed"} : Answer(r, who, sem)
    /\ UNCHANGED <<now, settings, circuits, kind, skip, history>>

(* The paid image call is made outside the semaphore.                      *)
PaidAnswers(r) ==
    /\ stage[r] = "paid"
    /\ \E who \in {"openai", "openai_failed"} : Finish(r, who, sem)
    /\ UNCHANGED <<now, settings, circuits, kind, skip, history>>

Tick ==
    /\ now < MaxTime
    /\ now' = now + 1
    /\ UNCHANGED <<settings, circuits, sem, kind, skip, stage, reply, history>>

Serve(r) == Resumed(r) \/ CodexAnswers(r) \/ OpenAIAnswers(r) \/ PaidAnswers(r)

Next == Tick \/ \E r \in Requests : Arrive(r) \/ Serve(r)

Spec == Init /\ [][Next]_vars

(* Callers come when they like.  A task that was given a permit is in the  *)
(* loop's ready queue.  httpx ends a call that stalls: its timeout is for  *)
(* each operation, so that this assumes that no provider sends its answer  *)
(* byte by byte for ever.                                                  *)
FairSpec == Spec /\ \A r \in Requests : WF_vars(Serve(r))
-----------------------------------------------------------------------------

(* Type: what each variable may hold.                                      *)
GatewayTypeOK ==
    /\ now \in Nat
    /\ settings \in Settings
    /\ text \in Circuits
    /\ image \in Circuits
    /\ sem \in Semaphores(Requests, MaxConcurrency)
    /\ kind \in [Requests -> AllKinds \cup {"none"}]
    /\ skip \in [Requests -> Reasons \cup {NoReason}]
    /\ stage \in [Requests -> Stages]
    /\ reply \in [Requests -> Replies]
    /\ confirmed \in [Channels -> Nat \cup {Never}]
    /\ justified \subseteq Requests

Holders == {r \in Requests : stage[r] \in Calling}

(* No early return, error or paid call outside the semaphore leaks a       *)
(* permit or gives one back twice: free permits, permits on their way to a *)
(* woken task and calls in flight always add up to the limit.              *)
PermitsConserved ==
    sem.permits + Cardinality(sem.woken) + Cardinality(Holders) = MaxConcurrency

(* Nobody waits while a permit lies idle: if one is free, a woken task is  *)
(* about to run and will pass it on.  And only those wait who should.      *)
NoLostWakeup ==
    /\ sem.permits > 0 /\ sem.queue # <<>> => sem.woken # {}
    /\ \A r \in Requests :
         (stage[r] = "queued") <=> (r \in Waiting(sem) \cup sem.woken)

(* The circuits say what Codex reported.  The text circuit opens for quota *)
(* and nothing else, and while either is open for quota it stays open for  *)
(* exactly the quota period after the last report, whatever late answers   *)
(* of other calls did to it meanwhile.                                     *)
CircuitsFollowReports ==
    /\ text.reason \in {NoReason, "quota"}
    /\ text.failures = <<>>
    /\ \A pair \in {<<"text", text>>, <<"image", image>>} :
         SkipReason(pair[2], now) = "quota" =>
            /\ confirmed[pair[1]] # Never
            /\ pair[2].openUntil = confirmed[pair[1]] + QuotaOpen

(* The refinement mapping: the channel a request uses, and whether the     *)
(* paid API was called for it.                                             *)
ChannelServed ==
    [r \in Requests |-> IF kind[r] = "none" THEN "none" ELSE ChannelOf(kind[r])]

Verdict ==
    [r \in Requests |->
        IF stage[r] \in {"openai", "paid"} \/ reply[r] \in {"openai", "openai_failed"}
        THEN "paid"
        ELSE IF stage[r] = "done" THEN "free" ELSE "open"]

Billing == INSTANCE QuotaOnlyFallback WITH
    channel <- ChannelServed, verdict <- Verdict

(* The paid API is called for a request Codex should serve only on its own *)
(* or a recent confirmation of exhausted quota, and a settled request      *)
(* stays settled: the abstract specification.                              *)
PaidOnlyForQuota == Billing!Spec

(* Every request that got in is answered, wherever it waits and whatever   *)
(* the providers do.                                                       *)
EveryRequestAnswered ==
    \A r \in Requests :
        stage[r] \in Stages \ {"idle", "done"} ~> stage[r] = "done"

-----------------------------------------------------------------------------
(* What README.md says of the quota circuit.                               *)

(* "The quota circuit prevents repeated Codex attempts during a confirmed  *)
(* quota-exhaustion window": no text call of Codex starts while the text   *)
(* circuit is open for quota.                                              *)
NoCodexInQuotaWindow ==
    [][\A r \in Requests :
          kind'[r] = "luna" /\ stage[r] # "codex" /\ stage'[r] = "codex" =>
              SkipReason(text, now) # "quota"]_vars

(* "subsequent Luna text requests use the API fallback until that circuit  *)
(* expires": one that arrives within the quota period of a confirmation    *)
(* does not go to Codex.                                                   *)
LaterRequestsFallBack ==
    [][\A r \in Requests :
          kind'[r] = "luna" /\ stage[r] = "idle" /\ stage'[r] = "codex" =>
              ~ Recent("text")]_vars
=============================================================================

---------------------------- MODULE GatewayProofs ----------------------------
(***************************************************************************)
(* The gateway for any set of requests, any concurrency limit, any         *)
(* configuration and any circuit settings.                                 *)
(***************************************************************************)
EXTENDS Gateway, CircuitTheorems, SemaphoreTheorems

(* The inductive invariant, in four parts.                                 *)
TypeInv ==
    /\ now \in Nat
    /\ settings \in Settings
    /\ kind \in [Requests -> AllKinds \cup {"none"}]
    /\ skip \in [Requests -> Reasons \cup {NoReason}]
    /\ stage \in [Requests -> Stages]
    /\ reply \in [Requests -> Replies]
    /\ confirmed \in [Channels -> Nat \cup {Never}]
    /\ justified \subseteq Requests

(* Permits add up, and the semaphore's tasks are the queued requests.      *)
SemInv ==
    /\ WellFormed(sem, Requests)
    /\ NoIdlePermit(sem)
    /\ IsFiniteSet(Holders)
    /\ Spare(sem) + Cardinality(Holders) = MaxConcurrency
    /\ \A r \in Requests : (stage[r] = "queued") <=> (r \in Members(sem))

(* An open quota circuit ends QuotaOpen after the report at `t`.           *)
Follows(c, at, t) ==
    SkipReason(c, at) = "quota" => t # Never /\ c.openUntil = t + QuotaOpen

(* Each circuit as it should be found, `t` being the last quota report.    *)
TextGood(c, t) ==
    /\ Sound(c, now)
    /\ c.reason \in {NoReason, "quota"}
    /\ c.failures = <<>>
    /\ Follows(c, now, t)

ImageGood(c, t) == Sound(c, now) /\ Follows(c, now, t)

CircuitInv ==
    /\ TextGood(text, confirmed["text"])
    /\ ImageGood(image, confirmed["image"])

(* The reasons for which a stretch that begins with a permit may pay.      *)
MayPay(k, why) ==
    \/ k = "luna" /\ why # NoReason
    \/ k = "image" /\ why = "quota"
    \/ k \in {"forced", "api_only", "passthrough"}

(* What a waiting handler remembers is backed by the history, however old  *)
(* it has become.                                                          *)
RequestInv ==
    \A r \in Requests :
        /\ (stage[r] = "idle") <=> (kind[r] = "none")
        /\ stage[r] # "done" => reply[r] = "none"
        /\ stage[r] = "queued" /\ kind[r] # "forced" /\ MayPay(kind[r], skip[r])
           => r \in justified

Inv == TypeInv /\ SemInv /\ CircuitInv /\ RequestInv

-----------------------------------------------------------------------------
(* The semaphore                                                           *)

(* r runs with a permit of s that is counted neither as spare nor, yet, as *)
(* held; and the same once the permit is given back.                       *)
Apart(r, s, taken) ==
    /\ WellFormed(s, Requests)
    /\ NoIdlePermit(s)
    /\ IsFiniteSet(Holders \ {r})
    /\ Spare(s) + Cardinality(Holders \ {r}) + taken = MaxConcurrency
    /\ r \notin Members(s)
    /\ \A q \in Requests \ {r} : (stage[q] = "queued") <=> (q \in Members(s))

Owned(r, s) == Apart(r, s, 1)
Freed(r, s) == Apart(r, s, 0)

(* Giving the permit back.                                                 *)
LEMMA ReleaseFrees ==
    ASSUME NEW r \in Requests, NEW s, Owned(r, s)
    PROVE  Freed(r, Release(s))
<1>1. /\ WellFormed(Release(s), Requests)
      /\ NoIdlePermit(Release(s))
      /\ Spare(Release(s)) = Spare(s) + 1
      /\ Members(Release(s)) = Members(s)
  BY ReleaseKeeps DEF Owned, Apart
<1>2. Cardinality(Holders \ {r}) \in Nat
  BY FS_CardinalityType DEF Owned, Apart
<1>3. Spare(s) \in Nat
  BY FS_CardinalityType DEF Owned, Apart, WellFormed, Spare
<1> QED
  BY <1>1, <1>2, <1>3 DEF Owned, Freed, Apart

(* A stretch that ends in a provider call keeps the permit.                *)
LEMMA CallSem ==
    ASSUME TypeInv, NEW r \in Requests, NEW s, Owned(r, s),
           NEW where \in Calling, Call(r, where, s)
    PROVE  SemInv'
<1>1. stage' = [stage EXCEPT ![r] = where] /\ sem' = s
  BY DEF Call
<1>2. /\ stage'[r] = where
      /\ \A q \in Requests \ {r} : stage'[q] = stage[q]
      /\ where \in {"codex", "openai"}
  BY <1>1 DEF TypeInv, Calling
<1>3. Holders' = (Holders \ {r}) \cup {r}
  BY <1>2 DEF Holders, Calling
<1>4. /\ IsFiniteSet(Holders')
      /\ Cardinality(Holders') = Cardinality(Holders \ {r}) + 1
  <2> DEFINE H == Holders \ {r}
  <2>1. IsFiniteSet(H) /\ r \notin H
    BY DEF Owned, Apart
  <2> HIDE DEF H
  <2>2. IsFiniteSet(H \cup {r}) /\ Cardinality(H \cup {r}) = Cardinality(H) + 1
    BY <2>1, FS_AddElement
  <2> QED
    BY <1>3, <2>2 DEF H
<1>5. Cardinality(Holders \ {r}) \in Nat /\ Spare(s) \in Nat
  BY FS_CardinalityType DEF Owned, Apart, WellFormed, Spare
<1>6. Spare(s) + Cardinality(Holders') = MaxConcurrency
  BY <1>4, <1>5 DEF Owned, Apart
<1>7. \A q \in Requests : (stage'[q] = "queued") <=> (q \in Members(s))
  BY <1>2 DEF Owned, Apart
<1> QED
  BY <1>1, <1>4, <1>6, <1>7 DEF SemInv, Owned, Apart

(* A stretch that ends without a permit has given it back.                 *)
LEMMA FreedSem ==
    ASSUME TypeInv, NEW r \in Requests, NEW s, Freed(r, s),
           NEW x \in {"paid", "done"},
           stage' = [stage EXCEPT ![r] = x], sem' = s
    PROVE  SemInv'
<1>1. /\ stage'[r] = x
      /\ \A q \in Requests \ {r} : stage'[q] = stage[q]
  BY DEF TypeInv
<1>2. Holders' = Holders \ {r}
  BY <1>1 DEF Holders, Calling
<1>3. Spare(s) + Cardinality(Holders') = MaxConcurrency
  <2>1. Cardinality(Holders \ {r}) \in Nat /\ Spare(s) \in Nat
    BY FS_CardinalityType DEF Freed, Apart, WellFormed, Spare
  <2> QED
    BY <1>2, <2>1 DEF Freed, Apart
<1>4. \A q \in Requests : (stage'[q] = "queued") <=> (q \in Members(s))
  BY <1>1 DEF Freed, Apart
<1> QED
  BY <1>2, <1>3, <1>4 DEF SemInv, Freed, Apart

(* An answer gives the permit back.                                        *)
LEMMA AnswerSem ==
    ASSUME TypeInv, NEW r \in Requests, NEW s, Owned(r, s), NEW who,
           Answer(r, who, s)
    PROVE  SemInv'
BY ReleaseFrees, FreedSem DEF Answer, Finish

(* So does the text fallback if it has no credential.                      *)
LEMMA FallbackSem ==
    ASSUME TypeInv, NEW r \in Requests, NEW s, Owned(r, s), Fallback(r, s)
    PROVE  SemInv'
BY CallSem, AnswerSem DEF Fallback, Calling

(* And the end of an image request whose quota is exhausted.               *)
LEMMA ExhaustedSem ==
    ASSUME TypeInv, NEW r \in Requests, NEW s, Owned(r, s), Exhausted(r, s)
    PROVE  SemInv'
BY ReleaseFrees, FreedSem, AnswerSem DEF Exhausted, Call

(* Whatever a request does with its permit, permits add up.                *)
LEMMA EnterSem ==
    ASSUME TypeInv, NEW r \in Requests, NEW s, Owned(r, s),
           NEW k \in AllKinds, NEW why, NEW t, NEW j, Enter(r, k, why, s, t, j)
    PROVE  SemInv'
<1>1. \/ Call(r, "codex", s)
      \/ Call(r, "openai", s)
      \/ Fallback(r, s)
      \/ Exhausted(r, s)
      \/ Answer(r, "error", s)
  BY DEF Enter, EnterImage, AllKinds
<1> QED
  BY <1>1, CallSem, FallbackSem, ExhaustedSem, AnswerSem DEF Calling

(* A request that waits joins the semaphore's tasks.                       *)
LEMMA QueueSem ==
    ASSUME TypeInv, SemInv, NEW r \in Requests, stage[r] = "idle",
           ~ CanTake(sem), Call(r, "queued", Enqueue(sem, r))
    PROVE  SemInv'
<1>1. r \notin Members(sem)
  BY DEF SemInv
<1>2. /\ WellFormed(Enqueue(sem, r), Requests)
      /\ NoIdlePermit(Enqueue(sem, r))
      /\ Spare(Enqueue(sem, r)) = Spare(sem)
      /\ Members(Enqueue(sem, r)) = Members(sem) \cup {r}
  BY <1>1, EnqueueKeeps DEF SemInv
<1>3. /\ stage'[r] = "queued"
      /\ \A q \in Requests \ {r} : stage'[q] = stage[q]
      /\ sem' = Enqueue(sem, r)
  BY DEF Call, TypeInv
<1>4. Holders' = Holders
  BY <1>3 DEF Holders, Calling
<1> QED
  BY <1>2, <1>3, <1>4 DEF SemInv

(* How a request comes by a permit: at once, from a waker, or earlier.     *)
LEMMA TakenIsOwned ==
    ASSUME TypeInv, SemInv, NEW r \in Requests, stage[r] = "idle", CanTake(sem)
    PROVE  Owned(r, Take(sem))
<1>1. /\ WellFormed(Take(sem), Requests)
      /\ NoIdlePermit(Take(sem))
      /\ Spare(Take(sem)) = Spare(sem) - 1
      /\ Members(Take(sem)) = Members(sem)
  BY TakeKeeps DEF SemInv
<1>2. Holders \ {r} = Holders
  BY DEF Holders, Calling
<1>3. Cardinality(Holders) \in Nat /\ Spare(sem) \in Nat
  BY FS_CardinalityType DEF SemInv, WellFormed, Spare
<1>4. /\ IsFiniteSet(Holders \ {r})
      /\ Cardinality(Holders \ {r}) = Cardinality(Holders)
  BY <1>2, Zenon DEF SemInv
<1>5. Spare(Take(sem)) + Cardinality(Holders \ {r}) + 1 = MaxConcurrency
  BY <1>1, <1>3, <1>4 DEF SemInv
<1>6. /\ r \notin Members(Take(sem))
      /\ \A q \in Requests \ {r} : (stage[q] = "queued") <=> (q \in Members(Take(sem)))
  BY <1>1 DEF SemInv
<1> QED
  BY <1>1, <1>4, <1>5, <1>6 DEF Owned, Apart

LEMMA ResumedIsOwned ==
    ASSUME TypeInv, SemInv, NEW r \in Requests, r \in sem.woken
    PROVE  Owned(r, Resume(sem, r))
<1>1. /\ WellFormed(Resume(sem, r), Requests)
      /\ NoIdlePermit(Resume(sem, r))
      /\ Spare(Resume(sem, r)) = Spare(sem) - 1
      /\ Members(Resume(sem, r)) = Members(sem) \ {r}
  BY ResumeKeeps DEF SemInv
<1>2. stage[r] = "queued"
  BY DEF SemInv, Members
<1>3. Holders \ {r} = Holders
  BY <1>2 DEF Holders, Calling
<1>4. Cardinality(Holders) \in Nat /\ Spare(sem) \in Nat
  BY FS_CardinalityType DEF SemInv, WellFormed, Spare
<1>5. /\ IsFiniteSet(Holders \ {r})
      /\ Cardinality(Holders \ {r}) = Cardinality(Holders)
  BY <1>3, Zenon DEF SemInv
<1>6. Spare(Resume(sem, r)) + Cardinality(Holders \ {r}) + 1 = MaxConcurrency
  BY <1>1, <1>4, <1>5 DEF SemInv
<1>7. /\ r \notin Members(Resume(sem, r))
      /\ \A q \in Requests \ {r} :
            (stage[q] = "queued") <=> (q \in Members(Resume(sem, r)))
  BY <1>1 DEF SemInv
<1> QED
  BY <1>1, <1>5, <1>6, <1>7 DEF Owned, Apart

LEMMA HeldIsOwned ==
    ASSUME TypeInv, SemInv, NEW r \in Requests, stage[r] \in Calling
    PROVE  Owned(r, sem)
<1>1. r \in Holders /\ IsFiniteSet(Holders)
  BY DEF Holders, SemInv
<1>2. /\ IsFiniteSet(Holders \ {r})
      /\ Cardinality(Holders \ {r}) = Cardinality(Holders) - 1
  BY <1>1, FS_RemoveElement
<1>3. Cardinality(Holders) \in Nat /\ Spare(sem) \in Nat
  BY FS_CardinalityType DEF SemInv, WellFormed, Spare
<1>4. r \notin Members(sem)
  BY DEF SemInv, Calling
<1> QED
  BY <1>2, <1>3, <1>4 DEF SemInv, Owned, Apart

(* A request outside the semaphore has no permit to give back.             *)
LEMMA OutsideIsFreed ==
    ASSUME TypeInv, SemInv, NEW r \in Requests, stage[r] \in {"idle", "paid"}
    PROVE  Freed(r, sem)
<1>1. Holders \ {r} = Holders
  BY DEF Holders, Calling
<1>2. Cardinality(Holders) \in Nat /\ Spare(sem) \in Nat
  BY FS_CardinalityType DEF SemInv, WellFormed, Spare
<1>3. /\ IsFiniteSet(Holders \ {r})
      /\ Cardinality(Holders \ {r}) = Cardinality(Holders)
  BY <1>1, Zenon DEF SemInv
<1>4. Spare(sem) + Cardinality(Holders \ {r}) + 0 = MaxConcurrency
  BY <1>2, <1>3 DEF SemInv
<1>5. r \notin Members(sem)
  BY DEF SemInv
<1> QED
  BY <1>3, <1>4, <1>5 DEF SemInv, Freed, Apart

-----------------------------------------------------------------------------
(* The circuits                                                            *)

(* Closing an expired circuit changes no open quota window.                *)
LEMMA ShouldSkipFollows ==
    ASSUME NEW c, NEW t, Follows(c, now, t)
    PROVE  Follows(AfterShouldSkip(c, now), now, t)
<1>1. CASE IsOpen(c, now)
  BY <1>1 DEF AfterShouldSkip
<1>2. CASE ~ IsOpen(c, now)
  <2> QED
    BY <1>2 DEF AfterShouldSkip, Follows, SkipReason, IsOpen, NoReason
<1> QED
  BY <1>1, <1>2

(* A quota report starts the window anew; any other may at most end it.    *)
LEMMA FailureFollows ==
    ASSUME TypeInv, NEW c, c \in Circuits, NEW t, Follows(c, now, t),
           NEW why \in ReportedReasons
    PROVE  Follows(AfterFailure(c, why, now), now, IF why = "quota" THEN now ELSE t)
<1>1. CASE why = "quota"
  <2>1. AfterFailure(c, why, now) = Opened("quota", now)
    BY <1>1 DEF AfterFailure, TransientReasons
  <2>2. Opened("quota", now).openUntil = now + QuotaOpen
    BY DEF Opened, OpenSeconds
  <2>3. now # Never
    BY DEF TypeInv, Never
  <2> QED
    BY <1>1, <2>1, <2>2, <2>3 DEF Follows
<1>2. CASE why = "auth"
  <2>1. AfterFailure(c, why, now).reason = "auth"
    BY <1>2 DEF AfterFailure, TransientReasons, Opened
  <2> QED
    BY <1>2, <2>1 DEF Follows, SkipReason, NoReason
<1>3. CASE why \in TransientReasons
  <2> DEFINE recent == Append(Prune(c.failures, now - Window), now)
  <2>1. AfterFailure(c, why, now) = AfterTransient(c, why, now)
    BY <1>3 DEF AfterFailure, TransientReasons
  <2>2. CASE Len(recent) >= Threshold
    <3>1. AfterTransient(c, why, now).reason = why
      BY <2>2 DEF AfterTransient, Opened
    <3> QED
      BY <1>3, <2>1, <3>1 DEF Follows, SkipReason, NoReason, TransientReasons
  <2>3. CASE ~ (Len(recent) >= Threshold)
    <3>1. AfterTransient(c, why, now) = [c EXCEPT !.failures = recent]
      BY <2>3 DEF AfterTransient
    <3> HIDE DEF recent
    <3>2. /\ [c EXCEPT !.failures = recent].reason = c.reason
          /\ [c EXCEPT !.failures = recent].openUntil = c.openUntil
      BY DEF Circuits
    <3> QED
      BY <1>3, <2>1, <3>1, <3>2 DEF Follows, SkipReason, IsOpen, TransientReasons
  <2> QED
    BY <2>2, <2>3
<1>4. CASE why = "capability"
  BY <1>4 DEF AfterFailure, TransientReasons
<1> QED
  BY <1>1, <1>2, <1>3, <1>4 DEF ReportedReasons, Reasons

(* A success closes the circuit, whatever it was open for.                 *)
LEMMA SuccessFollows ==
    ASSUME NEW c, NEW t
    PROVE  Follows(AfterSuccess(c), now, t)
BY DEF Follows, AfterSuccess, ClosedCircuit, SkipReason, NoReason

(* Time may end a window, never move it.                                   *)
LEMMA TickFollows ==
    ASSUME TypeInv, NEW c \in Circuits, NEW t, Follows(c, now, t)
    PROVE  Follows(c, now + 1, t)
<1>1. c.openUntil \in Nat /\ now \in Nat
  BY DEF Circuits, TypeInv
<1>2. IsOpen(c, now + 1) => IsOpen(c, now)
  BY <1>1 DEF IsOpen
<1> QED
  BY <1>2 DEF Follows, SkipReason, NoReason

LEMMA TextShouldSkip ==
    ASSUME TypeInv, NEW c, NEW t, TextGood(c, t)
    PROVE  TextGood(AfterShouldSkip(c, now), t)
<1>1. Sound(AfterShouldSkip(c, now), now)
  BY ShouldSkipSound DEF TextGood, TypeInv
<1>2. Follows(AfterShouldSkip(c, now), now, t)
  BY ShouldSkipFollows DEF TextGood
<1>3. /\ AfterShouldSkip(c, now).reason \in {NoReason, "quota"}
      /\ AfterShouldSkip(c, now).failures = <<>>
  <2>1. c \in Circuits
    BY DEF TextGood, Sound
  <2> QED
    BY <2>1 DEF AfterShouldSkip, TextGood, Circuits
<1> QED
  BY <1>1, <1>2, <1>3 DEF TextGood

LEMMA TextQuota ==
    ASSUME TypeInv, NEW c, NEW t, TextGood(c, t)
    PROVE  TextGood(AfterFailure(c, "quota", now), now)
<1>1. "quota" \in ReportedReasons
  BY DEF ReportedReasons, Reasons
<1>2. Sound(AfterFailure(c, "quota", now), now)
  BY <1>1, FailureSound DEF TextGood, TypeInv
<1>3. Follows(AfterFailure(c, "quota", now), now, now)
  <2>1. c \in Circuits /\ Follows(c, now, t)
    BY DEF TextGood, Sound
  <2> QED
    BY <1>1, <2>1, FailureFollows
<1>4. AfterFailure(c, "quota", now) = Opened("quota", now)
  BY DEF AfterFailure, TransientReasons
<1> QED
  BY <1>2, <1>3, <1>4 DEF TextGood, Opened

LEMMA TextSuccess ==
    ASSUME TypeInv, NEW c, NEW t
    PROVE  TextGood(AfterSuccess(c), t)
<1>1. Sound(ClosedCircuit, now)
  BY ClosedSound DEF TypeInv
<1> QED
  BY <1>1, SuccessFollows DEF TextGood, AfterSuccess, ClosedCircuit

-----------------------------------------------------------------------------
(* Stages and replies                                                      *)

(* The stretch of r that runs ends in a provider call or in the answer.    *)
Goes(r) ==
    /\ stage' = [stage EXCEPT ![r] = stage'[r]]
    /\ reply' = [reply EXCEPT ![r] = reply'[r]]
    /\ stage'[r] \in Calling \cup {"paid", "done"}
    /\ reply'[r] \in Replies
    /\ stage'[r] # "done" => reply'[r] = reply[r]

(* It ends with the paid API called, now or before.                        *)
Pays(r) ==
    stage'[r] \in {"openai", "paid"} \/ reply'[r] \in {"openai", "openai_failed"}

LEMMA CallGoes ==
    ASSUME TypeInv, NEW r \in Requests, NEW s,
           NEW where \in Calling \cup {"paid"}, Call(r, where, s)
    PROVE  Goes(r) /\ stage'[r] = where /\ reply'[r] = reply[r]
<1>1. stage' = [stage EXCEPT ![r] = where] /\ stage'[r] = where
  BY DEF Call, TypeInv
<1>2. reply' = [reply EXCEPT ![r] = reply[r]] /\ reply'[r] = reply[r]
  BY DEF Call, TypeInv
<1> QED
  BY <1>1, <1>2 DEF Goes, TypeInv

LEMMA FinishGoes ==
    ASSUME TypeInv, NEW r \in Requests, NEW s, NEW who \in Replies,
           Finish(r, who, s)
    PROVE  Goes(r) /\ stage'[r] = "done" /\ reply'[r] = who
<1>1. stage' = [stage EXCEPT ![r] = "done"] /\ stage'[r] = "done"
  BY DEF Finish, TypeInv
<1>2. reply' = [reply EXCEPT ![r] = who] /\ reply'[r] = who
  BY DEF Finish, TypeInv
<1> QED
  BY <1>1, <1>2 DEF Goes

LEMMA FallbackGoes ==
    ASSUME TypeInv, NEW r \in Requests, NEW s, Fallback(r, s)
    PROVE  Goes(r)
<1>1. CASE Call(r, "openai", s)
  BY <1>1, CallGoes DEF Calling
<1>2. CASE Finish(r, "error", Release(s))
  BY <1>2, FinishGoes DEF Replies
<1> QED
  BY <1>1, <1>2 DEF Fallback, Answer

LEMMA ExhaustedGoes ==
    ASSUME TypeInv, NEW r \in Requests, NEW s, Exhausted(r, s)
    PROVE  Goes(r)
<1>1. CASE Call(r, "paid", Release(s))
  BY <1>1, CallGoes
<1>2. CASE Finish(r, "error", Release(s))
  BY <1>2, FinishGoes DEF Replies
<1> QED
  BY <1>1, <1>2 DEF Exhausted, Answer

LEMMA EnterGoes ==
    ASSUME TypeInv, NEW r \in Requests, reply[r] = "none",
           NEW s, NEW k, NEW why, NEW t, NEW j, Enter(r, k, why, s, t, j)
    PROVE  Goes(r) /\ (Pays(r) => MayPay(k, why))
<1>1. ASSUME Call(r, "codex", s)
      PROVE  Goes(r) /\ ~ Pays(r)
  BY <1>1, CallGoes DEF Calling, Pays
<1>2. ASSUME Finish(r, "error", Release(s))
      PROVE  Goes(r) /\ ~ Pays(r)
  BY <1>2, FinishGoes DEF Replies, Pays
<1>3. CASE k = "luna" /\ why = NoReason /\ Call(r, "codex", s)
  BY <1>1, <1>3
<1>4. CASE k = "luna" /\ why # NoReason /\ Fallback(r, s)
  BY <1>4, FallbackGoes DEF MayPay
<1>5. CASE k = "forced" /\ Fallback(r, s)
  BY <1>5, FallbackGoes DEF MayPay
<1>6. CASE k = "image" /\ EnterImage(r, why, s)
  <2>1. CASE why = NoReason
    BY <1>1, <1>6, <2>1 DEF EnterImage, NoReason
  <2>2. CASE why = "quota"
    BY <1>6, <2>2, ExhaustedGoes DEF EnterImage, NoReason, MayPay
  <2>3. CASE why # NoReason /\ why # "quota"
    BY <1>2, <1>6, <2>3 DEF EnterImage, Answer
  <2> QED
    BY <2>1, <2>2, <2>3
<1>7. CASE k \in {"api_only", "passthrough"} /\ Call(r, "openai", s)
  BY <1>7, CallGoes DEF Calling, MayPay
<1> QED
  BY <1>3, <1>4, <1>5, <1>6, <1>7 DEF Enter

(* A request that has arrived and goes on.                                 *)
LEMMA GoesKeeps ==
    ASSUME TypeInv, RequestInv, NEW r \in Requests, Goes(r),
           stage[r] \notin {"idle", "done"},
           kind' = kind, skip' = skip,
           justified \subseteq justified', justified' \subseteq Requests
    PROVE  /\ stage' \in [Requests -> Stages]
           /\ reply' \in [Requests -> Replies]
           /\ RequestInv'
<1>1. /\ stage' \in [Requests -> Stages]
      /\ reply' \in [Requests -> Replies]
      /\ \A q \in Requests \ {r} : stage'[q] = stage[q] /\ reply'[q] = reply[q]
      /\ stage'[r] \notin {"idle", "queued"}
  BY DEF TypeInv, Goes, Stages, Calling
<1>2. kind[r] # "none" /\ reply[r] = "none"
  BY DEF RequestInv
<1>3. ASSUME NEW q \in Requests
      PROVE  /\ (stage'[q] = "idle") <=> (kind'[q] = "none")
             /\ stage'[q] # "done" => reply'[q] = "none"
             /\ stage'[q] = "queued" /\ kind'[q] # "forced"
                /\ MayPay(kind'[q], skip'[q]) => q \in justified'
  <2>1. CASE q = r
    BY <1>1, <1>2, <2>1 DEF RequestInv, Goes
  <2>2. CASE q # r
    BY <1>1, <2>2 DEF RequestInv
  <2> QED
    BY <2>1, <2>2
<1> QED
  BY <1>1, <1>3 DEF RequestInv

(* A request that arrives, and goes on or waits.                           *)
LEMMA ArrivalKeeps ==
    ASSUME TypeInv, RequestInv, NEW r \in Requests, stage[r] = "idle",
           NEW k \in AllKinds, kind' = [kind EXCEPT ![r] = k],
           NEW w \in Reasons \cup {NoReason}, skip' = [skip EXCEPT ![r] = w],
           justified \subseteq justified', justified' \subseteq Requests,
           NEW s,
           \/ Goes(r)
           \/ /\ Call(r, "queued", s)
              /\ k # "forced" /\ MayPay(k, w) => r \in justified'
    PROVE  /\ kind' \in [Requests -> AllKinds \cup {"none"}]
           /\ skip' \in [Requests -> Reasons \cup {NoReason}]
           /\ stage' \in [Requests -> Stages]
           /\ reply' \in [Requests -> Replies]
           /\ RequestInv'
<1>1. /\ kind' \in [Requests -> AllKinds \cup {"none"}]
      /\ skip' \in [Requests -> Reasons \cup {NoReason}]
      /\ kind'[r] = k /\ skip'[r] = w
      /\ \A q \in Requests \ {r} : kind'[q] = kind[q] /\ skip'[q] = skip[q]
  BY DEF TypeInv
<1>2. /\ stage' \in [Requests -> Stages]
      /\ reply' \in [Requests -> Replies]
      /\ \A q \in Requests \ {r} : stage'[q] = stage[q] /\ reply'[q] = reply[q]
      /\ stage'[r] # "idle"
      /\ stage'[r] # "done" => reply'[r] = reply[r]
      /\ \/ stage'[r] # "queued"
         \/ k # "forced" /\ MayPay(k, w) => r \in justified'
  <2>1. CASE Goes(r)
    BY <2>1 DEF TypeInv, Goes, Stages, Calling
  <2>2. CASE /\ Call(r, "queued", s)
             /\ k # "forced" /\ MayPay(k, w) => r \in justified'
    BY <2>2 DEF TypeInv, Call, Stages
  <2> QED
    BY <2>1, <2>2
<1>3. reply[r] = "none" /\ k # "none"
  BY DEF RequestInv, AllKinds
<1>4. ASSUME NEW q \in Requests
      PROVE  /\ (stage'[q] = "idle") <=> (kind'[q] = "none")
             /\ stage'[q] # "done" => reply'[q] = "none"
             /\ stage'[q] = "queued" /\ kind'[q] # "forced"
                /\ MayPay(kind'[q], skip'[q]) => q \in justified'
  <2>1. CASE q = r
    BY <1>1, <1>2, <1>3, <2>1
  <2>2. CASE q # r
    BY <1>1, <1>2, <2>2 DEF RequestInv
  <2> QED
    BY <2>1, <2>2
<1> QED
  BY <1>1, <1>2, <1>4 DEF RequestInv

-----------------------------------------------------------------------------
(* The abstract specification                                              *)

(* A request served one step further, for the channel of its kind.         *)
LEMMA ServeBills ==
    ASSUME TypeInv, RequestInv, NEW r \in Requests, now' = now,
           stage[r] \notin {"openai", "paid", "done"},
           NEW s, Goes(r) \/ Call(r, "queued", s),
           NEW c \in Channels \cup {"api"},
           ChannelServed[r] \in {"none", c},
           ChannelServed' = [ChannelServed EXCEPT ![r] = c],
           Billing!Confirm(r, c) \/ Billing!Rely(r, c),
           Pays(r) => r \in justified'
    PROVE  Billing!Serve(r)
<1> DEFINE v == IF Pays(r) THEN "paid" ELSE IF stage'[r] = "done" THEN "free" ELSE "open"
<1>1. \A q \in Requests \ {r} : stage'[q] = stage[q] /\ reply'[q] = reply[q]
  <2>1. CASE Goes(r)
    BY <2>1 DEF Goes, TypeInv
  <2>2. CASE Call(r, "queued", s)
    BY <2>2 DEF Call, TypeInv
  <2> QED
    BY <2>1, <2>2
<1>2. Verdict' = [Verdict EXCEPT ![r] = v]
  BY <1>1 DEF Verdict, Pays
<1>3. Verdict[r] = "open"
  <2>1. reply[r] = "none"
    BY DEF RequestInv
  <2> QED
    BY <2>1 DEF Verdict
<1>4. v \in {"open", "free", "paid"} /\ (v = "paid" => r \in justified')
  OBVIOUS
<1> HIDE DEF v
<1>5. Billing!OnChannel(r, c)
  BY DEF Billing!OnChannel
<1>6. c \in Billing!Channels \cup {"api"}
  BY DEF Billing!Channels, Channels
<1> QED
  BY <1>2, <1>3, <1>4, <1>5, <1>6 DEF Billing!Serve

(* The channel of a request that arrives, and of one that has arrived.     *)
LEMMA ChannelOfArrival ==
    ASSUME TypeInv, RequestInv, NEW r \in Requests, stage[r] = "idle",
           NEW k \in AllKinds, kind' = [kind EXCEPT ![r] = k]
    PROVE  /\ ChannelOf(k) \in Channels \cup {"api"}
           /\ ChannelServed[r] = "none"
           /\ ChannelServed' = [ChannelServed EXCEPT ![r] = ChannelOf(k)]
<1>1. /\ kind[r] = "none" /\ k # "none"
      /\ kind'[r] = k
      /\ \A q \in Requests \ {r} : kind'[q] = kind[q]
  BY DEF RequestInv, TypeInv, AllKinds
<1>2. ChannelOf(k) \in Channels \cup {"api"}
  BY DEF ChannelOf, Channels
<1>3. ChannelServed' = [ChannelServed EXCEPT ![r] = ChannelOf(k)]
  BY <1>1 DEF ChannelServed, ChannelOf
<1> QED
  BY <1>1, <1>2, <1>3 DEF ChannelServed

LEMMA ChannelOfArrived ==
    ASSUME TypeInv, RequestInv, NEW r \in Requests, stage[r] # "idle", kind' = kind
    PROVE  /\ kind[r] \in AllKinds
           /\ ChannelOf(kind[r]) \in Channels \cup {"api"}
           /\ ChannelServed[r] = ChannelOf(kind[r])
           /\ ChannelServed' = [ChannelServed EXCEPT ![r] = ChannelOf(kind[r])]
<1>1. kind[r] \in AllKinds /\ kind[r] # "none"
  BY DEF RequestInv, TypeInv
<1>2. ChannelOf(kind[r]) \in Channels \cup {"api"}
  BY DEF ChannelOf, Channels
<1>3. ChannelServed[r] = ChannelOf(kind[r])
  BY <1>1 DEF ChannelServed
<1>4. ChannelServed' = ChannelServed
  BY DEF ChannelServed, ChannelOf
<1>5. ChannelServed = [ChannelServed EXCEPT ![r] = ChannelServed[r]]
  BY DEF ChannelServed
<1> QED
  BY <1>1, <1>2, <1>3, <1>4, <1>5

-----------------------------------------------------------------------------
(* The actions                                                             *)

(* An open quota circuit means a report less than QuotaOpen ago.           *)
LEMMA SkipIsRecent ==
    ASSUME TypeInv, NEW ch \in Channels, NEW c, Sound(c, now),
           Follows(c, now, confirmed[ch]), SkipReason(c, now) = "quota"
    PROVE  Recent(ch)
<1>1. /\ confirmed[ch] # Never
      /\ c.openUntil = confirmed[ch] + QuotaOpen
      /\ confirmed[ch] \in Nat
      /\ now \in Nat
  BY DEF Follows, TypeInv
<1>2. c.openUntil > now
  BY DEF SkipReason, IsOpen, NoReason
<1>3. now - confirmed[ch] < QuotaOpen
  BY <1>1, <1>2, CircuitAssumption DEF CircuitAssumption
<1> QED
  BY <1>1, <1>3 DEF Recent

(* What should_skip() answers, and what it lets a request pay for.         *)
LEMMA SkipForGood ==
    ASSUME TypeInv, CircuitInv, NEW k \in AllKinds
    PROVE  /\ SkipFor(k) \in Reasons \cup {NoReason}
           /\ k # "forced" /\ MayPay(k, SkipFor(k)) => Recent(ChannelOf(k))
<1>1. /\ Sound(text, now) /\ Follows(text, now, confirmed["text"])
      /\ Sound(image, now) /\ Follows(image, now, confirmed["image"])
      /\ text.reason \in {NoReason, "quota"}
  BY DEF CircuitInv, TextGood, ImageGood
<1>2. /\ SkipReason(text, now) \in {NoReason, "quota"}
      /\ SkipReason(image, now) \in Reasons \cup {NoReason}
  BY <1>1 DEF SkipReason, Sound
<1>3. CASE k = "luna"
  <2>1. SkipFor(k) = SkipReason(text, now) /\ ChannelOf(k) = "text"
    BY <1>3 DEF SkipFor, ChannelOf
  <2>2. SkipFor(k) \in Reasons \cup {NoReason}
    BY <1>2, <2>1 DEF Reasons
  <2>3. ASSUME SkipFor(k) # NoReason
        PROVE  Recent("text")
    <3>1. SkipReason(text, now) = "quota"
      BY <1>2, <2>1, <2>3
    <3>2. "text" \in Channels
      BY DEF Channels
    <3> QED
      BY <1>1, <3>1, <3>2, SkipIsRecent
  <2> QED
    BY <1>3, <2>1, <2>2, <2>3 DEF MayPay
<1>4. CASE k = "image"
  <2>1. SkipFor(k) = SkipReason(image, now) /\ ChannelOf(k) = "image"
    BY <1>4 DEF SkipFor, ChannelOf
  <2>2. ASSUME SkipFor(k) = "quota"
        PROVE  Recent("image")
    <3>1. "image" \in Channels
      BY DEF Channels
    <3> QED
      BY <1>1, <2>1, <2>2, <3>1, SkipIsRecent
  <2> QED
    BY <1>2, <1>4, <2>1, <2>2 DEF MayPay
<1>5. CASE k = "forced"
  <2>1. SkipFor(k) = SkipReason(text, now)
    BY <1>5 DEF SkipFor
  <2> QED
    BY <1>2, <1>5, <2>1 DEF Reasons
<1>6. CASE k \in {"api_only", "passthrough"}
  <2>1. SkipFor(k) = NoReason /\ ChannelOf(k) = "api"
    BY <1>6 DEF SkipFor, ChannelOf
  <2> QED
    BY <2>1 DEF Recent
<1> QED
  BY <1>3, <1>4, <1>5, <1>6 DEF AllKinds

(* The test control reports quota; nothing else does before Codex is asked.*)
LEMMA EnterHistory ==
    ASSUME TypeInv, now' = now, NEW r \in Requests, NEW k, NEW why, NEW s,
           NEW t, TextGood(t, confirmed["text"]),
           NEW j, justified \subseteq j, j \subseteq Requests,
           Enter(r, k, why, s, t, j)
    PROVE  /\ TextGood(text, confirmed["text"])'
           /\ confirmed' \in [Channels -> Nat \cup {Never}]
           /\ confirmed'["image"] = confirmed["image"]
           /\ justified \subseteq justified' /\ justified' \subseteq Requests
           /\ \/ k = "forced" /\ Billing!Confirm(r, "text")
              \/ k # "forced" /\ confirmed' = confirmed /\ justified' = j
<1>1. CASE k = "forced"
  <2>1. /\ text' = AfterFailure(t, "quota", now)
        /\ confirmed' = [confirmed EXCEPT !["text"] = now]
        /\ justified' = justified \cup {r}
    BY <1>1 DEF Enter, QuotaReported
  <2>2. /\ confirmed' \in [Channels -> Nat \cup {Never}]
        /\ confirmed'["text"] = now
        /\ confirmed'["image"] = confirmed["image"]
    BY <2>1 DEF TypeInv, Channels
  <2>3. TextGood(AfterFailure(t, "quota", now), now)
    BY TextQuota
  <2>4. TextGood(text, confirmed["text"])'
    BY <2>1, <2>2, <2>3 DEF TextGood, Follows
  <2>5. Billing!Confirm(r, "text")
    BY <2>1 DEF Billing!Confirm, Billing!Channels
  <2> QED
    BY <1>1, <2>1, <2>2, <2>4, <2>5
<1>2. CASE k # "forced"
  <2>1. text' = t /\ justified' = j /\ confirmed' = confirmed
    BY <1>2 DEF Enter
  <2>2. TextGood(text, confirmed["text"])'
    BY <2>1 DEF TextGood, Follows
  <2> QED
    BY <1>2, <2>1, <2>2 DEF TypeInv
<1> QED
  BY <1>1, <1>2

(* A step of a request keeps the invariant and is one the abstract         *)
(* specification allows.                                                   *)
Lawful == Inv' /\ [Billing!Next]_(Billing!vars)

(* A request is accepted.                                                  *)
LEMMA AcceptLawful ==
    ASSUME Inv, NEW r \in Requests, stage[r] = "idle", NEW k \in AllKinds,
           kind' = [kind EXCEPT ![r] = k], Accept(r, k),
           now' = now, settings' = settings
    PROVE  Lawful
<1> DEFINE t == IF ChannelOf(k) = "text" THEN AfterShouldSkip(text, now) ELSE text
           j == IF Recent(ChannelOf(k)) THEN justified \cup {r} ELSE justified
           w == SkipFor(k)
           c == ChannelOf(k)
<1>1. TypeInv /\ SemInv /\ CircuitInv /\ RequestInv
  BY DEF Inv
<1>2. TextGood(t, confirmed["text"])
  BY <1>1, TextShouldSkip DEF CircuitInv
<1>3. /\ justified \subseteq j /\ j \subseteq Requests
      /\ Recent(c) => j = justified \cup {r}
      /\ ~ Recent(c) => j = justified
  BY <1>1 DEF TypeInv
<1>4. /\ w \in Reasons \cup {NoReason}
      /\ k # "forced" /\ MayPay(k, w) => Recent(c)
  BY <1>1, SkipForGood
<1>5. /\ c \in Channels \cup {"api"}
      /\ ChannelServed[r] = "none"
      /\ ChannelServed' = [ChannelServed EXCEPT ![r] = c]
  BY <1>1, ChannelOfArrival
<1>6. ImageGood(image', confirmed["image"])
  <2>1. CASE k = "image"
    <3>1. image' = AfterShouldSkip(image, now)
      BY <2>1 DEF Accept
    <3> QED
      BY <1>1, <3>1, ShouldSkipSound, ShouldSkipFollows
      DEF CircuitInv, ImageGood, TypeInv
  <2>2. CASE k # "image"
    BY <1>1, <2>2 DEF Accept, CircuitInv
  <2> QED
    BY <2>1, <2>2
<1>7. skip' = [skip EXCEPT ![r] = w]
  BY DEF Accept
<1>8. reply[r] = "none"
  BY <1>1 DEF RequestInv
<1>9. confirmed' = confirmed /\ justified' = j => Billing!Rely(r, c)
  BY <1>3, <1>5 DEF Billing!Rely, Billing!Recent, Recent, Billing!Channels, Channels,
                    Billing!Never, Never
<1> HIDE DEF w, c, t, j
<1>10. CASE CanTake(sem)
  <2>1. Enter(r, k, w, Take(sem), t, j)
    BY <1>10 DEF Accept, w, t, j
  <2>2. SemInv'
    BY <1>1, <1>10, <2>1, TakenIsOwned, EnterSem
  <2>3. Goes(r) /\ (Pays(r) => MayPay(k, w))
    BY <1>1, <1>8, <2>1, EnterGoes
  <2>4. /\ TextGood(text, confirmed["text"])'
        /\ confirmed' \in [Channels -> Nat \cup {Never}]
        /\ confirmed'["image"] = confirmed["image"]
        /\ justified \subseteq justified' /\ justified' \subseteq Requests
        /\ \/ k = "forced" /\ Billing!Confirm(r, "text")
           \/ k # "forced" /\ confirmed' = confirmed /\ justified' = j
    BY <1>1, <1>2, <1>3, <2>1, EnterHistory
  <2>5. /\ kind' \in [Requests -> AllKinds \cup {"none"}]
        /\ skip' \in [Requests -> Reasons \cup {NoReason}]
        /\ stage' \in [Requests -> Stages]
        /\ reply' \in [Requests -> Replies]
        /\ RequestInv'
    BY <1>1, <1>4, <1>7, <2>3, <2>4, ArrivalKeeps
  <2>6. TypeInv'
    BY <1>1, <2>4, <2>5 DEF TypeInv
  <2>7. CircuitInv'
    BY <1>6, <2>4 DEF CircuitInv, ImageGood, Follows
  <2>8. Billing!Confirm(r, c) \/ Billing!Rely(r, c)
    <3>1. CASE k = "forced"
      BY <2>4, <3>1 DEF c, ChannelOf
    <3>2. CASE k # "forced"
      BY <1>9, <2>4, <3>2
    <3> QED
      BY <3>1, <3>2
  <2>9. Pays(r) => r \in justified'
    BY <1>3, <1>4, <2>3, <2>4 DEF Billing!Confirm
  <2>10. Billing!Serve(r)
    BY <1>1, <1>5, <2>3, <2>8, <2>9, ServeBills
  <2> QED
    BY <2>2, <2>5, <2>6, <2>7, <2>10 DEF Lawful, Inv, Billing!Next
<1>11. CASE ~ CanTake(sem)
  <2>1. /\ Call(r, "queued", Enqueue(sem, r))
        /\ text' = t /\ justified' = j /\ confirmed' = confirmed
    BY <1>11 DEF Accept, t, j
  <2>2. SemInv'
    BY <1>1, <1>11, <2>1, QueueSem
  <2>3. k # "forced" /\ MayPay(k, w) => r \in justified'
    BY <1>3, <1>4, <2>1
  <2>4. /\ kind' \in [Requests -> AllKinds \cup {"none"}]
        /\ skip' \in [Requests -> Reasons \cup {NoReason}]
        /\ stage' \in [Requests -> Stages]
        /\ reply' \in [Requests -> Replies]
        /\ RequestInv'
    BY <1>1, <1>3, <1>4, <1>7, <2>1, <2>3, ArrivalKeeps
  <2>5. TypeInv'
    BY <1>1, <1>3, <2>1, <2>4 DEF TypeInv
  <2>6. CircuitInv'
    BY <1>2, <1>6, <2>1 DEF CircuitInv, TextGood, ImageGood, Follows
  <2>7. Billing!Rely(r, c)
    BY <1>9, <2>1
  <2>8. ~ Pays(r)
    BY <1>1, <1>8, <2>1 DEF Pays, Call, TypeInv
  <2>9. Billing!Serve(r)
    BY <1>1, <1>5, <2>1, <2>7, <2>8, ServeBills
  <2> QED
    BY <2>2, <2>4, <2>5, <2>6, <2>9 DEF Lawful, Inv, Billing!Next
<1> QED
  BY <1>10, <1>11

(* A request is refused before it reaches the semaphore.                   *)
LEMMA RefuseLawful ==
    ASSUME Inv, NEW r \in Requests, stage[r] = "idle", NEW k \in AllKinds,
           kind' = [kind EXCEPT ![r] = k], Refuse(r, k),
           now' = now, settings' = settings
    PROVE  Lawful
<1> DEFINE c == ChannelOf(k)
<1>1. TypeInv /\ SemInv /\ CircuitInv /\ RequestInv
  BY DEF Inv
<1>2. /\ Finish(r, "error", sem)
      /\ image' = image /\ skip' = skip
      /\ confirmed' = confirmed /\ justified' = justified
      /\ text' = text \/ text' = AfterShouldSkip(text, now)
  BY DEF Refuse, history
<1>3. Goes(r) /\ ~ Pays(r)
  BY <1>1, <1>2, FinishGoes DEF Replies, Pays
<1>4. SemInv'
  <2>1. Freed(r, sem)
    BY <1>1, OutsideIsFreed
  <2> QED
    BY <1>1, <1>2, <2>1, FreedSem DEF Finish
<1>5. CircuitInv'
  <2>1. TextGood(text', confirmed["text"])
    BY <1>1, <1>2, TextShouldSkip DEF CircuitInv
  <2> QED
    BY <1>1, <1>2, <2>1 DEF CircuitInv, TextGood, ImageGood, Follows
<1>6. /\ c \in Channels \cup {"api"}
      /\ ChannelServed[r] = "none"
      /\ ChannelServed' = [ChannelServed EXCEPT ![r] = c]
  BY <1>1, ChannelOfArrival
<1>7. /\ kind' \in [Requests -> AllKinds \cup {"none"}]
      /\ skip' \in [Requests -> Reasons \cup {NoReason}]
      /\ stage' \in [Requests -> Stages]
      /\ reply' \in [Requests -> Replies]
      /\ RequestInv'
  <2>1. skip' = [skip EXCEPT ![r] = skip[r]] /\ skip[r] \in Reasons \cup {NoReason}
    BY <1>1, <1>2 DEF TypeInv
  <2>2. justified \subseteq justified' /\ justified' \subseteq Requests
    BY <1>1, <1>2 DEF TypeInv
  <2> QED
    BY <1>1, <1>3, <2>1, <2>2, ArrivalKeeps
<1>8. TypeInv'
  BY <1>1, <1>2, <1>7 DEF TypeInv
<1>9. Billing!Serve(r)
  <2>1. Billing!Rely(r, c)
    BY <1>2 DEF Billing!Rely
  <2> HIDE DEF c
  <2> QED
    BY <1>1, <1>3, <1>6, <2>1, ServeBills
<1> QED
  BY <1>4, <1>5, <1>7, <1>8, <1>9 DEF Lawful, Inv, Billing!Next

(* A request that waited gets its permit.                                  *)
LEMMA ResumedLawful ==
    ASSUME Inv, NEW r \in Requests, Resumed(r)
    PROVE  Lawful
<1> DEFINE c == ChannelOf(kind[r])
<1>1. TypeInv /\ SemInv /\ CircuitInv /\ RequestInv
  BY DEF Inv
<1>2. /\ r \in sem.woken
      /\ Enter(r, kind[r], skip[r], Resume(sem, r), text, justified)
      /\ now' = now /\ settings' = settings
      /\ image' = image /\ kind' = kind /\ skip' = skip
  BY DEF Resumed
<1>3. stage[r] = "queued" /\ reply[r] = "none"
  BY <1>1, <1>2 DEF SemInv, Members, RequestInv
<1>4. /\ kind[r] \in AllKinds
      /\ c \in Channels \cup {"api"}
      /\ ChannelServed[r] = c
      /\ ChannelServed' = [ChannelServed EXCEPT ![r] = c]
  BY <1>1, <1>2, <1>3, ChannelOfArrived
<1>5. SemInv'
  <2>1. Owned(r, Resume(sem, r))
    BY <1>1, <1>2, ResumedIsOwned
  <2> QED
    BY <1>1, <1>2, <1>4, <2>1, EnterSem
<1>6. Goes(r) /\ (Pays(r) => MayPay(kind[r], skip[r]))
  BY <1>1, <1>2, <1>3, EnterGoes
<1>7. /\ TextGood(text, confirmed["text"])'
      /\ confirmed' \in [Channels -> Nat \cup {Never}]
      /\ confirmed'["image"] = confirmed["image"]
      /\ justified \subseteq justified' /\ justified' \subseteq Requests
      /\ \/ kind[r] = "forced" /\ Billing!Confirm(r, "text")
         \/ kind[r] # "forced" /\ confirmed' = confirmed /\ justified' = justified
  <2>1. TextGood(text, confirmed["text"]) /\ justified \subseteq Requests
    BY <1>1 DEF CircuitInv, TypeInv
  <2> QED
    BY <1>1, <1>2, <2>1, EnterHistory
<1>8. /\ stage' \in [Requests -> Stages]
      /\ reply' \in [Requests -> Replies]
      /\ RequestInv'
  BY <1>1, <1>2, <1>3, <1>6, <1>7, GoesKeeps
<1>9. TypeInv'
  BY <1>1, <1>2, <1>7, <1>8 DEF TypeInv
<1>10. CircuitInv'
  BY <1>1, <1>2, <1>7 DEF CircuitInv, ImageGood, Follows
<1>11. Billing!Confirm(r, c) \/ Billing!Rely(r, c)
  BY <1>7 DEF ChannelOf, Billing!Rely
<1>12. Pays(r) => r \in justified'
  BY <1>1, <1>3, <1>6, <1>7 DEF RequestInv, Billing!Confirm
<1> HIDE DEF c
<1>13. Billing!Serve(r)
  BY <1>1, <1>2, <1>3, <1>4, <1>6, <1>11, <1>12, ServeBills
<1> QED
  BY <1>5, <1>8, <1>9, <1>10, <1>13 DEF Lawful, Inv, Billing!Next

(* What is left to show once the permits, the circuits and the history of  *)
(* a request served by Codex are accounted for.                            *)
LEMMA CodexLawful ==
    ASSUME Inv, NEW r \in Requests, stage[r] = "codex", SemInv', CircuitInv',
           Goes(r), now' = now, settings' = settings, kind' = kind, skip' = skip,
           NEW c \in Channels, c = ChannelOf(kind[r]),
           \/ QuotaReported(r, c)
           \/ UNCHANGED history /\ ~ Pays(r)
    PROVE  Lawful
<1>1. TypeInv /\ RequestInv
  BY DEF Inv
<1>2. /\ ChannelServed[r] = c
      /\ ChannelServed' = [ChannelServed EXCEPT ![r] = c]
  BY <1>1, ChannelOfArrived
<1>3. /\ confirmed' \in [Channels -> Nat \cup {Never}]
      /\ justified \subseteq justified' /\ justified' \subseteq Requests
  BY <1>1 DEF TypeInv, QuotaReported, history
<1>4. /\ stage' \in [Requests -> Stages]
      /\ reply' \in [Requests -> Replies]
      /\ RequestInv'
  BY <1>1, <1>3, GoesKeeps
<1>5. TypeInv'
  BY <1>1, <1>3, <1>4 DEF TypeInv
<1>6. Billing!Confirm(r, c) \/ Billing!Rely(r, c)
  BY DEF QuotaReported, history, Billing!Confirm, Billing!Rely, Billing!Channels, Channels
<1>7. Pays(r) => r \in justified'
  BY DEF QuotaReported
<1>8. Billing!Serve(r)
  BY <1>1, <1>2, <1>6, <1>7, ServeBills
<1> QED
  BY <1>4, <1>5, <1>8 DEF Lawful, Inv, Billing!Next

(* A new report for one circuit leaves the other's window alone.           *)
LEMMA ReportTouchesOne ==
    ASSUME TypeInv, NEW r, NEW c \in Channels, QuotaReported(r, c)
    PROVE  /\ confirmed'[c] = now
           /\ \A d \in Channels \ {c} : confirmed'[d] = confirmed[d]
BY DEF TypeInv, QuotaReported

(* Codex answers a text request.                                           *)
LEMMA CodexTextLawful ==
    ASSUME Inv, NEW r \in Requests, NEW outcome \in Outcomes,
           CodexAnswersText(r, outcome)
    PROVE  Lawful
<1>1. TypeInv /\ SemInv /\ CircuitInv /\ RequestInv
  BY DEF Inv
<1>2. /\ stage[r] = "codex" /\ kind[r] = "luna"
      /\ now' = now /\ settings' = settings
      /\ image' = image /\ kind' = kind /\ skip' = skip
  BY DEF CodexAnswersText
<1>3. Owned(r, sem)
  BY <1>1, <1>2, HeldIsOwned DEF Calling
<1>4. "text" \in Channels /\ "text" = ChannelOf(kind[r])
  BY <1>2 DEF Channels, ChannelOf
<1>5. CASE outcome = "quota"
  <2>1. /\ text' = AfterFailure(text, "quota", now)
        /\ Fallback(r, sem)
        /\ QuotaReported(r, "text")
    BY <1>5 DEF CodexAnswersText, ClassifyFailure, NoReason
  <2>2. SemInv' /\ Goes(r)
    BY <1>1, <1>3, <2>1, FallbackSem, FallbackGoes
  <2>3. confirmed'["text"] = now /\ confirmed'["image"] = confirmed["image"]
    BY <1>1, <2>1, ReportTouchesOne DEF Channels
  <2>4. TextGood(AfterFailure(text, "quota", now), now)
    BY <1>1, TextQuota DEF CircuitInv
  <2>5. CircuitInv'
    BY <1>1, <1>2, <2>1, <2>3, <2>4 DEF CircuitInv, TextGood, ImageGood, Follows
  <2> QED
    BY <1>2, <1>4, <2>1, <2>2, <2>5, CodexLawful
<1>6. CASE outcome # "quota"
  <2>1. /\ Answer(r, "codex", sem)
        /\ text' = text \/ text' = AfterSuccess(text)
        /\ UNCHANGED history
    BY <1>6 DEF CodexAnswersText, ClassifyFailure, NoReason
  <2>2. SemInv'
    BY <1>1, <1>3, <2>1, AnswerSem
  <2>3. Goes(r) /\ ~ Pays(r)
    BY <1>1, <2>1, FinishGoes DEF Answer, Replies, Pays
  <2>4. CircuitInv'
    <3>1. TextGood(text', confirmed["text"])
      BY <1>1, <2>1, TextSuccess DEF CircuitInv
    <3> QED
      BY <1>1, <1>2, <2>1, <3>1 DEF CircuitInv, TextGood, ImageGood, Follows, history
  <2> QED
    BY <1>2, <1>4, <2>1, <2>2, <2>3, <2>4, CodexLawful
<1> QED
  BY <1>5, <1>6

(* Codex answers an image request.                                         *)
LEMMA CodexImageLawful ==
    ASSUME Inv, NEW r \in Requests, NEW outcome \in Outcomes,
           CodexAnswersImage(r, outcome)
    PROVE  Lawful
<1>1. TypeInv /\ SemInv /\ CircuitInv /\ RequestInv
  BY DEF Inv
<1>2. /\ stage[r] = "codex" /\ kind[r] = "image"
      /\ now' = now /\ settings' = settings
      /\ text' = text /\ kind' = kind /\ skip' = skip
  BY DEF CodexAnswersImage
<1>3. Owned(r, sem)
  BY <1>1, <1>2, HeldIsOwned DEF Calling
<1>4. "image" \in Channels /\ "image" = ChannelOf(kind[r])
  BY <1>2 DEF Channels, ChannelOf
<1>5. /\ image \in Circuits /\ Sound(image, now)
      /\ Follows(image, now, confirmed["image"])
  BY <1>1 DEF CircuitInv, ImageGood, Sound
<1>6. CASE outcome = "quota"
  <2>1. /\ image' = AfterFailure(image, "quota", now)
        /\ Exhausted(r, sem)
        /\ QuotaReported(r, "image")
    BY <1>6 DEF CodexAnswersImage, ClassifyImage, NoReason
  <2>2. SemInv' /\ Goes(r)
    BY <1>1, <1>3, <2>1, ExhaustedSem, ExhaustedGoes
  <2>3. confirmed'["image"] = now /\ confirmed'["text"] = confirmed["text"]
    BY <1>1, <2>1, ReportTouchesOne DEF Channels
  <2>4. "quota" \in ReportedReasons
    BY DEF ReportedReasons, Reasons
  <2>5. ImageGood(AfterFailure(image, "quota", now), now)
    <3>1. Sound(AfterFailure(image, "quota", now), now)
      BY <1>1, <1>5, <2>4, FailureSound DEF TypeInv
    <3>2. Follows(AfterFailure(image, "quota", now), now, now)
      BY <1>1, <1>5, <2>4, FailureFollows
    <3> QED
      BY <3>1, <3>2 DEF ImageGood
  <2>6. CircuitInv'
    BY <1>1, <1>2, <2>1, <2>3, <2>5 DEF CircuitInv, TextGood, ImageGood, Follows
  <2> QED
    BY <1>2, <1>4, <2>1, <2>2, <2>6, CodexLawful
<1>7. CASE outcome # "quota"
  <2>1. /\ \E who \in {"codex", "error"} : Answer(r, who, sem)
        /\ \/ image' = image
           \/ image' = AfterSuccess(image)
           \/ outcome \in ReportedReasons /\ image' = AfterFailure(image, outcome, now)
        /\ UNCHANGED history
    BY <1>7 DEF CodexAnswersImage, ClassifyImage, NoReason, Outcomes,
                ReportedReasons, Reasons, TransientReasons
  <2>2. SemInv'
    BY <1>1, <1>3, <2>1, AnswerSem
  <2>3. Goes(r) /\ ~ Pays(r)
    BY <1>1, <2>1, FinishGoes DEF Answer, Replies, Pays
  <2>4. ImageGood(image', confirmed["image"])
    <3>1. CASE image' = image
      BY <1>5, <3>1 DEF ImageGood
    <3>2. CASE image' = AfterSuccess(image)
      BY <1>1, <3>2, ClosedSound, SuccessFollows DEF ImageGood, AfterSuccess, TypeInv
    <3>3. CASE outcome \in ReportedReasons /\ image' = AfterFailure(image, outcome, now)
      <4>1. Sound(image', now)
        BY <1>1, <1>5, <3>3, FailureSound DEF TypeInv
      <4>2. Follows(image', now, confirmed["image"])
        BY <1>1, <1>5, <1>7, <3>3, FailureFollows
      <4> QED
        BY <4>1, <4>2 DEF ImageGood
    <3> QED
      BY <2>1, <3>1, <3>2, <3>3
  <2>5. CircuitInv'
    BY <1>1, <1>2, <2>1, <2>4 DEF CircuitInv, TextGood, ImageGood, Follows, history
  <2> QED
    BY <1>2, <1>4, <2>1, <2>2, <2>3, <2>5, CodexLawful
<1> QED
  BY <1>6, <1>7

(* The paid API answers, which the abstract specification does not see.    *)
LEMMA PaidLawful ==
    ASSUME Inv, NEW r \in Requests, OpenAIAnswers(r) \/ PaidAnswers(r)
    PROVE  Lawful
<1>1. TypeInv /\ SemInv /\ CircuitInv /\ RequestInv
  BY DEF Inv
<1>2. PICK who \in {"openai", "openai_failed"} :
         /\ stage[r] \in {"openai", "paid"}
         /\ \/ stage[r] = "openai" /\ Answer(r, who, sem)
            \/ stage[r] = "paid" /\ Finish(r, who, sem)
         /\ UNCHANGED <<now, settings, circuits, kind, skip, history>>
  BY DEF OpenAIAnswers, PaidAnswers
<1>3. /\ now' = now /\ settings' = settings
      /\ text' = text /\ image' = image
      /\ kind' = kind /\ skip' = skip
      /\ confirmed' = confirmed /\ justified' = justified
  BY <1>2 DEF circuits, history
<1>4. SemInv'
  <2>1. CASE stage[r] = "openai" /\ Answer(r, who, sem)
    <3>1. Owned(r, sem)
      BY <1>1, <2>1, HeldIsOwned DEF Calling
    <3> QED
      BY <1>1, <2>1, <3>1, AnswerSem
  <2>2. CASE stage[r] = "paid" /\ Finish(r, who, sem)
    <3>1. Freed(r, sem)
      BY <1>1, <2>2, OutsideIsFreed
    <3> QED
      BY <1>1, <2>2, <3>1, FreedSem DEF Finish
  <2> QED
    BY <1>2, <2>1, <2>2
<1>5. Goes(r) /\ stage'[r] = "done" /\ reply'[r] = who
  BY <1>1, <1>2, FinishGoes DEF Answer, Replies
<1>6. /\ stage' \in [Requests -> Stages]
      /\ reply' \in [Requests -> Replies]
      /\ RequestInv'
  <2>1. justified \subseteq justified' /\ justified' \subseteq Requests
    BY <1>1, <1>3 DEF TypeInv
  <2> QED
    BY <1>1, <1>2, <1>3, <1>5, <2>1, GoesKeeps
<1>7. TypeInv'
  BY <1>1, <1>3, <1>6 DEF TypeInv
<1>8. CircuitInv'
  BY <1>1, <1>3 DEF CircuitInv, TextGood, ImageGood, Follows
<1>9. Verdict' = Verdict
  <2>1. \A q \in Requests \ {r} : stage'[q] = stage[q] /\ reply'[q] = reply[q]
    BY <1>1, <1>5 DEF Goes, TypeInv
  <2> QED
    BY <1>2, <1>5, <2>1 DEF Verdict
<1>10. ChannelServed' = ChannelServed
  BY <1>3 DEF ChannelServed, ChannelOf
<1> QED
  BY <1>3, <1>4, <1>6, <1>7, <1>8, <1>9, <1>10 DEF Lawful, Inv, Billing!vars

(* Time passes.                                                            *)
LEMMA TickLawful ==
    ASSUME Inv, Tick
    PROVE  Lawful
<1>1. TypeInv /\ SemInv /\ CircuitInv /\ RequestInv
  BY DEF Inv
<1>2. /\ now' = now + 1 /\ settings' = settings
      /\ text' = text /\ image' = image /\ sem' = sem
      /\ kind' = kind /\ skip' = skip
      /\ stage' = stage /\ reply' = reply
      /\ confirmed' = confirmed /\ justified' = justified
  BY DEF Tick, circuits, history
<1>3. TypeInv'
  BY <1>1, <1>2 DEF TypeInv
<1>4. SemInv'
  BY <1>1, <1>2 DEF SemInv, Holders
<1>5. CircuitInv'
  <2>1. /\ Sound(text, now + 1) /\ Follows(text, now + 1, confirmed["text"])
        /\ Sound(image, now + 1) /\ Follows(image, now + 1, confirmed["image"])
    <3>1. /\ Sound(text, now) /\ Follows(text, now, confirmed["text"])
          /\ Sound(image, now) /\ Follows(image, now, confirmed["image"])
          /\ text \in Circuits /\ image \in Circuits
      BY <1>1 DEF CircuitInv, TextGood, ImageGood, Sound
    <3> QED
      BY <1>1, <3>1, TickSound, TickFollows DEF TypeInv
  <2> QED
    BY <1>1, <1>2, <2>1 DEF CircuitInv, TextGood, ImageGood, Follows
<1>6. RequestInv'
  BY <1>1, <1>2 DEF RequestInv
<1>7. Billing!Tick
  BY <1>2 DEF Billing!Tick, ChannelServed, ChannelOf, Verdict
<1> QED
  BY <1>3, <1>4, <1>5, <1>6, <1>7 DEF Lawful, Inv, Billing!Next

(* Nothing happens.                                                        *)
LEMMA StutterLawful ==
    ASSUME Inv, UNCHANGED vars
    PROVE  Lawful
<1>1. /\ now' = now /\ settings' = settings
      /\ text' = text /\ image' = image /\ sem' = sem
      /\ kind' = kind /\ skip' = skip
      /\ stage' = stage /\ reply' = reply
      /\ confirmed' = confirmed /\ justified' = justified
  BY DEF vars
<1>2. Inv'
  BY <1>1 DEF Inv, TypeInv, SemInv, Holders, CircuitInv, TextGood, ImageGood,
              Follows, RequestInv
<1>3. UNCHANGED Billing!vars
  BY <1>1 DEF Billing!vars, ChannelServed, ChannelOf, Verdict
<1> QED
  BY <1>2, <1>3 DEF Lawful

(* Every step of the gateway.                                              *)
LEMMA NextLawful ==
    ASSUME Inv, [Next]_vars
    PROVE  Lawful
<1>1. CASE Tick
  BY <1>1, TickLawful
<1>2. ASSUME NEW r \in Requests, Arrive(r)
      PROVE  Lawful
  <2>1. stage[r] = "idle" /\ now' = now /\ settings' = settings
    BY <1>2 DEF Arrive
  <2>2. PICK k \in Kinds :
           /\ kind' = [kind EXCEPT ![r] = k]
           /\ Accept(r, k) \/ Refuse(r, k)
    BY <1>2 DEF Arrive
  <2>3. k \in AllKinds
    BY GatewayAssumption DEF GatewayAssumption
  <2> QED
    BY <2>1, <2>2, <2>3, AcceptLawful, RefuseLawful
<1>3. ASSUME NEW r \in Requests, Serve(r)
      PROVE  Lawful
  BY <1>3, ResumedLawful, CodexTextLawful, CodexImageLawful, PaidLawful
  DEF Serve, CodexAnswers
<1>4. CASE UNCHANGED vars
  BY <1>4, StutterLawful
<1> QED
  BY <1>1, <1>2, <1>3, <1>4 DEF Next

(* The gateway starts lawfully.                                            *)
LEMMA InitLawful ==
    ASSUME Init
    PROVE  Inv /\ Billing!Init
<1>1. TypeInv
  BY GatewayAssumption DEF GatewayAssumption, Init, TypeInv, Stages, Replies, Channels
<1>2. SemInv
  <2>1. Holders = {}
    BY DEF Init, Holders, Calling
  <2>2. IsFiniteSet(Holders) /\ Cardinality(Holders) = 0
    BY <2>1, FS_EmptySet, Zenon
  <2>3. /\ sem.permits = MaxConcurrency /\ sem.queue = <<>> /\ sem.woken = {}
        /\ sem \in [permits : Nat, queue : Seq(Requests), woken : SUBSET Requests]
    BY GatewayAssumption DEF GatewayAssumption, Init, Unused
  <2>4. IsFiniteSet(sem.woken) /\ Cardinality(sem.woken) = 0
    BY <2>3, FS_EmptySet, Zenon
  <2>5. WellFormed(sem, Requests) /\ NoIdlePermit(sem) /\ Members(sem) = {}
    BY <2>3, <2>4 DEF WellFormed, NoIdlePermit, Members, Waiting
  <2>6. Spare(sem) + Cardinality(Holders) = MaxConcurrency
    BY <2>2, <2>3, <2>4, GatewayAssumption DEF GatewayAssumption, Spare
  <2> QED
    BY <2>2, <2>5, <2>6 DEF SemInv, Init
<1>3. CircuitInv
  <2>1. Sound(ClosedCircuit, now)
    BY <1>1, ClosedSound DEF TypeInv
  <2> QED
    BY <2>1 DEF CircuitInv, TextGood, ImageGood, Follows, Init, ClosedCircuit,
                SkipReason, NoReason
<1>4. RequestInv
  BY DEF Init, RequestInv
<1>5. Billing!Init
  BY DEF Init, Billing!Init, Billing!Channels, Channels, Billing!Never, Never,
         ChannelServed, Verdict
<1> QED
  BY <1>1, <1>2, <1>3, <1>4, <1>5 DEF Inv

(* The invariant holds in every reachable state.                           *)
LEMMA AlwaysInv == Spec => []Inv
<1>1. Init => Inv
  BY InitLawful
<1>2. Inv /\ [Next]_vars => Inv'
  BY NextLawful DEF Lawful
<1> QED
  BY <1>1, <1>2, PTL DEF Spec

(* Every variable keeps its type; in particular the semaphore never has    *)
(* more permits than the concurrency limit.                                *)
THEOREM GatewayTypeCorrect == Spec => []GatewayTypeOK
<1>1. Inv => GatewayTypeOK
  <2> SUFFICES ASSUME Inv PROVE GatewayTypeOK
    OBVIOUS
  <2>1. TypeInv /\ SemInv /\ CircuitInv
    BY DEF Inv
  <2>2. text \in Circuits /\ image \in Circuits
    BY <2>1 DEF CircuitInv, TextGood, ImageGood, Sound
  <2>3. sem \in [permits : Nat, queue : Seq(Requests), woken : SUBSET Requests]
    BY <2>1 DEF SemInv, WellFormed
  <2>4. sem.permits \in 0..MaxConcurrency
    <3>1. Cardinality(sem.woken) \in Nat /\ Cardinality(Holders) \in Nat
      BY <2>1, FS_CardinalityType DEF SemInv, WellFormed
    <3>2. sem.permits \in Nat
      BY <2>3
    <3> QED
      BY <2>1, <3>1, <3>2, GatewayAssumption DEF GatewayAssumption, SemInv, Spare
  <2>5. sem \in Semaphores(Requests, MaxConcurrency)
    BY <2>3, <2>4 DEF Semaphores
  <2> QED
    BY <2>1, <2>2, <2>5 DEF GatewayTypeOK, TypeInv
<1> QED
  BY <1>1, AlwaysInv, PTL

(* No permit is leaked and none is given back twice.                       *)
THEOREM PermitsAddUp == Spec => []PermitsConserved
<1>1. Inv => PermitsConserved
  BY DEF Inv, SemInv, Spare, PermitsConserved
<1> QED
  BY <1>1, AlwaysInv, PTL

(* Nobody waits for a permit that lies idle.                               *)
THEOREM NobodyWaitsIdly == Spec => []NoLostWakeup
<1>1. Inv => NoLostWakeup
  BY DEF Inv, SemInv, NoIdlePermit, Members, NoLostWakeup
<1> QED
  BY <1>1, AlwaysInv, PTL

(* An open quota circuit ends one quota period after the last report of    *)
(* its own channel.                                                        *)
THEOREM CircuitsAreTruthful == Spec => []CircuitsFollowReports
<1>1. Inv => CircuitsFollowReports
  BY DEF Inv, CircuitInv, TextGood, ImageGood, Follows, CircuitsFollowReports
<1> QED
  BY <1>1, AlwaysInv, PTL

(* The paid API is only called for what quota exhaustion justifies.        *)
THEOREM PayingIsJustified == Spec => PaidOnlyForQuota
<1>1. Init => Billing!Init
  BY InitLawful
<1>2. Inv /\ [Next]_vars => [Billing!Next]_(Billing!vars)
  BY NextLawful DEF Lawful
<1> QED
  BY <1>1, <1>2, AlwaysInv, PTL DEF Spec, PaidOnlyForQuota, Billing!Spec
=============================================================================

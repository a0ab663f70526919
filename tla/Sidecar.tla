------------------------------- MODULE Sidecar -------------------------------
(***************************************************************************)
(* The Codex sidecar (app/codex_upstream.py) serving concurrent requests   *)
(* on one event loop.  A completion holds a permit of SEMAPHORE throughout *)
(* and AUTH_SYNC_LOCK during each of its one or two runs of the Codex CLI; *)
(* an image generation holds only the lock.  Any handler may be cancelled  *)
(* at any await.  What happens inside the cleanup of a run is the module   *)
(* ProcessCleanup.                                                         *)
(***************************************************************************)
EXTENDS AsyncSemaphore

CONSTANTS
    Requests,
    MaxConcurrency   \* CODEX_MAX_CONCURRENCY

(* MAX_CONCURRENCY = max(1, int(...)).                                     *)
ASSUME SidecarAssumption == MaxConcurrency \in Nat \ {0}

Completions == {"text", "json"}    \* _run_codex, without and with require_json
Kinds == Completions \cup {"image"}

Stages == {
    "idle",
    "sem",       \* waiting for SEMAPHORE
    "lock",      \* waiting for AUTH_SYNC_LOCK
    "prepare",   \* fetching input images and spawning the CLI, with the lock
    "run",       \* in communicate(), with the lock
    "cleanup",   \* in _terminate_process_group(), with the lock
    "generate",  \* in generate_codex_image(), with the lock
    "done"}

Replies == {"none", "ok", "error", "timeout504", "cancelled"}

VARIABLES
    sem,       \* SEMAPHORE
    lock,      \* AUTH_SYNC_LOCK
    kind,
    stage,
    attempt,   \* per request, the runs of the CLI it has begun to ask for
    reply,     \* per request, the answer, once known
    group      \* per request, the process group of its latest run: "none",
               \* "alive", or "left" when processes of it were left behind

vars == <<sem, lock, kind, stage, attempt, reply, group>>

Init ==
    /\ sem = Unused(MaxConcurrency)
    /\ lock = Unused(1)
    /\ kind = [r \in Requests |-> "none"]
    /\ stage = [r \in Requests |-> "idle"]
    /\ attempt = [r \in Requests |-> 0]
    /\ reply = [r \in Requests |-> "none"]
    /\ group = [r \in Requests |-> "none"]

-----------------------------------------------------------------------------
(* How a stretch ends: at the next await, or with the answer.  `s` and `l` *)
(* are the semaphore and the lock by then.                                 *)

Go(r, where, s, l) ==
    /\ stage' = [stage EXCEPT ![r] = where]
    /\ sem' = s
    /\ lock' = l
    /\ UNCHANGED reply

Finish(r, how, s, l) ==
    /\ stage' = [stage EXCEPT ![r] = "done"]
    /\ reply' = [reply EXCEPT ![r] = how]
    /\ sem' = s
    /\ lock' = l

(* Out of both `async with` blocks: the lock is released first.            *)
Leaving(r, how) == Finish(r, how, Release(sem), Release(lock))

-----------------------------------------------------------------------------
(* Into the semaphore and the lock                                         *)

(* With the lock.  A run starts by checking the CLI and the credential.    *)
WithLock(r, k, s, l) ==
    IF k = "image"
    THEN Go(r, "generate", s, l)
    ELSE \/ Go(r, "prepare", s, l)
         \/ Finish(r, "error", Release(s), Release(l))

AskLock(r, k, s, l) ==
    IF CanTake(l)
    THEN WithLock(r, k, s, Take(l))
    ELSE Go(r, "lock", s, Enqueue(l, r))

(* An empty prompt, a wrong bearer, or for an image an invalid credential, *)
(* is refused at once.                                                     *)
Refuse(r) == Finish(r, "error", sem, lock) /\ UNCHANGED attempt

Accept(r, k) ==
    /\ attempt' = [attempt EXCEPT ![r] = 1]
    /\ IF k = "image" THEN AskLock(r, k, sem, lock)
       ELSE IF CanTake(sem) THEN AskLock(r, k, Take(sem), lock)
       ELSE Go(r, "sem", Enqueue(sem, r), lock)

Arrive(r) ==
    /\ stage[r] = "idle"
    /\ \E k \in Kinds :
         /\ kind' = [kind EXCEPT ![r] = k]
         /\ Accept(r, k) \/ Refuse(r)
    /\ UNCHANGED group

SemResumed(r) ==
    /\ r \in sem.woken
    /\ AskLock(r, kind[r], Resume(sem, r), lock)
    /\ UNCHANGED <<kind, attempt, group>>

LockResumed(r) ==
    /\ r \in lock.woken
    /\ WithLock(r, kind[r], sem, Resume(lock, r))
    /\ UNCHANGED <<kind, attempt, group>>

-----------------------------------------------------------------------------
(* One run of the CLI                                                      *)

(* The input images are there and the CLI is started, or one of them fails.*)
Prepared(r) ==
    /\ stage[r] = "prepare"
    /\ \/ /\ Go(r, "run", sem, lock)
          /\ group' = [group EXCEPT ![r] = "alive"]
       \/ /\ Leaving(r, "error")
          /\ UNCHANGED group
    /\ UNCHANGED <<kind, attempt>>

(* Mutant: the repair run is asked for before the first gives the lock up. *)
RepairNested(r) == Go(r, "lock", sem, Enqueue(lock, r))

(* Mutant: the repair run begins without leaving the lock.                 *)
RepairKeeping(r) == WithLock(r, kind[r], sem, lock)

(* Invalid JSON: the lock is left and asked for again, behind those who    *)
(* wait, while the permit is kept.                                         *)
Repair(r) == AskLock(r, kind[r], sem, Release(lock))

(* communicate() returns: the CLI ended, and nobody looks whether its      *)
(* descendants did.  Only the first unusable output of a JSON request is   *)
(* worth another run.                                                      *)
RunEnds(r) ==
    /\ stage[r] = "run"
    /\ \E g \in {"none", "left"} : group' = [group EXCEPT ![r] = g]
    /\ \/ /\ Leaving(r, "ok")
          /\ UNCHANGED attempt
       \/ /\ Leaving(r, "error")
          /\ UNCHANGED attempt
       \/ /\ kind[r] = "json" /\ attempt[r] = 1
          /\ Repair(r)
          /\ attempt' = [attempt EXCEPT ![r] = 2]
    /\ UNCHANGED kind

(* CODEX_TIMEOUT_SECONDS are over, or the task is cancelled: the group is  *)
(* taken down before anything is given back.                               *)
BeginCleanup(r, why) ==
    /\ stage' = [stage EXCEPT ![r] = "cleanup"]
    /\ reply' = [reply EXCEPT ![r] = why]
    /\ UNCHANGED <<sem, lock, group>>

RunTimesOut(r) ==
    /\ stage[r] = "run"
    /\ BeginCleanup(r, "timeout504")
    /\ UNCHANGED <<kind, attempt>>

(* SIGTERM, then SIGKILL, or the wait for both given up.  A further        *)
(* cancellation during the cleanup is absorbed and changes nothing.        *)
CleanupEnds(r) ==
    /\ stage[r] = "cleanup"
    /\ Leaving(r, reply[r])
    /\ \E g \in {"none", "left"} : group' = [group EXCEPT ![r] = g]
    /\ UNCHANGED <<kind, attempt>>

Generated(r) ==
    /\ stage[r] = "generate"
    /\ \E how \in {"ok", "error"} : Finish(r, how, sem, Release(lock))
    /\ UNCHANGED <<kind, attempt, group>>

-----------------------------------------------------------------------------
(* Cancellation, wherever the task awaits                                  *)

Quit(s, r) == IF r \in s.woken THEN CancelWoken(s, r) ELSE CancelWaiting(s, r)

CancelWaitingForSem(r) ==
    /\ stage[r] = "sem"
    /\ Finish(r, "cancelled", Quit(sem, r), lock)
    /\ UNCHANGED group

(* Mutant: an image generation gives back a permit it never had.           *)
CancelWaitingForLockReleasing(r) ==
    /\ stage[r] = "lock"
    /\ Finish(r, "cancelled", Release(sem), Quit(lock, r))
    /\ UNCHANGED group

CancelWaitingForLock(r) ==
    /\ stage[r] = "lock"
    /\ Finish(r, "cancelled",
              IF kind[r] = "image" THEN sem ELSE Release(sem), Quit(lock, r))
    /\ UNCHANGED group

(* A spawn that is cancelled kills the process it began, as asyncio does,  *)
(* but not the group: what that process had started by then stays.         *)
CancelPreparing(r) ==
    /\ stage[r] = "prepare"
    /\ Leaving(r, "cancelled")
    /\ \E g \in {"none", "left"} : group' = [group EXCEPT ![r] = g]

(* Mutant: a cancelled run gives the lock back without taking its group    *)
(* down.                                                                   *)
CancelRunLeaving(r) ==
    /\ stage[r] = "run"
    /\ Leaving(r, "cancelled")
    /\ UNCHANGED group

CancelRun(r) ==
    /\ stage[r] = "run"
    /\ BeginCleanup(r, "cancelled")

CancelGenerating(r) ==
    /\ stage[r] = "generate"
    /\ Finish(r, "cancelled", sem, Release(lock))
    /\ UNCHANGED group

Cancel(r) ==
    /\ \/ CancelWaitingForSem(r)
       \/ CancelWaitingForLock(r)
       \/ CancelPreparing(r)
       \/ CancelRun(r)
       \/ CancelGenerating(r)
    /\ UNCHANGED <<kind, attempt>>

Serve(r) ==
    \/ SemResumed(r)
    \/ LockResumed(r)
    \/ Prepared(r)
    \/ RunEnds(r)
    \/ RunTimesOut(r)
    \/ CleanupEnds(r)
    \/ Generated(r)

Next == \E r \in Requests : Arrive(r) \/ Serve(r) \/ Cancel(r)

Spec == Init /\ [][Next]_vars

(* Nobody has to come or to cancel, and nothing bounds a preparation or an *)
(* image call: their timeouts are for each operation of a connection, and  *)
(* names and processes have none.  But a woken task is in the loop's ready *)
(* queue, and a run and its cleanup have deadlines of their own.           *)
Due(r) ==
    \/ SemResumed(r) \/ LockResumed(r)
    \/ RunEnds(r) \/ RunTimesOut(r)
    \/ CleanupEnds(r)

FairSpec == Spec /\ \A r \in Requests : WF_vars(Due(r))

-----------------------------------------------------------------------------

(* Type: what each variable may hold.                                      *)
SidecarTypeOK ==
    /\ sem \in Semaphores(Requests, MaxConcurrency)
    /\ lock \in Semaphores(Requests, 1)
    /\ kind \in [Requests -> Kinds \cup {"none"}]
    /\ stage \in [Requests -> Stages]
    /\ attempt \in [Requests -> 0..2]
    /\ reply \in [Requests -> Replies]
    /\ group \in [Requests -> {"none", "alive", "left"}]

SemHolders ==
    {r \in Requests : kind[r] \in Completions
                      /\ stage[r] \in {"lock", "prepare", "run", "cleanup"}}

LockHolders ==
    {r \in Requests : stage[r] \in {"prepare", "run", "cleanup", "generate"}}

(* Whatever is cancelled, fails, times out or is run again, each permit is *)
(* free, on its way to a woken task, or held: none leaks and none is given *)
(* back twice, of the semaphore nor of the lock.                           *)
NothingLeaks ==
    /\ sem.permits + Cardinality(sem.woken) + Cardinality(SemHolders)
         = MaxConcurrency
    /\ lock.permits + Cardinality(lock.woken) + Cardinality(LockHolders) = 1

(* The credential has one user at a time: no two live process groups of    *)
(* the CLI, and none besides an image generation, also while a cancelled   *)
(* or timed-out run is being taken down.  (What a run that ended, or a     *)
(* cleanup that gave up, left behind is not counted.)                      *)
CredentialSerialized ==
    Cardinality({r \in Requests : group[r] = "alive" \/ stage[r] = "generate"}) <= 1

(* Nobody waits for a free permit unless a woken task will pass it on.     *)
NobodyForgotten ==
    /\ sem.permits > 0 /\ sem.queue # <<>> => sem.woken # {}
    /\ lock.permits > 0 /\ lock.queue # <<>> => lock.woken # {}
    /\ \A r \in Requests :
         /\ (stage[r] = "sem") <=> (r \in Waiting(sem) \cup sem.woken)
         /\ (stage[r] = "lock") <=> (r \in Waiting(lock) \cup lock.woken)

(* Every request ends, however many others are cancelled, time out or are  *)
(* run again, if no preparation and no image call lasts for ever: holding  *)
(* the semaphore while waiting for the lock cannot deadlock.               *)
EveryRequestEnds ==
    (\A q \in Requests : []<>(stage[q] \notin {"prepare", "generate"}))
    => \A r \in Requests :
           stage[r] \in Stages \ {"idle", "done"} ~> stage[r] = "done"
=============================================================================

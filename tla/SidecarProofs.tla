---------------------------- MODULE SidecarProofs ----------------------------
(***************************************************************************)
(* The sidecar for any set of requests and any concurrency limit, by       *)
(* itself and, at the end, with the gateway's calls in time.               *)
(***************************************************************************)
EXTENDS Deadlines, SemaphoreTheorems

(* The inductive invariant, in three parts.                                *)
TypeInv ==
    /\ kind \in [Requests -> Kinds \cup {"none"}]
    /\ stage \in [Requests -> Stages]
    /\ attempt \in [Requests -> 0..2]
    /\ reply \in [Requests -> Replies]
    /\ group \in [Requests -> {"none", "alive", "left"}]

(* Who can be where, and that a live group belongs to a run or a cleanup.  *)
RequestInv ==
    \A r \in Requests :
        /\ stage[r] \in {"sem", "prepare", "run", "cleanup"} => kind[r] \in Completions
        /\ stage[r] = "generate" => kind[r] = "image"
        /\ stage[r] = "lock" => kind[r] \in Kinds
        /\ group[r] = "alive" => stage[r] \in {"run", "cleanup"}

SemWaiters  == {r \in Requests : stage[r] = "sem"}
LockWaiters == {r \in Requests : stage[r] = "lock"}

(* Both books are balanced: each permit is spare or held, and exactly the  *)
(* handlers at "sem" and at "lock" are inside acquire().                   *)
ResourceInv ==
    /\ Balanced(sem, Requests, MaxConcurrency, SemHolders, SemWaiters)
    /\ Balanced(lock, Requests, 1, LockHolders, LockWaiters)

Inv == TypeInv /\ RequestInv /\ ResourceInv

-----------------------------------------------------------------------------
(* One task and one resource                                               *)

(* s is balanced if, whatever the state says of r, r is `place`.           *)
At(s, n, H, W, r, place) ==
    Balanced(s, Requests, n,
             IF place = "holding" THEN (H \ {r}) \cup {r} ELSE H \ {r},
             IF place = "waiting" THEN (W \ {r}) \cup {r} ELSE W \ {r})

(* acquire() by a newcomer, without a wait and with one.                   *)
LEMMA TakeAt ==
    ASSUME NEW s, NEW n \in Nat, NEW H, NEW W, NEW r \in Requests,
           At(s, n, H, W, r, "away"), CanTake(s)
    PROVE  At(Take(s), n, H, W, r, "holding")
<1> DEFINE G == H \ {r}
           V == W \ {r}
<1>1. Balanced(s, Requests, n, G, V) /\ r \notin G
  BY DEF At
<1> HIDE DEF G, V
<1>2. Balanced(Take(s), Requests, n, G \cup {r}, V)
  BY <1>1, TakeBalanced
<1> QED
  BY <1>2 DEF At, G, V

LEMMA EnqueueAt ==
    ASSUME NEW s, NEW n \in Nat, NEW H, NEW W, NEW r \in Requests,
           At(s, n, H, W, r, "away"), ~ CanTake(s)
    PROVE  At(Enqueue(s, r), n, H, W, r, "waiting")
<1> DEFINE G == H \ {r}
           V == W \ {r}
<1>1. Balanced(s, Requests, n, G, V) /\ r \notin V
  BY DEF At
<1> HIDE DEF G, V
<1>2. Balanced(Enqueue(s, r), Requests, n, G, V \cup {r})
  BY <1>1, EnqueueBalanced
<1> QED
  BY <1>2 DEF At, G, V

(* The end of a wait: with the permit, or cancelled.                       *)
LEMMA ResumeAt ==
    ASSUME NEW s, NEW n \in Nat, NEW H, NEW W, NEW r \in Requests,
           At(s, n, H, W, r, "waiting"), r \in s.woken
    PROVE  At(Resume(s, r), n, H, W, r, "holding")
<1> DEFINE G == H \ {r}
           V == (W \ {r}) \cup {r}
<1>1. Balanced(s, Requests, n, G, V) /\ r \notin G /\ V \ {r} = W \ {r}
  BY DEF At
<1> HIDE DEF G, V
<1>2. Balanced(Resume(s, r), Requests, n, G \cup {r}, V \ {r})
  BY <1>1, ResumeBalanced
<1> QED
  BY <1>1, <1>2 DEF At, G

LEMMA QuitAt ==
    ASSUME NEW s, NEW n \in Nat, NEW H, NEW W, NEW r \in Requests,
           At(s, n, H, W, r, "waiting")
    PROVE  At(Quit(s, r), n, H, W, r, "away")
<1> DEFINE G == H \ {r}
           V == (W \ {r}) \cup {r}
<1>1. Balanced(s, Requests, n, G, V) /\ r \in V /\ V \ {r} = W \ {r}
  BY DEF At
<1> HIDE DEF G, V
<1>2. Balanced(Quit(s, r), Requests, n, G, V \ {r})
  BY <1>1, CancelBalanced DEF Quit
<1> QED
  BY <1>1, <1>2 DEF At, G

(* release()                                                               *)
LEMMA ReleaseAt ==
    ASSUME NEW s, NEW n \in Nat, NEW H, NEW W, NEW r \in Requests,
           At(s, n, H, W, r, "holding")
    PROVE  At(Release(s), n, H, W, r, "away")
<1> DEFINE G == (H \ {r}) \cup {r}
           V == W \ {r}
<1>1. Balanced(s, Requests, n, G, V) /\ r \in G /\ G \ {r} = H \ {r}
  BY DEF At
<1> HIDE DEF G, V
<1>2. Balanced(Release(s), Requests, n, G \ {r}, V)
  BY <1>1, ReleaseBalanced
<1> QED
  BY <1>1, <1>2 DEF At, V

-----------------------------------------------------------------------------
(* The sidecar's two resources                                             *)

SemAt(r, s, place)  == At(s, MaxConcurrency, SemHolders, SemWaiters, r, place)
LockAt(r, l, place) == At(l, 1, LockHolders, LockWaiters, r, place)

(* Where a handler of kind k is at stage x.                                *)
SemPlace(k, x) ==
    CASE x = "sem" -> "waiting"
      [] x \in {"lock", "prepare", "run", "cleanup"} /\ k \in Completions -> "holding"
      [] OTHER -> "away"

LockPlace(x) ==
    CASE x = "lock" -> "waiting"
      [] x \in {"prepare", "run", "cleanup", "generate"} -> "holding"
      [] OTHER -> "away"

(* Before a step, r is where its stage says.                               *)
LEMMA Placed ==
    ASSUME TypeInv, ResourceInv, NEW r \in Requests
    PROVE  /\ SemAt(r, sem, SemPlace(kind[r], stage[r]))
           /\ LockAt(r, lock, LockPlace(stage[r]))
<1>1. SemAt(r, sem, SemPlace(kind[r], stage[r]))
  <2> DEFINE p == SemPlace(kind[r], stage[r])
  <2>1. /\ (IF p = "holding" THEN (SemHolders \ {r}) \cup {r} ELSE SemHolders \ {r})
             = SemHolders
        /\ (IF p = "waiting" THEN (SemWaiters \ {r}) \cup {r} ELSE SemWaiters \ {r})
             = SemWaiters
    BY DEF TypeInv, SemHolders, SemWaiters, SemPlace
  <2> QED
    BY <2>1, Zenon DEF ResourceInv, SemAt, At
<1>2. LockAt(r, lock, LockPlace(stage[r]))
  <2> DEFINE p == LockPlace(stage[r])
  <2>1. /\ (IF p = "holding" THEN (LockHolders \ {r}) \cup {r} ELSE LockHolders \ {r})
             = LockHolders
        /\ (IF p = "waiting" THEN (LockWaiters \ {r}) \cup {r} ELSE LockWaiters \ {r})
             = LockWaiters
    BY DEF TypeInv, LockHolders, LockWaiters, LockPlace
  <2> QED
    BY <2>1, Zenon DEF ResourceInv, LockAt, At
<1> QED
  BY <1>1, <1>2

(* If r is where its new stage says, the books are balanced after the step.*)
LEMMA Settled ==
    ASSUME TypeInv, NEW r \in Requests, NEW k \in Kinds \cup {"none"}, NEW x \in Stages,
           kind' = [kind EXCEPT ![r] = k],
           stage' = [stage EXCEPT ![r] = x],
           SemAt(r, sem', SemPlace(k, x)),
           LockAt(r, lock', LockPlace(x))
    PROVE  ResourceInv'
<1>1. /\ kind'[r] = k /\ stage'[r] = x
      /\ \A q \in Requests \ {r} : kind'[q] = kind[q] /\ stage'[q] = stage[q]
  BY DEF TypeInv
<1>2. Balanced(sem', Requests, MaxConcurrency, SemHolders', SemWaiters')
  <2> DEFINE p == SemPlace(k, x)
  <2>1. /\ (IF p = "holding" THEN (SemHolders \ {r}) \cup {r} ELSE SemHolders \ {r})
             = SemHolders'
        /\ (IF p = "waiting" THEN (SemWaiters \ {r}) \cup {r} ELSE SemWaiters \ {r})
             = SemWaiters'
    BY <1>1 DEF SemHolders, SemWaiters, SemPlace
  <2> QED
    BY <2>1, Zenon DEF SemAt, At
<1>3. Balanced(lock', Requests, 1, LockHolders', LockWaiters')
  <2> DEFINE p == LockPlace(x)
  <2>1. /\ (IF p = "holding" THEN (LockHolders \ {r}) \cup {r} ELSE LockHolders \ {r})
             = LockHolders'
        /\ (IF p = "waiting" THEN (LockWaiters \ {r}) \cup {r} ELSE LockWaiters \ {r})
             = LockWaiters'
    BY <1>1 DEF LockHolders, LockWaiters, LockPlace
  <2> QED
    BY <2>1, Zenon DEF LockAt, At
<1> QED
  BY <1>2, <1>3 DEF ResourceInv

-----------------------------------------------------------------------------
(* How stretches end                                                       *)

(* With the lock, for an image without a permit, a handler stays where it  *)
(* is or leaves both.                                                      *)
LEMMA WithLockSettles ==
    ASSUME SidecarAssumption, TypeInv, NEW r \in Requests, NEW k \in Kinds,
           NEW s, NEW l, WithLock(r, k, s, l), kind' = [kind EXCEPT ![r] = k],
           SemAt(r, s, IF k = "image" THEN "away" ELSE "holding"),
           LockAt(r, l, "holding")
    PROVE  ResourceInv'
<1>1. CASE k = "image"
  <2>1. Go(r, "generate", s, l)
    BY <1>1 DEF WithLock
  <2>2. SemPlace(k, "generate") = "away" /\ LockPlace("generate") = "holding"
    BY <1>1 DEF SemPlace, LockPlace, Completions
  <2> QED
    BY <1>1, <2>1, <2>2, Settled DEF Go, Stages, Kinds
<1>2. CASE k \in Completions
  <2>1. k # "image"
    BY <1>2 DEF Completions
  <2>2. CASE Go(r, "prepare", s, l)
    <3>1. SemPlace(k, "prepare") = "holding" /\ LockPlace("prepare") = "holding"
      BY <1>2 DEF SemPlace, LockPlace
    <3> QED
      BY <2>1, <2>2, <3>1, Settled DEF Go, Stages, Kinds
  <2>3. CASE Finish(r, "error", Release(s), Release(l))
    <3>1. SemAt(r, Release(s), "away")
      BY <2>1, ReleaseAt, SidecarAssumption DEF SemAt
    <3>2. LockAt(r, Release(l), "away")
      BY ReleaseAt DEF LockAt
    <3>3. SemPlace(k, "done") = "away" /\ LockPlace("done") = "away"
      BY DEF SemPlace, LockPlace
    <3> QED
      BY <2>3, <3>1, <3>2, <3>3, Settled DEF Finish, Stages, Kinds
  <2> QED
    BY <2>1, <2>2, <2>3 DEF WithLock
<1> QED
  BY <1>1, <1>2 DEF Kinds

(* A handler asks for the lock.                                            *)
LEMMA AskLockSettles ==
    ASSUME SidecarAssumption, TypeInv, NEW r \in Requests, NEW k \in Kinds,
           NEW s, NEW l, AskLock(r, k, s, l), kind' = [kind EXCEPT ![r] = k],
           SemAt(r, s, IF k = "image" THEN "away" ELSE "holding"),
           LockAt(r, l, "away")
    PROVE  ResourceInv'
<1>1. CASE CanTake(l)
  <2>1. LockAt(r, Take(l), "holding")
    BY <1>1, TakeAt DEF LockAt
  <2>2. WithLock(r, k, s, Take(l))
    BY <1>1 DEF AskLock
  <2> QED
    BY <2>1, <2>2, WithLockSettles
<1>2. CASE ~ CanTake(l)
  <2>1. LockAt(r, Enqueue(l, r), "waiting")
    BY <1>2, EnqueueAt DEF LockAt
  <2>2. Go(r, "lock", s, Enqueue(l, r))
    BY <1>2 DEF AskLock
  <2>3. /\ SemPlace(k, "lock") = IF k = "image" THEN "away" ELSE "holding"
        /\ LockPlace("lock") = "waiting"
    BY DEF SemPlace, LockPlace, Kinds, Completions
  <2> QED
    BY <2>1, <2>2, <2>3, Settled DEF Go, Stages
<1> QED
  BY <1>1, <1>2

(* A completion leaves from where it held both.                            *)
LEMMA LeavingSettles ==
    ASSUME SidecarAssumption, TypeInv, NEW r \in Requests, NEW how, Leaving(r, how),
           kind' = kind,
           SemAt(r, sem, "holding"), LockAt(r, lock, "holding")
    PROVE  ResourceInv'
<1>1. SemAt(r, Release(sem), "away")
  BY ReleaseAt, SidecarAssumption DEF SemAt
<1>2. LockAt(r, Release(lock), "away")
  BY ReleaseAt DEF LockAt
<1>3. SemPlace(kind[r], "done") = "away" /\ LockPlace("done") = "away"
  BY DEF SemPlace, LockPlace
<1>4. kind' = [kind EXCEPT ![r] = kind[r]] /\ kind[r] \in Kinds \cup {"none"}
  BY DEF TypeInv
<1> QED
  BY <1>1, <1>2, <1>3, <1>4, Settled DEF Leaving, Finish, Stages

-----------------------------------------------------------------------------
(* The actions keep the books                                              *)

LEMMA ArriveResources ==
    ASSUME SidecarAssumption, Inv, NEW r \in Requests, Arrive(r)
    PROVE  ResourceInv'
<1>1. PICK k \in Kinds : kind' = [kind EXCEPT ![r] = k] /\ (Accept(r, k) \/ Refuse(r))
  BY DEF Arrive
<1>2. SemAt(r, sem, "away") /\ LockAt(r, lock, "away")
  <2>1. SemPlace(kind[r], stage[r]) = "away" /\ LockPlace(stage[r]) = "away"
    BY DEF Arrive, SemPlace, LockPlace
  <2> QED
    BY <2>1, Placed DEF Inv
<1>3. CASE Refuse(r)
  <2>1. SemPlace(k, "done") = "away" /\ LockPlace("done") = "away"
    BY DEF SemPlace, LockPlace
  <2> QED
    BY <1>1, <1>2, <1>3, <2>1, Settled DEF Refuse, Finish, Stages, Inv
<1>4. CASE Accept(r, k) /\ k = "image"
  BY <1>1, <1>2, <1>4, AskLockSettles DEF Accept, Inv
<1>5. CASE Accept(r, k) /\ k # "image" /\ CanTake(sem)
  <2>1. SemAt(r, Take(sem), "holding")
    BY <1>2, <1>5, TakeAt, SidecarAssumption DEF SemAt
  <2>2. AskLock(r, k, Take(sem), lock)
    BY <1>5 DEF Accept
  <2> QED
    BY <1>1, <1>2, <1>5, <2>1, <2>2, AskLockSettles DEF Inv
<1>6. CASE Accept(r, k) /\ k # "image" /\ ~ CanTake(sem)
  <2>1. SemAt(r, Enqueue(sem, r), "waiting")
    BY <1>2, <1>6, EnqueueAt, SidecarAssumption DEF SemAt
  <2>2. Go(r, "sem", Enqueue(sem, r), lock)
    BY <1>6 DEF Accept
  <2>3. SemPlace(k, "sem") = "waiting" /\ LockPlace("sem") = "away"
    BY DEF SemPlace, LockPlace
  <2> QED
    BY <1>1, <1>2, <2>1, <2>2, <2>3, Settled DEF Go, Stages, Inv
<1> QED
  BY <1>1, <1>3, <1>4, <1>5, <1>6

LEMMA SemResumedResources ==
    ASSUME SidecarAssumption, Inv, NEW r \in Requests, SemResumed(r)
    PROVE  ResourceInv'
<1>1. stage[r] = "sem" /\ kind[r] \in Completions
  BY DEF SemResumed, Inv, ResourceInv, Balanced, Members, SemWaiters, RequestInv
<1>2. SemAt(r, sem, "waiting") /\ LockAt(r, lock, "away")
  <2>1. SemPlace(kind[r], stage[r]) = "waiting" /\ LockPlace(stage[r]) = "away"
    BY <1>1 DEF SemPlace, LockPlace
  <2> QED
    BY <2>1, Placed DEF Inv
<1>3. SemAt(r, Resume(sem, r), "holding")
  BY <1>2, ResumeAt, SidecarAssumption DEF SemAt, SemResumed
<1>4. kind' = [kind EXCEPT ![r] = kind[r]] /\ kind[r] \in Kinds /\ kind[r] # "image"
  BY <1>1 DEF SemResumed, Inv, TypeInv, Completions, Kinds
<1> QED
  BY <1>2, <1>3, <1>4, AskLockSettles DEF SemResumed, Inv

LEMMA LockResumedResources ==
    ASSUME SidecarAssumption, Inv, NEW r \in Requests, LockResumed(r)
    PROVE  ResourceInv'
<1>1. stage[r] = "lock" /\ kind[r] \in Kinds
  BY DEF LockResumed, Inv, ResourceInv, Balanced, Members, LockWaiters, RequestInv
<1>2. /\ SemAt(r, sem, IF kind[r] = "image" THEN "away" ELSE "holding")
      /\ LockAt(r, lock, "waiting")
  <2>1. /\ SemPlace(kind[r], stage[r]) = IF kind[r] = "image" THEN "away" ELSE "holding"
        /\ LockPlace(stage[r]) = "waiting"
    BY <1>1 DEF SemPlace, LockPlace, Kinds, Completions
  <2> QED
    BY <2>1, Placed DEF Inv
<1>3. LockAt(r, Resume(lock, r), "holding")
  BY <1>2, ResumeAt DEF LockAt, LockResumed
<1>4. kind' = [kind EXCEPT ![r] = kind[r]]
  BY DEF LockResumed, Inv, TypeInv
<1> QED
  BY <1>1, <1>2, <1>3, <1>4, WithLockSettles DEF LockResumed, Inv

(* A handler of a completion with the lock holds both resources.           *)
LEMMA RunnerHoldsBoth ==
    ASSUME Inv, NEW r \in Requests, stage[r] \in {"prepare", "run", "cleanup"}
    PROVE  /\ SemAt(r, sem, "holding") /\ LockAt(r, lock, "holding")
           /\ kind[r] \in Completions
<1>1. kind[r] \in Completions
  BY DEF Inv, RequestInv
<1>2. SemPlace(kind[r], stage[r]) = "holding" /\ LockPlace(stage[r]) = "holding"
  BY <1>1 DEF SemPlace, LockPlace
<1> QED
  BY <1>1, <1>2, Placed DEF Inv

(* It may go on at another such stage.                                     *)
LEMMA RunnerStays ==
    ASSUME Inv, NEW r \in Requests, stage[r] \in {"prepare", "run", "cleanup"},
           NEW x \in {"run", "cleanup"}, stage' = [stage EXCEPT ![r] = x],
           UNCHANGED <<sem, lock, kind>>
    PROVE  ResourceInv'
<1>1. /\ SemAt(r, sem, "holding") /\ LockAt(r, lock, "holding")
      /\ kind[r] \in Completions
  BY RunnerHoldsBoth
<1>2. SemPlace(kind[r], x) = "holding" /\ LockPlace(x) = "holding"
  BY <1>1 DEF SemPlace, LockPlace
<1>3. kind' = [kind EXCEPT ![r] = kind[r]]
  BY DEF Inv, TypeInv
<1> QED
  BY <1>1, <1>2, <1>3, Settled DEF Inv, Stages, Kinds

LEMMA PreparedResources ==
    ASSUME SidecarAssumption, Inv, NEW r \in Requests, Prepared(r)
    PROVE  ResourceInv'
<1>1. CASE Go(r, "run", sem, lock)
  BY <1>1, RunnerStays DEF Prepared, Go
<1>2. CASE Leaving(r, "error")
  BY <1>2, RunnerHoldsBoth, LeavingSettles DEF Prepared, Inv
<1> QED
  BY <1>1, <1>2 DEF Prepared

LEMMA RunEndsResources ==
    ASSUME SidecarAssumption, Inv, NEW r \in Requests, RunEnds(r)
    PROVE  ResourceInv'
<1>1. /\ SemAt(r, sem, "holding") /\ LockAt(r, lock, "holding")
      /\ kind[r] \in Completions
  BY RunnerHoldsBoth DEF RunEnds
<1>2. ASSUME NEW how, Leaving(r, how)
      PROVE  ResourceInv'
  BY <1>1, <1>2, LeavingSettles DEF RunEnds, Inv
<1>3. CASE Repair(r)
  <2>1. LockAt(r, Release(lock), "away")
    BY <1>1, ReleaseAt DEF LockAt
  <2>2. kind' = [kind EXCEPT ![r] = kind[r]] /\ kind[r] \in Kinds /\ kind[r] # "image"
    BY <1>1 DEF RunEnds, Inv, TypeInv, Completions, Kinds
  <2> QED
    BY <1>1, <1>3, <2>1, <2>2, AskLockSettles DEF Repair, Inv
<1> QED
  BY <1>2, <1>3 DEF RunEnds

(* The end of an image generation, answered or cancelled.                  *)
LEMMA GenerateEndsResources ==
    ASSUME SidecarAssumption, Inv, NEW r \in Requests, stage[r] = "generate",
           NEW how, Finish(r, how, sem, Release(lock)), kind' = kind
    PROVE  ResourceInv'
<1>1. kind[r] = "image"
  BY DEF Inv, RequestInv
<1>2. SemAt(r, sem, "away") /\ LockAt(r, lock, "holding")
  <2>1. SemPlace(kind[r], stage[r]) = "away" /\ LockPlace(stage[r]) = "holding"
    BY DEF SemPlace, LockPlace
  <2> QED
    BY <2>1, Placed DEF Inv
<1>3. LockAt(r, Release(lock), "away")
  BY <1>2, ReleaseAt DEF LockAt
<1>4. SemPlace(kind[r], "done") = "away" /\ LockPlace("done") = "away"
  BY DEF SemPlace, LockPlace
<1>5. kind' = [kind EXCEPT ![r] = kind[r]] /\ kind[r] \in Kinds
  BY <1>1 DEF Inv, TypeInv, Kinds
<1> QED
  BY <1>2, <1>3, <1>4, <1>5, Settled DEF Finish, Stages, Inv

LEMMA CancelWaitingForSemResources ==
    ASSUME SidecarAssumption, Inv, NEW r \in Requests, CancelWaitingForSem(r), kind' = kind
    PROVE  ResourceInv'
<1>1. SemAt(r, sem, "waiting") /\ LockAt(r, lock, "away")
  <2>1. SemPlace(kind[r], stage[r]) = "waiting" /\ LockPlace(stage[r]) = "away"
    BY DEF CancelWaitingForSem, SemPlace, LockPlace
  <2> QED
    BY <2>1, Placed DEF Inv
<1>2. SemAt(r, Quit(sem, r), "away")
  BY <1>1, QuitAt, SidecarAssumption DEF SemAt
<1>3. SemPlace(kind[r], "done") = "away" /\ LockPlace("done") = "away"
  BY DEF SemPlace, LockPlace
<1>4. kind' = [kind EXCEPT ![r] = kind[r]] /\ kind[r] \in Kinds \cup {"none"}
  BY DEF Inv, TypeInv
<1> QED
  BY <1>1, <1>2, <1>3, <1>4, Settled DEF CancelWaitingForSem, Finish, Stages, Inv

LEMMA CancelWaitingForLockResources ==
    ASSUME SidecarAssumption, Inv, NEW r \in Requests, CancelWaitingForLock(r), kind' = kind
    PROVE  ResourceInv'
<1> DEFINE s == IF kind[r] = "image" THEN sem ELSE Release(sem)
<1>1. stage[r] = "lock" /\ kind[r] \in Kinds
  BY DEF CancelWaitingForLock, Inv, RequestInv
<1>2. /\ SemAt(r, sem, IF kind[r] = "image" THEN "away" ELSE "holding")
      /\ LockAt(r, lock, "waiting")
  <2>1. /\ SemPlace(kind[r], stage[r]) = IF kind[r] = "image" THEN "away" ELSE "holding"
        /\ LockPlace(stage[r]) = "waiting"
    BY <1>1 DEF SemPlace, LockPlace, Kinds, Completions
  <2> QED
    BY <2>1, Placed DEF Inv
<1>3. SemAt(r, s, "away")
  BY <1>2, ReleaseAt, SidecarAssumption DEF SemAt
<1>4. LockAt(r, Quit(lock, r), "away")
  BY <1>2, QuitAt DEF LockAt
<1>5. SemPlace(kind[r], "done") = "away" /\ LockPlace("done") = "away"
  BY DEF SemPlace, LockPlace
<1>6. kind' = [kind EXCEPT ![r] = kind[r]]
  BY DEF Inv, TypeInv
<1>7. Finish(r, "cancelled", s, Quit(lock, r))
  BY DEF CancelWaitingForLock
<1> QED
  BY <1>1, <1>3, <1>4, <1>5, <1>6, <1>7, Settled DEF Finish, Stages, Inv

-----------------------------------------------------------------------------
(* Types and stages                                                        *)

(* One handler's step, and what it must respect.                           *)
LEMMA HandlerStep ==
    ASSUME TypeInv, RequestInv, NEW r \in Requests,
           NEW k \in Kinds \cup {"none"}, NEW x \in Stages, NEW a \in 0..2,
           NEW w \in Replies, NEW g \in {"none", "alive", "left"},
           kind' = [kind EXCEPT ![r] = k], stage' = [stage EXCEPT ![r] = x],
           attempt' = [attempt EXCEPT ![r] = a], reply' = [reply EXCEPT ![r] = w],
           group' = [group EXCEPT ![r] = g],
           x \in {"sem", "prepare", "run", "cleanup"} => k \in Completions,
           x = "generate" => k = "image",
           x = "lock" => k \in Kinds,
           g = "alive" => x \in {"run", "cleanup"}
    PROVE  TypeInv' /\ RequestInv'
<1>1. TypeInv'
  BY DEF TypeInv
<1>2. /\ kind'[r] = k /\ stage'[r] = x /\ group'[r] = g
      /\ \A q \in Requests \ {r} :
            kind'[q] = kind[q] /\ stage'[q] = stage[q] /\ group'[q] = group[q]
  BY DEF TypeInv
<1> QED
  BY <1>1, <1>2 DEF RequestInv

(* Where a stretch that asks for the lock may end.                         *)
Ends(r, k) ==
    \E x \in Stages, w \in Replies :
        /\ stage' = [stage EXCEPT ![r] = x] /\ reply' = [reply EXCEPT ![r] = w]
        /\ x \notin {"run", "cleanup"}
        /\ x \in {"sem", "prepare"} => k \in Completions
        /\ x = "generate" => k = "image"

LEMMA GoEnds ==
    ASSUME TypeInv, NEW r \in Requests, NEW k, NEW x \in Stages \ {"run", "cleanup"},
           NEW s, NEW l, Go(r, x, s, l),
           x \in {"sem", "prepare"} => k \in Completions, x = "generate" => k = "image"
    PROVE  Ends(r, k)
<1>1. reply' = [reply EXCEPT ![r] = reply[r]] /\ reply[r] \in Replies
  BY DEF Go, TypeInv
<1> QED
  BY <1>1 DEF Go, Ends

LEMMA FinishEnds ==
    ASSUME NEW r \in Requests, NEW k, NEW how \in Replies, NEW s, NEW l,
           Finish(r, how, s, l)
    PROVE  Ends(r, k)
BY DEF Finish, Ends, Stages

LEMMA WithLockEnds ==
    ASSUME TypeInv, NEW r \in Requests, NEW k \in Kinds, NEW s, NEW l,
           WithLock(r, k, s, l)
    PROVE  Ends(r, k)
<1>1. CASE k = "image"
  BY <1>1, GoEnds DEF WithLock, Stages
<1>2. CASE k # "image"
  <2>1. k \in Completions
    BY <1>2 DEF Kinds
  <2> QED
    BY <1>2, <2>1, GoEnds, FinishEnds DEF WithLock, Stages, Replies
<1> QED
  BY <1>1, <1>2

LEMMA AskLockEnds ==
    ASSUME TypeInv, NEW r \in Requests, NEW k \in Kinds, NEW s, NEW l,
           AskLock(r, k, s, l)
    PROVE  Ends(r, k)
BY WithLockEnds, GoEnds DEF AskLock, Stages

(* Such a stretch respects everything if no group is alive.                *)
LEMMA EndsKeeps ==
    ASSUME TypeInv, RequestInv, NEW r \in Requests, NEW k \in Kinds \cup {"none"},
           Ends(r, k), stage'[r] = "lock" => k \in Kinds,
           NEW a \in 0..2, NEW g \in {"none", "left"},
           kind' = [kind EXCEPT ![r] = k], attempt' = [attempt EXCEPT ![r] = a],
           group' = [group EXCEPT ![r] = g]
    PROVE  TypeInv' /\ RequestInv'
<1>1. PICK x \in Stages, w \in Replies :
        /\ stage' = [stage EXCEPT ![r] = x] /\ reply' = [reply EXCEPT ![r] = w]
        /\ x \notin {"run", "cleanup"}
        /\ x \in {"sem", "prepare"} => k \in Completions
        /\ x = "generate" => k = "image"
  BY DEF Ends
<1>2. stage'[r] = x
  BY <1>1 DEF TypeInv
<1> QED
  BY <1>1, <1>2, HandlerStep

(* What a handler that does not change its kind or group leaves as it was. *)
LEMMA Same ==
    ASSUME TypeInv, NEW r \in Requests
    PROVE  /\ kind = [kind EXCEPT ![r] = kind[r]] /\ kind[r] \in Kinds \cup {"none"}
           /\ attempt = [attempt EXCEPT ![r] = attempt[r]] /\ attempt[r] \in 0..2
           /\ group = [group EXCEPT ![r] = group[r]]
           /\ group[r] \in {"none", "alive", "left"}
           /\ reply[r] \in Replies
BY DEF TypeInv

LEMMA ArriveHandler ==
    ASSUME Inv, NEW r \in Requests, Arrive(r)
    PROVE  TypeInv' /\ RequestInv'
<1>1. PICK k \in Kinds : kind' = [kind EXCEPT ![r] = k] /\ (Accept(r, k) \/ Refuse(r))
  BY DEF Arrive
<1>2. group[r] \in {"none", "left"} /\ group' = [group EXCEPT ![r] = group[r]]
  BY Same DEF Arrive, Inv, RequestInv
<1>3. CASE Accept(r, k)
  <2>1. Ends(r, k)
    BY <1>3, AskLockEnds, GoEnds DEF Accept, Stages, Kinds, Inv
  <2>2. attempt' = [attempt EXCEPT ![r] = 1]
    BY <1>3 DEF Accept
  <2>3. k \in Kinds \cup {"none"} /\ 1 \in 0..2
    OBVIOUS
  <2>4. TypeInv /\ RequestInv
    BY DEF Inv
  <2> QED
    BY <1>1, <1>2, <2>1, <2>2, <2>3, <2>4, EndsKeeps
<1>4. CASE Refuse(r)
  <2>1. Ends(r, k)
    BY <1>4, FinishEnds DEF Refuse, Replies
  <2>2. attempt' = [attempt EXCEPT ![r] = attempt[r]] /\ attempt[r] \in 0..2
    BY <1>4, Same DEF Refuse, Inv
  <2>3. k \in Kinds \cup {"none"}
    OBVIOUS
  <2>4. TypeInv /\ RequestInv
    BY DEF Inv
  <2> QED
    BY <1>1, <1>2, <2>1, <2>2, <2>3, <2>4, EndsKeeps
<1> QED
  BY <1>1, <1>3, <1>4

(* Waiting handlers have no live group.                                    *)
LEMMA ResumedHandler ==
    ASSUME Inv, NEW r \in Requests, SemResumed(r) \/ LockResumed(r)
    PROVE  TypeInv' /\ RequestInv'
<1>1. stage[r] \in {"sem", "lock"} /\ kind[r] \in Kinds
  BY DEF SemResumed, LockResumed, Inv, ResourceInv, Balanced, Members, SemWaiters,
         LockWaiters, RequestInv, Kinds
<1>2. group[r] \in {"none", "left"} /\ group' = [group EXCEPT ![r] = group[r]]
  BY <1>1, Same DEF SemResumed, LockResumed, Inv, RequestInv
<1>3. Ends(r, kind[r])
  BY <1>1, AskLockEnds, WithLockEnds DEF SemResumed, LockResumed, Inv
<1>4. /\ kind' = [kind EXCEPT ![r] = kind[r]] /\ kind[r] \in Kinds \cup {"none"}
      /\ attempt' = [attempt EXCEPT ![r] = attempt[r]] /\ attempt[r] \in 0..2
  BY Same DEF SemResumed, LockResumed, Inv
<1>5. TypeInv /\ RequestInv
  BY DEF Inv
<1> QED
  BY <1>1, <1>2, <1>3, <1>4, <1>5, EndsKeeps

(* A handler that ends, with its group gone, left, or never there.         *)
LEMMA FinishedHandler ==
    ASSUME Inv, NEW r \in Requests, NEW how \in Replies, NEW s, NEW l,
           Finish(r, how, s, l), UNCHANGED <<kind, attempt>>,
           NEW g \in {"none", "left"}, group' = [group EXCEPT ![r] = g]
    PROVE  TypeInv' /\ RequestInv'
<1>1. Ends(r, kind[r]) /\ stage'[r] = "done"
  BY FinishEnds DEF Finish, Inv, TypeInv
<1>2. /\ kind' = [kind EXCEPT ![r] = kind[r]] /\ kind[r] \in Kinds \cup {"none"}
      /\ attempt' = [attempt EXCEPT ![r] = attempt[r]] /\ attempt[r] \in 0..2
  BY Same DEF Inv
<1>3. TypeInv /\ RequestInv
  BY DEF Inv
<1> QED
  BY <1>1, <1>2, <1>3, EndsKeeps

LEMMA PreparedHandler ==
    ASSUME Inv, NEW r \in Requests, Prepared(r)
    PROVE  TypeInv' /\ RequestInv'
<1>1. kind[r] \in Completions /\ group[r] \in {"none", "left"}
  BY Same DEF Prepared, Inv, RequestInv
<1>2. CASE Go(r, "run", sem, lock) /\ group' = [group EXCEPT ![r] = "alive"]
  <2>1. reply' = [reply EXCEPT ![r] = reply[r]] /\ stage' = [stage EXCEPT ![r] = "run"]
    BY <1>2 DEF Go, Inv, TypeInv
  <2>2. kind' = [kind EXCEPT ![r] = kind[r]] /\ attempt' = [attempt EXCEPT ![r] = attempt[r]]
    BY Same DEF Prepared, Inv
  <2> QED
    BY <1>1, <1>2, <2>1, <2>2, Same, HandlerStep DEF Inv, Stages
<1>3. CASE Leaving(r, "error") /\ UNCHANGED group
  BY <1>1, <1>3, Same, FinishedHandler DEF Prepared, Leaving, Replies, Inv
<1> QED
  BY <1>2, <1>3 DEF Prepared

LEMMA RunEndsHandler ==
    ASSUME Inv, NEW r \in Requests, RunEnds(r)
    PROVE  TypeInv' /\ RequestInv'
<1>1. PICK g \in {"none", "left"} : group' = [group EXCEPT ![r] = g]
  BY DEF RunEnds
<1>2. ASSUME NEW how \in {"ok", "error"}, Leaving(r, how), UNCHANGED attempt
      PROVE  TypeInv' /\ RequestInv'
  <2>1. /\ Finish(r, how, Release(sem), Release(lock)) /\ how \in Replies
        /\ UNCHANGED <<kind, attempt>>
    BY <1>2 DEF RunEnds, Leaving, Replies
  <2> QED
    BY <1>1, <2>1, FinishedHandler
<1>3. CASE Repair(r) /\ attempt' = [attempt EXCEPT ![r] = 2]
  <2>1. kind[r] \in Kinds
    BY DEF RunEnds, Inv, RequestInv, Kinds
  <2>2. Ends(r, kind[r])
    BY <1>3, <2>1, AskLockEnds DEF Repair, Inv
  <2> QED
    <3>1. /\ kind' = [kind EXCEPT ![r] = kind[r]]
          /\ kind[r] \in Kinds \cup {"none"}
      BY Same DEF RunEnds, Inv
    <3>2. TypeInv /\ RequestInv /\ 2 \in 0..2
      BY DEF Inv
    <3> QED
      BY <1>1, <1>3, <2>1, <2>2, <3>1, <3>2, EndsKeeps
<1> QED
  BY <1>2, <1>3 DEF RunEnds

LEMMA BeginCleanupHandler ==
    ASSUME Inv, NEW r \in Requests, stage[r] = "run",
           NEW why \in Replies, BeginCleanup(r, why), UNCHANGED <<kind, attempt>>
    PROVE  TypeInv' /\ RequestInv'
<1>1. kind[r] \in Completions
  BY DEF Inv, RequestInv
<1>2. /\ stage' = [stage EXCEPT ![r] = "cleanup"] /\ reply' = [reply EXCEPT ![r] = why]
      /\ kind' = [kind EXCEPT ![r] = kind[r]]
      /\ attempt' = [attempt EXCEPT ![r] = attempt[r]]
      /\ group' = [group EXCEPT ![r] = group[r]]
  BY Same DEF BeginCleanup, Inv
<1> QED
  <2>1. /\ TypeInv /\ RequestInv /\ "cleanup" \in Stages
        /\ kind[r] \in Kinds \cup {"none"} /\ attempt[r] \in 0..2
        /\ group[r] \in {"none", "alive", "left"}
    BY Same DEF Inv, Stages
  <2> QED
    BY <1>1, <1>2, <2>1, HandlerStep

LEMMA CancelHandler ==
    ASSUME Inv, NEW r \in Requests, Cancel(r)
    PROVE  TypeInv' /\ RequestInv'
<1>1. CASE CancelRun(r)
  BY <1>1, BeginCleanupHandler DEF CancelRun, Cancel, Replies
<1>2. CASE ~ CancelRun(r)
  <2>1. /\ stage[r] \in {"sem", "lock", "prepare", "generate"}
        /\ UNCHANGED <<kind, attempt>>
        /\ \E s, l : Finish(r, "cancelled", s, l)
        /\ UNCHANGED group \/ \E g \in {"none", "left"} : group' = [group EXCEPT ![r] = g]
    BY <1>2 DEF Cancel, CancelWaitingForSem, CancelWaitingForLock, CancelPreparing,
                CancelGenerating, Leaving
  <2>2. \E g \in {"none", "left"} : group' = [group EXCEPT ![r] = g]
    <3>1. group[r] \in {"none", "left"}
      BY <2>1 DEF Inv, RequestInv, TypeInv
    <3> QED
      BY <2>1, <3>1, Same DEF Inv
  <2> QED
    BY <2>1, <2>2, FinishedHandler DEF Replies
<1> QED
  BY <1>1, <1>2

-----------------------------------------------------------------------------
(* The invariant                                                           *)

LEMMA InitInv == ASSUME SidecarAssumption PROVE Init => Inv
<1> SUFFICES ASSUME Init PROVE Inv
  OBVIOUS
<1>1. TypeInv /\ RequestInv
  BY DEF Init, TypeInv, RequestInv, Stages, Replies
<1>2. SemHolders = {} /\ SemWaiters = {} /\ LockHolders = {} /\ LockWaiters = {}
  BY DEF Init, SemHolders, SemWaiters, LockHolders, LockWaiters
<1>3. ResourceInv
  BY <1>2, UnusedBalanced, SidecarAssumption DEF Init, ResourceInv
<1> QED
  BY <1>1, <1>3 DEF Inv

(* Each step of a handler keeps it.                                        *)
LEMMA StepInv ==
    ASSUME SidecarAssumption, Inv, NEW r \in Requests,
           Arrive(r) \/ Serve(r) \/ Cancel(r)
    PROVE  Inv'
<1>1. CASE Arrive(r)
  BY <1>1, ArriveResources, ArriveHandler DEF Inv
<1>2. CASE SemResumed(r)
  BY <1>2, SemResumedResources, ResumedHandler DEF Inv
<1>3. CASE LockResumed(r)
  BY <1>3, LockResumedResources, ResumedHandler DEF Inv
<1>4. CASE Prepared(r)
  BY <1>4, PreparedResources, PreparedHandler DEF Inv
<1>5. CASE RunEnds(r)
  BY <1>5, RunEndsResources, RunEndsHandler DEF Inv
<1>6. CASE RunTimesOut(r)
  <2>1. ResourceInv'
    BY <1>6, RunnerStays DEF RunTimesOut, BeginCleanup
  <2>2. TypeInv' /\ RequestInv'
    BY <1>6, BeginCleanupHandler DEF RunTimesOut, Replies
  <2> QED
    BY <2>1, <2>2 DEF Inv
<1>7. CASE CleanupEnds(r)
  <2>1. ResourceInv'
    BY <1>7, RunnerHoldsBoth, LeavingSettles DEF CleanupEnds, Inv
  <2>2. TypeInv' /\ RequestInv'
    BY <1>7, Same, FinishedHandler DEF CleanupEnds, Leaving, Inv
  <2> QED
    BY <2>1, <2>2 DEF Inv
<1>8. CASE Generated(r)
  <2>1. PICK how \in {"ok", "error"} : Finish(r, how, sem, Release(lock))
    BY <1>8 DEF Generated
  <2>2. ResourceInv'
    BY <1>8, <2>1, GenerateEndsResources DEF Generated
  <2>3. group[r] \in {"none", "left"} /\ group' = [group EXCEPT ![r] = group[r]]
    BY <1>8, Same DEF Generated, Inv, RequestInv
  <2>4. TypeInv' /\ RequestInv'
    <3>1. how \in Replies /\ UNCHANGED <<kind, attempt>>
      BY <1>8 DEF Generated, Replies
    <3> QED
      BY <2>1, <2>3, <3>1, FinishedHandler
  <2> QED
    BY <2>2, <2>4 DEF Inv
<1>9. CASE Cancel(r)
  <2>1. ResourceInv'
    <3>1. CASE CancelWaitingForSem(r)
      BY <1>9, <3>1, CancelWaitingForSemResources DEF Cancel
    <3>2. CASE CancelWaitingForLock(r)
      BY <1>9, <3>2, CancelWaitingForLockResources DEF Cancel
    <3>3. CASE CancelPreparing(r)
      BY <1>9, <3>3, RunnerHoldsBoth, LeavingSettles DEF Cancel, CancelPreparing, Inv
    <3>4. CASE CancelRun(r)
      BY <1>9, <3>4, RunnerStays DEF Cancel, CancelRun, BeginCleanup
    <3>5. CASE CancelGenerating(r)
      BY <1>9, <3>5, GenerateEndsResources DEF Cancel, CancelGenerating
    <3> QED
      BY <1>9, <3>1, <3>2, <3>3, <3>4, <3>5 DEF Cancel
  <2> QED
    BY <1>9, <2>1, CancelHandler DEF Inv
<1> QED
  BY <1>1, <1>2, <1>3, <1>4, <1>5, <1>6, <1>7, <1>8, <1>9 DEF Serve

LEMMA NextInv == ASSUME SidecarAssumption PROVE Inv /\ [Next]_vars => Inv'
<1> SUFFICES ASSUME Inv, [Next]_vars PROVE Inv'
  OBVIOUS
<1>1. CASE Next
  BY <1>1, StepInv DEF Next
<1>2. CASE UNCHANGED vars
  BY <1>2 DEF vars, Inv, TypeInv, RequestInv, ResourceInv, SemHolders, SemWaiters,
              LockHolders, LockWaiters
<1> QED
  BY <1>1, <1>2

LEMMA Invariance == Spec => []Inv
BY SidecarAssumption, InitInv, NextInv, PTL DEF Spec

-----------------------------------------------------------------------------
(* The theorems of the sidecar by itself                                   *)

(* What a balanced resource of n permits looks like.                       *)
LEMMA BalancedShape ==
    ASSUME NEW s, NEW n \in Nat, NEW H, NEW W, Balanced(s, Requests, n, H, W)
    PROVE  /\ s \in Semaphores(Requests, n)
           /\ s.permits + Cardinality(s.woken) + Cardinality(H) = n
           /\ Cardinality(H) \in 0..n
<1>1. /\ s \in [permits : Nat, queue : Seq(Requests), woken : SUBSET Requests]
      /\ Cardinality(s.woken) \in Nat /\ Cardinality(H) \in Nat
  BY FS_CardinalityType DEF Balanced, WellFormed
<1>2. s.permits + Cardinality(s.woken) + Cardinality(H) = n
  BY <1>1 DEF Balanced, Spare
<1>3. s.permits \in 0..n /\ Cardinality(H) \in 0..n
  BY <1>1, <1>2
<1> QED
  BY <1>1, <1>2, <1>3 DEF Semaphores

LEMMA InvTypeOK == ASSUME SidecarAssumption, Inv PROVE SidecarTypeOK
BY BalancedShape, SidecarAssumption DEF Inv, TypeInv, ResourceInv, SidecarTypeOK

(* Types of the semaphore, the lock and the handlers' positions.           *)
THEOREM SidecarTypeCorrect == Spec => []SidecarTypeOK
BY SidecarAssumption, Invariance, InvTypeOK, PTL

(* Whatever fails, times out, is cancelled or repaired: no permit and no   *)
(* lock is lost or given back twice.                                       *)
THEOREM PermitsAndLockConserved == Spec => []NothingLeaks
<1>1. ASSUME SidecarAssumption, Inv PROVE NothingLeaks
  BY <1>1, BalancedShape, SidecarAssumption DEF Inv, ResourceInv, NothingLeaks
<1> QED
  BY <1>1, SidecarAssumption, Invariance, PTL

(* At most one live run or image generation uses the credential.           *)
THEOREM CredentialHasOneUser == Spec => []CredentialSerialized
<1>1. ASSUME Inv PROVE CredentialSerialized
  <2> DEFINE Users == {r \in Requests : group[r] = "alive" \/ stage[r] = "generate"}
  <2>1. Users \subseteq LockHolders
    BY <1>1 DEF Inv, RequestInv, LockHolders
  <2>2. IsFiniteSet(LockHolders) /\ Cardinality(LockHolders) \in 0..1
    BY <1>1, BalancedShape DEF Inv, ResourceInv, Balanced
  <2>3. IsFiniteSet(Users) /\ Cardinality(Users) <= Cardinality(LockHolders)
    BY <2>1, <2>2, FS_Subset
  <2>4. Cardinality(Users) \in Nat
    BY <2>3, FS_CardinalityType
  <2> HIDE DEF Users
  <2>5. Cardinality(Users) <= 1
    BY <2>2, <2>3, <2>4
  <2> QED
    BY <2>5 DEF CredentialSerialized, Users
<1> QED
  BY <1>1, Invariance, PTL

(* No free permit is overlooked, and the queues hold exactly those who     *)
(* wait.                                                                   *)
THEOREM NobodyIsForgotten == Spec => []NobodyForgotten
<1>1. ASSUME Inv PROVE NobodyForgotten
  BY <1>1 DEF Inv, ResourceInv, Balanced, NoIdlePermit, Members, SemWaiters, LockWaiters,
         NobodyForgotten
<1> QED
  BY <1>1, Invariance, PTL

-----------------------------------------------------------------------------
(* In time                                                                 *)

(* How far a step of a handler can take it.                                *)
LEMMA ArriveMoves ==
    ASSUME TypeInv, NEW r \in Requests, Arrive(r)
    PROVE  /\ stage[r] = "idle" /\ stage' = [stage EXCEPT ![r] = stage'[r]]
           /\ stage'[r] \in {"sem", "lock", "prepare", "generate", "done"}
           /\ \E k \in Kinds : kind' = [kind EXCEPT ![r] = k]
<1>1. PICK k \in Kinds : kind' = [kind EXCEPT ![r] = k] /\ (Accept(r, k) \/ Refuse(r))
  BY DEF Arrive
<1> QED
  BY <1>1 DEF TypeInv, Arrive, Accept, Refuse, AskLock, WithLock, Go, Finish

LEMMA ServeMoves ==
    ASSUME Inv, NEW r \in Requests, Serve(r)
    PROVE  /\ stage[r] \notin {"idle", "done"} /\ kind' = kind
           /\ stage' = [stage EXCEPT ![r] = stage'[r]] /\ stage'[r] \in Stages \ {"idle", "sem"}
           /\ stage'[r] = "run" => stage[r] = "prepare"
           /\ stage'[r] = "cleanup" => stage[r] = "run"
           /\ stage'[r] = "prepare" => stage[r] \in {"sem", "lock"} \/ attempt'[r] = 2
<1>1. CASE SemResumed(r) \/ LockResumed(r)
  <2>1. stage[r] \in {"sem", "lock"}
    BY <1>1 DEF SemResumed, LockResumed, Inv, ResourceInv, Balanced, Members,
       SemWaiters, LockWaiters
  <2> QED
    BY <1>1, <2>1
    DEF Inv, TypeInv, SemResumed, LockResumed, AskLock, WithLock, Go, Finish, Stages
<1>2. CASE RunEnds(r)
  BY <1>2 DEF Inv, TypeInv, RunEnds, Leaving, Repair, AskLock, WithLock, Go, Finish, Stages
<1>3. CASE Prepared(r) \/ RunTimesOut(r) \/ CleanupEnds(r) \/ Generated(r)
  BY <1>3
  DEF Inv, TypeInv, Prepared, RunTimesOut, CleanupEnds, Generated, Leaving, BeginCleanup,
      Go, Finish, Stages
<1> QED
  BY <1>1, <1>2, <1>3 DEF Serve

ClockTypes ==
    /\ call \in [Requests -> Calls]
    /\ age \in [Requests -> 0..ProviderTimeout]
    /\ spent \in [Requests -> Nat]
    /\ delayed \subseteq Requests

(* The clocks of r agree with its stage.                                   *)
ClocksAgree(r) ==
    /\ (call[r] = "none") <=> (stage[r] = "idle")
    /\ call[r] # "open" => age[r] = 0
    /\ call[r] = "open" => stage[r] # "done"
    /\ stage[r] \in Bounded => spent[r] <= Limit(stage[r])
    /\ stage[r] \in {"sem", "lock"} => r \in delayed

(* How long the call of an undelayed completion can have been open.        *)
OnTime(r) ==
    kind[r] \in Completions /\ r \notin delayed =>
        /\ call[r] # "abandoned"
        /\ call[r] = "open" =>
            /\ stage[r] = "prepare" => age[r] = 0
            /\ stage[r] = "run" => age[r] <= spent[r]
            /\ stage[r] = "cleanup" => age[r] <= CodexTimeout + spent[r]

TimedInv ==
    /\ Inv
    /\ ClockTypes
    /\ \A r \in Requests : ClocksAgree(r) /\ OnTime(r)

LEMMA LimitsAreNumbers ==
    ASSUME DeadlinesAssumption
    PROVE  /\ Limit("prepare") = FetchTime /\ Limit("run") = CodexTimeout
           /\ Limit("cleanup") = CleanupTime /\ Limit("generate") = GenerateTime
           /\ \A w \in Bounded : Limit(w) \in Nat
BY DEF DeadlinesAssumption, Limit, Bounded

LEMMA InitTimed ==
    ASSUME SidecarAssumption, DeadlinesAssumption, TimedInit
    PROVE  TimedInv
<1>1. Inv
  BY InitInv DEF TimedInit
<1>2. ClockTypes
  BY DEF TimedInit, ClockTypes, Calls, DeadlinesAssumption
<1>3. ASSUME NEW r \in Requests PROVE ClocksAgree(r) /\ OnTime(r)
  BY <1>3 DEF TimedInit, Init, ClocksAgree, OnTime, Bounded, Completions
<1> QED
  BY <1>1, <1>2, <1>3 DEF TimedInv

(* Other handlers and their clocks are not touched by a step of r.         *)
LEMMA OthersKeepTime ==
    ASSUME TimedInv, NEW r \in Requests, NEW q \in Requests, q # r,
           stage'[q] = stage[q], kind'[q] = kind[q], call'[q] = call[q],
           age'[q] = age[q], spent'[q] = spent[q],
           q \in delayed' <=> q \in delayed
    PROVE  ClocksAgree(q)' /\ OnTime(q)'
BY DEF TimedInv, ClocksAgree, OnTime

(* The clocks after a step of r's handler.                                 *)
LEMMA Stamped ==
    ASSUME TimedInv, DeadlinesAssumption, NEW r \in Requests,
           NEW c \in Calls \ {"none"}, Stamp(r, c),
           stage' = [stage EXCEPT ![r] = stage'[r]], stage'[r] # "idle",
           NEW k, kind' = [kind EXCEPT ![r] = k],
           c # "open" => age[r] = 0
    PROVE  /\ ClockTypes' /\ ClocksAgree(r)'
           /\ \A q \in Requests : q # r => ClocksAgree(q)' /\ OnTime(q)'
           /\ call'[r] \in {c, "answered"} /\ spent'[r] = 0 /\ delayed \subseteq delayed'
           /\ age'[r] # 0 => age'[r] = age[r]
           /\ stage'[r] \in {"sem", "lock"} \/ attempt'[r] = 2 => r \in delayed'
<1>1. /\ ClockTypes /\ Inv
      /\ stage \in [Requests -> Stages] /\ kind \in [Requests -> Kinds \cup {"none"}]
  BY DEF TimedInv, Inv, TypeInv
<1> DEFINE over == stage'[r] = "done" /\ c = "open"
<1>2. /\ call' = [call EXCEPT ![r] = IF over THEN "answered" ELSE c]
      /\ age' = IF over THEN [age EXCEPT ![r] = 0] ELSE age
      /\ spent' = [spent EXCEPT ![r] = 0]
      /\ delayed' = IF stage'[r] \in {"sem", "lock"} \/ attempt'[r] = 2
                    THEN delayed \cup {r} ELSE delayed
  BY DEF Stamp
<1>3. ClockTypes'
  BY <1>1, <1>2 DEF ClockTypes, Calls, DeadlinesAssumption
<1>4. ASSUME NEW q \in Requests, q # r
      PROVE  ClocksAgree(q)' /\ OnTime(q)'
  <2>1. /\ stage'[q] = stage[q] /\ kind'[q] = kind[q] /\ call'[q] = call[q]
        /\ age'[q] = age[q] /\ spent'[q] = spent[q] /\ (q \in delayed' <=> q \in delayed)
    BY <1>1, <1>2, <1>4 DEF ClockTypes
  <2> QED
    BY <1>4, <2>1, OthersKeepTime
<1>5. /\ call'[r] = IF over THEN "answered" ELSE c
      /\ age'[r] = IF over THEN 0 ELSE age[r]
      /\ spent'[r] = 0
  BY <1>1, <1>2 DEF ClockTypes
<1>6. ClocksAgree(r)'
  <2>1. stage'[r] \in Bounded => Limit(stage'[r]) \in Nat
    BY LimitsAreNumbers
  <2> QED
    BY <1>2, <1>5, <2>1 DEF ClocksAgree, Calls
<1> QED
  BY <1>2, <1>3, <1>4, <1>5, <1>6

LEMMA PostTimed ==
    ASSUME SidecarAssumption, DeadlinesAssumption, TimedInv, NEW r \in Requests, Post(r)
    PROVE  TimedInv'
<1>1. Inv /\ TypeInv /\ Arrive(r) /\ Stamp(r, "open") /\ Inv'
  BY StepInv DEF Post, TimedInv, Inv
<1>2. /\ stage' = [stage EXCEPT ![r] = stage'[r]]
      /\ stage[r] = "idle" /\ stage'[r] \in {"sem", "lock", "prepare", "generate", "done"}
  BY <1>1, ArriveMoves
<1>3. PICK k \in Kinds : kind' = [kind EXCEPT ![r] = k]
  BY <1>1, ArriveMoves
<1>4. age[r] = 0 /\ age \in [Requests -> 0..ProviderTimeout]
  BY <1>2 DEF TimedInv, ClocksAgree, ClockTypes
<1>5. "open" \in Calls \ {"none"} /\ stage'[r] # "idle"
  BY <1>2 DEF Calls
<1>6. /\ ClockTypes' /\ ClocksAgree(r)'
      /\ \A q \in Requests : q # r => ClocksAgree(q)' /\ OnTime(q)'
      /\ call'[r] \in {"open", "answered"}
      /\ age'[r] # 0 => age'[r] = age[r]
  BY <1>1, <1>2, <1>3, <1>4, <1>5, Stamped
<1>7. OnTime(r)'
  BY <1>2, <1>4, <1>6 DEF OnTime
<1> QED
  BY <1>1, <1>6, <1>7 DEF TimedInv

LEMMA WorkTimed ==
    ASSUME SidecarAssumption, DeadlinesAssumption, TimedInv, NEW r \in Requests, Work(r)
    PROVE  TimedInv'
<1>1. Inv /\ Serve(r) /\ Stamp(r, call[r]) /\ Inv'
  BY StepInv DEF Work, TimedInv
<1>2. /\ stage[r] \notin {"idle", "done"} /\ kind' = kind
      /\ stage' = [stage EXCEPT ![r] = stage'[r]] /\ stage'[r] \in Stages \ {"idle", "sem"}
      /\ stage'[r] = "run" => stage[r] = "prepare"
      /\ stage'[r] = "cleanup" => stage[r] = "run"
      /\ stage'[r] = "prepare" => stage[r] \in {"sem", "lock"} \/ attempt'[r] = 2
  BY <1>1, ServeMoves
<1>3. kind' = [kind EXCEPT ![r] = kind[r]]
  BY <1>1, <1>2, Same DEF Inv
<1>4. /\ ClockTypes /\ ClocksAgree(r) /\ OnTime(r)
      /\ call[r] \in Calls \ {"none"} /\ (call[r] # "open" => age[r] = 0)
  BY <1>2 DEF TimedInv, ClocksAgree, ClockTypes
<1>5. /\ ClockTypes' /\ ClocksAgree(r)'
      /\ \A q \in Requests : q # r => ClocksAgree(q)' /\ OnTime(q)'
      /\ call'[r] \in {call[r], "answered"} /\ spent'[r] = 0 /\ delayed \subseteq delayed'
      /\ age'[r] # 0 => age'[r] = age[r]
      /\ stage'[r] \in {"sem", "lock"} \/ attempt'[r] = 2 => r \in delayed'
  BY <1>1, <1>2, <1>3, <1>4, Stamped
<1>6. OnTime(r)'
  <2> SUFFICES ASSUME kind[r] \in Completions, r \notin delayed'
               PROVE  /\ call'[r] # "abandoned"
                      /\ call'[r] = "open" =>
                          /\ stage'[r] = "prepare" => age'[r] = 0
                          /\ stage'[r] = "run" => age'[r] <= spent'[r]
                          /\ stage'[r] = "cleanup" => age'[r] <= CodexTimeout + spent'[r]
    BY <1>2 DEF OnTime
  <2>1. r \notin delayed /\ attempt'[r] # 2 /\ stage[r] \notin {"sem", "lock"}
    BY <1>4, <1>5 DEF ClocksAgree
  <2>2. stage'[r] # "prepare"
    BY <1>2, <2>1
  <2>3. call[r] # "abandoned" /\ call'[r] # "abandoned"
    BY <1>4, <1>5, <2>1 DEF OnTime
  <2>4. CASE call'[r] = "open"
    <3>1. call[r] = "open"
      BY <1>5, <2>4
    <3>2. CASE stage'[r] = "run"
      BY <1>2, <1>4, <1>5, <2>1, <2>2, <3>1, <3>2 DEF OnTime
    <3>3. CASE stage'[r] = "cleanup"
      <4>1. spent[r] = CodexTimeout /\ stage[r] = "run" /\ CodexTimeout \in Nat
        BY <1>2, <3>3, LimitsAreNumbers DEF Work, DeadlinesAssumption
      <4>2. age[r] <= CodexTimeout
        BY <2>1, <3>1, <4>1, <1>4 DEF OnTime
      <4> QED
        BY <1>5, <2>2, <2>3, <3>3, <4>1, <4>2
    <3> QED
      BY <2>2, <2>3, <3>2, <3>3
  <2> QED
    BY <2>3, <2>4
<1> QED
  BY <1>1, <1>5, <1>6 DEF TimedInv

(* An undelayed completion is answered before the gateway could give up.   *)
LEMMA AbandonTimed ==
    ASSUME SidecarAssumption, DeadlinesAssumption, TimedInv, NEW r \in Requests, Abandon(r)
    PROVE  TimedInv'
<1>1. /\ call[r] = "open" /\ age[r] = ProviderTimeout
      /\ call' = [call EXCEPT ![r] = "abandoned"] /\ age' = [age EXCEPT ![r] = 0]
      /\ UNCHANGED <<vars, spent, delayed>>
  BY DEF Abandon
<1>2. Inv /\ ClockTypes /\ ClocksAgree(r) /\ OnTime(r) /\ TypeInv /\ RequestInv
  BY DEF TimedInv, Inv
<1>3. Inv'
  BY <1>1, <1>2, SidecarAssumption, NextInv
<1>4. ClockTypes' /\ call'[r] = "abandoned" /\ age'[r] = 0
  BY <1>1, <1>2 DEF ClockTypes, Calls, DeadlinesAssumption
<1>5. \A q \in Requests : q # r => ClocksAgree(q)' /\ OnTime(q)'
  BY <1>1, <1>2, OthersKeepTime DEF vars, ClockTypes
<1>6. ClocksAgree(r)'
  BY <1>1, <1>2, <1>4 DEF vars, ClocksAgree
<1>7. ~ (kind[r] \in Completions /\ r \notin delayed)
  <2> SUFFICES ASSUME kind[r] \in Completions, r \notin delayed
               PROVE  FALSE
    OBVIOUS
  <2>1. stage[r] \in {"prepare", "run", "cleanup"}
    <3>1. stage[r] \in Stages /\ stage[r] \notin {"idle", "done", "sem", "lock"}
      BY <1>1, <1>2 DEF ClocksAgree, TypeInv
    <3>2. stage[r] # "generate"
      BY <1>2 DEF RequestInv, Completions
    <3> QED
      BY <3>1, <3>2 DEF Stages
  <2>2. /\ ProviderTimeout \in Nat /\ CodexTimeout \in Nat /\ CleanupTime \in Nat
        /\ ProviderTimeout > CodexTimeout + CleanupTime /\ spent[r] \in Nat
    BY <1>2 DEF DeadlinesAssumption, ClockTypes
  <2>3. /\ stage[r] = "run" => spent[r] <= CodexTimeout
        /\ stage[r] = "cleanup" => spent[r] <= CleanupTime
    BY <1>2, LimitsAreNumbers DEF ClocksAgree, Bounded
  <2>4. /\ stage[r] = "prepare" => age[r] = 0
        /\ stage[r] = "run" => age[r] <= spent[r]
        /\ stage[r] = "cleanup" => age[r] <= CodexTimeout + spent[r]
    BY <1>1, <1>2 DEF OnTime
  <2> QED
    BY <1>1, <2>1, <2>2, <2>3, <2>4
<1>8. OnTime(r)'
  BY <1>1, <1>7 DEF vars, OnTime
<1> QED
  BY <1>3, <1>4, <1>5, <1>6, <1>8 DEF TimedInv

LEMMA TickTimed ==
    ASSUME SidecarAssumption, DeadlinesAssumption, TimedInv, Tick
    PROVE  TimedInv'
<1>1. /\ UNCHANGED <<vars, call>>
      /\ delayed' = delayed \cup {r \in Requests : stage[r] = "prepare"}
      /\ age' = [r \in Requests |-> IF call[r] = "open" THEN age[r] + 1 ELSE age[r]]
      /\ spent' = [r \in Requests |-> IF stage[r] \in Bounded \cup {"lock"}
                                      THEN spent[r] + 1 ELSE spent[r]]
  BY DEF Tick
<1>2. /\ \A r \in Requests : stage[r] \in Bounded => spent[r] < Limit(stage[r])
      /\ \A r \in Requests : call[r] = "open" => age[r] < ProviderTimeout
  BY DEF Tick
<1>3. ClockTypes /\ ProviderTimeout \in Nat
  BY DEF TimedInv, DeadlinesAssumption
<1>4. Inv'
  BY <1>1, SidecarAssumption, NextInv DEF TimedInv
<1>5. ClockTypes'
  <2>1. ASSUME NEW r \in Requests
        PROVE  (IF call[r] = "open" THEN age[r] + 1 ELSE age[r]) \in 0..ProviderTimeout
    BY <1>2, <1>3 DEF ClockTypes
  <2>2. age' \in [Requests -> 0..ProviderTimeout]
    BY <1>1, <2>1
  <2>3. spent' \in [Requests -> Nat]
    BY <1>1, <1>3 DEF ClockTypes
  <2> QED
    BY <1>1, <1>3, <2>2, <2>3 DEF ClockTypes
<1>6. ASSUME NEW r \in Requests
      PROVE  ClocksAgree(r)' /\ OnTime(r)'
  <2>1. /\ ClocksAgree(r) /\ OnTime(r)
        /\ spent[r] \in Nat /\ age[r] \in 0..ProviderTimeout
        /\ stage' = stage /\ kind' = kind /\ call' = call
    BY <1>1, <1>3 DEF TimedInv, ClockTypes, vars
  <2>2. /\ age'[r] = IF call[r] = "open" THEN age[r] + 1 ELSE age[r]
        /\ spent'[r] = IF stage[r] \in Bounded \cup {"lock"} THEN spent[r] + 1 ELSE spent[r]
        /\ r \in delayed' <=> (r \in delayed \/ stage[r] = "prepare")
    BY <1>1
  <2>3. ClocksAgree(r)'
    <3>1. stage[r] \in Bounded => Limit(stage[r]) \in Nat
      BY LimitsAreNumbers
    <3> QED
      BY <1>2, <2>1, <2>2, <3>1 DEF ClocksAgree
  <2>4. OnTime(r)'
    BY <2>1, <2>2 DEF OnTime, Bounded, DeadlinesAssumption
  <2> QED
    BY <2>3, <2>4
<1> QED
  BY <1>4, <1>5, <1>6 DEF TimedInv

-----------------------------------------------------------------------------
(* The wait for the lock                                                   *)

Images == {r \in Requests : kind[r] = "image"}

(* Requests get their kind when they arrive.                               *)
ArrivalInv ==
    /\ IsFiniteSet(Images)
    /\ \A r \in Requests : stage[r] = "idle" => kind[r] = "none"

(* The ticks that h may still have the lock.                               *)
Rest(h) ==
    CASE stage[h] = "prepare"  -> FetchTime - spent[h] + CodexTimeout + CleanupTime
      [] stage[h] = "run"      -> CodexTimeout - spent[h] + CleanupTime
      [] stage[h] = "cleanup"  -> CleanupTime - spent[h]
      [] stage[h] = "generate" -> GenerateTime - spent[h]

Turns(n) == n * Tenure

(* If the lock changes hands in x ticks, everybody in the queue q, who has *)
(* waited for g so far, has it within b ticks of waiting.                  *)
Within(q, g, x, b) == \A i \in 1..Len(q) : g[q[i]] + x + Turns(i - 1) <= b

LockTimes ==
    /\ lock.woken # {} => Within(lock.queue, spent, Tenure, Turns(Contenders))
    /\ \A h \in LockHolders : Within(lock.queue, spent, Rest(h), Turns(Contenders))
    /\ \A w \in lock.woken : spent[w] <= Turns(Contenders)

LockInv == TimedInv /\ ArrivalInv /\ LockTimes

(* Numbers.                                                                *)
LEMMA ProductIsMonotone ==
    ASSUME NEW a \in Nat, NEW b \in Nat, NEW m \in Nat, a <= b
    PROVE  a * m <= b * m /\ a * m \in Nat
OBVIOUS

LEMMA TenureCovers ==
    ASSUME DeadlinesAssumption
    PROVE  /\ Tenure \in Nat
           /\ FetchTime + CodexTimeout + CleanupTime <= Tenure
           /\ GenerateTime <= Tenure
BY DEF DeadlinesAssumption, Tenure

LEMMA TurnsAddUp ==
    ASSUME DeadlinesAssumption, NEW n \in Nat
    PROVE  /\ Turns(n) \in Nat
           /\ Turns(n + 1) = Turns(n) + Tenure
           /\ Turns(0) = 0
           /\ \A m \in Nat : m <= n => Turns(m) <= Turns(n)
<1>1. Tenure \in Nat
  BY TenureCovers
<1>2. \A m \in Nat : m <= n => m * Tenure <= n * Tenure
  BY <1>1, ProductIsMonotone
<1>3. (n + 1) * Tenure = n * Tenure + Tenure /\ n * Tenure \in Nat /\ 0 * Tenure = 0
  BY <1>1
<1> QED
  BY <1>2, <1>3 DEF Turns

(* The queue stays as it is, and the lock changes hands no later.          *)
LEMMA WithinKept ==
    ASSUME DeadlinesAssumption, NEW q \in Seq(Requests),
           NEW g \in [Requests -> Nat], NEW f \in [Requests -> Nat],
           \A i \in 1..Len(q) : f[q[i]] = g[q[i]],
           NEW x \in Int, NEW y \in Int, y <= x,
           NEW b \in Int, NEW c \in Int, b <= c, Within(q, g, x, b)
    PROVE  Within(q, f, y, c)
<1> SUFFICES ASSUME NEW i \in 1..Len(q)
             PROVE  f[q[i]] + y + Turns(i - 1) <= c
  BY DEF Within
<1>1. g[q[i]] + x + Turns(i - 1) <= b /\ f[q[i]] = g[q[i]] /\ g[q[i]] \in Nat
  BY DEF Within
<1>2. Turns(i - 1) \in Nat
  <2>1. i - 1 \in Nat
    OBVIOUS
  <2> QED
    BY <2>1, TurnsAddUp
<1> QED
  BY <1>1, <1>2

(* The first in line gets the lock, and has it no longer than a tenure.    *)
LEMMA WithinMoved ==
    ASSUME DeadlinesAssumption, NEW q \in Seq(Requests), q # <<>>,
           NEW g \in [Requests -> Nat], NEW x \in Nat, NEW b \in Int, Within(q, g, x, b)
    PROVE  Within(Tail(q), g, Tenure, b) /\ g[Head(q)] <= b
<1>1. Len(q) \in Nat /\ Len(q) >= 1 /\ Len(Tail(q)) = Len(q) - 1 /\ Head(q) = q[1]
  OBVIOUS
<1>2. g[Head(q)] <= b
  <2>1. g[q[1]] + x + Turns(1 - 1) <= b /\ Turns(1 - 1) = 0 /\ g[q[1]] \in Nat
    BY <1>1, TurnsAddUp DEF Within
  <2> QED
    BY <1>1, <2>1
<1>3. ASSUME NEW i \in 1..Len(Tail(q))
      PROVE  g[Tail(q)[i]] + Tenure + Turns(i - 1) <= b
  <2>1. Tail(q)[i] = q[i + 1] /\ i + 1 \in 1..Len(q) /\ g[q[i + 1]] \in Nat
    BY <1>1, <1>3
  <2>2. g[q[i + 1]] + x + Turns((i + 1) - 1) <= b
    BY <2>1 DEF Within
  <2>3. i - 1 \in Nat /\ (i - 1) + 1 = (i + 1) - 1
    BY <1>1, <1>3
  <2>4. /\ Turns((i - 1) + 1) = Turns(i - 1) + Tenure
        /\ Turns(i - 1) \in Nat /\ Tenure \in Nat
    BY <2>3, TurnsAddUp, TenureCovers
  <2> QED
    BY <2>1, <2>2, <2>3, <2>4
<1> QED
  BY <1>2, <1>3 DEF Within

(* Somebody joins the queue, and no more than n are in it.                 *)
LEMMA WithinJoined ==
    ASSUME DeadlinesAssumption, NEW q \in Seq(Requests), NEW r \in Requests,
           NEW f \in [Requests -> Nat], f[r] = 0,
           NEW x \in Int, x <= Tenure,
           NEW n \in Nat, Len(q) + 1 <= n, Within(q, f, x, Turns(n))
    PROVE  Within(Append(q, r), f, x, Turns(n))
<1> SUFFICES ASSUME NEW i \in 1..Len(Append(q, r))
             PROVE  f[Append(q, r)[i]] + x + Turns(i - 1) <= Turns(n)
  BY DEF Within
<1>1. Len(q) \in Nat /\ i \in 1..(Len(q) + 1)
  OBVIOUS
<1>2. CASE i \in 1..Len(q)
  BY <1>1, <1>2 DEF Within
<1>3. CASE i = Len(q) + 1
  <2>1. Append(q, r)[i] = r /\ i - 1 = Len(q)
    BY <1>1, <1>3
  <2>2. /\ Turns(Len(q) + 1) = Turns(Len(q)) + Tenure
        /\ Turns(Len(q) + 1) <= Turns(n)
        /\ Turns(Len(q)) \in Nat /\ Turns(n) \in Nat /\ Turns(Len(q) + 1) \in Nat
        /\ Tenure \in Nat
    BY <1>1, TurnsAddUp, TenureCovers
  <2> QED
    BY <2>1, <2>2
<1> QED
  BY <1>1, <1>2, <1>3

(* One handler at a time has the lock or is about to get it, and if nobody *)
(* is then nobody waits.                                                   *)
LEMMA OneAtATime ==
    ASSUME Inv
    PROVE  /\ lock.queue \in Seq(Requests) /\ lock.permits \in Nat
           /\ lock.woken \subseteq Requests
           /\ \A w \in lock.woken :
                lock.woken = {w} /\ LockHolders = {} /\ lock.permits = 0
           /\ \A h \in LockHolders :
                LockHolders = {h} /\ lock.woken = {} /\ lock.permits = 0
           /\ lock.queue # <<>> => lock.woken # {} \/ LockHolders # {}
           /\ \A r \in Requests :
                stage[r] = "lock" <=> (r \in Waiting(lock) \/ r \in lock.woken)
<1>1. /\ WellFormed(lock, Requests) /\ NoIdlePermit(lock) /\ IsFiniteSet(LockHolders)
      /\ Spare(lock) + Cardinality(LockHolders) = 1 /\ Members(lock) = LockWaiters
  BY DEF Inv, ResourceInv, Balanced
<1>2. /\ lock.queue \in Seq(Requests) /\ lock.permits \in Nat
      /\ lock.woken \subseteq Requests /\ IsFiniteSet(lock.woken)
  BY <1>1 DEF WellFormed
<1>3. /\ Cardinality(lock.woken) \in Nat /\ Cardinality(LockHolders) \in Nat
      /\ lock.permits + Cardinality(lock.woken) + Cardinality(LockHolders) = 1
  BY <1>1, <1>2, FS_CardinalityType DEF Spare
<1>4. ASSUME NEW S, IsFiniteSet(S), NEW e \in S
      PROVE  /\ Cardinality(S) >= 1
             /\ Cardinality(S) = 1 => S = {e}
  <2>1. Cardinality(S) \in Nat /\ Cardinality(S) # 0
    BY <1>4, FS_CardinalityType, FS_EmptySet
  <2>2. Cardinality(S) = 1 => S = {e}
    BY <1>4, FS_Singleton
  <2> QED
    BY <2>1, <2>2
<1>5. ASSUME NEW w \in lock.woken
      PROVE  lock.woken = {w} /\ LockHolders = {} /\ lock.permits = 0
  <2>1. Cardinality(lock.woken) = 1 /\ Cardinality(LockHolders) = 0 /\ lock.permits = 0
    BY <1>2, <1>3, <1>4, <1>5
  <2> QED
    BY <1>1, <1>2, <1>4, <1>5, <2>1, FS_EmptySet
<1>6. ASSUME NEW h \in LockHolders
      PROVE  LockHolders = {h} /\ lock.woken = {} /\ lock.permits = 0
  <2>1. Cardinality(LockHolders) >= 1
    BY <1>1, <1>4, <1>6
  <2>2. Cardinality(LockHolders) = 1 /\ Cardinality(lock.woken) = 0 /\ lock.permits = 0
    BY <1>2, <1>3, <2>1
  <2> QED
    BY <1>1, <1>2, <1>4, <1>6, <2>2, FS_EmptySet
<1>7. ASSUME lock.queue # <<>>, lock.woken = {}, LockHolders = {}
      PROVE  FALSE
  <2>1. Cardinality(lock.woken) = 0 /\ Cardinality(LockHolders) = 0
    BY <1>7, FS_EmptySet
  <2>2. lock.permits > 0
    BY <1>2, <1>3, <2>1
  <2> QED
    BY <1>1, <1>7, <2>2 DEF NoIdlePermit
<1>8. \A r \in Requests : stage[r] = "lock" <=> (r \in Waiting(lock) \/ r \in lock.woken)
  BY <1>1 DEF Members, LockWaiters
<1> QED
  BY <1>2, <1>5, <1>6, <1>7, <1>8

(* The queue for the lock is no longer than Contenders says: whoever is in *)
(* it, about to get it or has it has a permit of the semaphore or is an    *)
(* image generation.                                                       *)
LEMMA QueueFits ==
    Inv /\ ArrivalInv => Len(lock.queue) <= Contenders /\ Contenders \in Nat
<1> SUFFICES ASSUME Inv, ArrivalInv
             PROVE  Len(lock.queue) <= Contenders /\ Contenders \in Nat
  OBVIOUS
<1> DEFINE Q == Waiting(lock)
           One == lock.woken \cup LockHolders
<1>1. /\ WellFormed(lock, Requests) /\ IsFiniteSet(LockHolders)
      /\ Members(lock) = LockWaiters
      /\ IsFiniteSet(SemHolders) /\ Spare(sem) + Cardinality(SemHolders) = MaxConcurrency
      /\ WellFormed(sem, Requests)
  BY DEF Inv, ResourceInv, Balanced
<1>2. /\ lock.queue \in Seq(Requests) /\ Len(lock.queue) \in Nat
      /\ IsFiniteSet(lock.woken)
      /\ \A i \in 1..Len(lock.queue) : lock.queue[i] \notin lock.woken
      /\ \A i, j \in 1..Len(lock.queue) : lock.queue[i] = lock.queue[j] => i = j
  BY <1>1 DEF WellFormed
<1>3. IsFiniteSet(Q) /\ Cardinality(Q) = Len(lock.queue)
  <2> DEFINE I == 1..Len(lock.queue)
             f == [i \in I |-> lock.queue[i]]
  <2>1. ExistsBijection(I, Q)
    <3>1. f \in [I -> Q] /\ \A t \in Q : \E i \in I : f[i] = t
      BY DEF Waiting
    <3>2. IsInjective(f)
      BY <1>2 DEF IsInjective
    <3> QED
      BY <3>1, <3>2 DEF ExistsBijection, Bijection, Injection, Surjection
  <2>2. IsFiniteSet(1..Len(lock.queue)) /\ Cardinality(1..Len(lock.queue)) = Len(lock.queue)
    BY <1>2, FS_Interval
  <2> QED
    BY <2>1, <2>2, FS_Bijection
<1>4. /\ Images \in SUBSET Requests /\ IsFiniteSet(Images) /\ Cardinality(Images) \in Nat
      /\ Cardinality(SemHolders) \in Nat /\ Cardinality(SemHolders) <= MaxConcurrency
      /\ MaxConcurrency \in Nat \ {0}
  <2>1. Spare(sem) \in Nat
    BY <1>1, FS_CardinalityType DEF Spare, WellFormed
  <2> QED
    BY <1>1, <2>1, FS_CardinalityType, SidecarAssumption
    DEF ArrivalInv, SidecarAssumption, Images
<1>5. Contenders \in Nat /\ Contenders = MaxConcurrency - 1 + Cardinality(Images)
  BY <1>4 DEF Contenders, Images
<1>6. CASE lock.queue = <<>>
  BY <1>5, <1>6
<1>7. CASE lock.queue # <<>>
  <2>1. PICK e : e \in One
    BY <1>7, OneAtATime
  <2>2. e \in Requests /\ stage[e] \in {"lock", "prepare", "run", "cleanup", "generate"}
    BY <1>1, <2>1, OneAtATime DEF LockHolders, Members, LockWaiters
  <2>3. e \notin Q
    BY <1>1, <1>2, <2>1 DEF Waiting, LockHolders, LockWaiters, Members
  <2>4. Q \cup {e} \subseteq SemHolders \cup Images
    <3>1. ASSUME NEW r \in Requests,
                 stage[r] \in {"lock", "prepare", "run", "cleanup", "generate"}
          PROVE  r \in SemHolders \cup Images
      BY <3>1 DEF Inv, RequestInv, Kinds, SemHolders, Images
    <3>2. \A r \in Q : r \in Requests /\ stage[r] = "lock"
      BY <1>1 DEF Members, LockWaiters
    <3> QED
      BY <2>2, <3>1, <3>2
  <2>5. IsFiniteSet(Q \cup {e}) /\ Cardinality(Q \cup {e}) = Len(lock.queue) + 1
    BY <1>3, <2>3, FS_AddElement
  <2>6. /\ IsFiniteSet(SemHolders \cup Images)
        /\ Cardinality(SemHolders \cup Images) <= Cardinality(SemHolders) + Cardinality(Images)
        /\ Cardinality(SemHolders \cup Images) \in Nat
    <3>1. /\ IsFiniteSet(SemHolders \cap Images) /\ Cardinality(SemHolders \cap Images) \in Nat
      BY <1>1, <1>4, FS_Subset, FS_CardinalityType
    <3> QED
      <4>1. /\ IsFiniteSet(SemHolders \cup Images)
            /\ Cardinality(SemHolders \cup Images) = Cardinality(SemHolders)
                 + Cardinality(Images) - Cardinality(SemHolders \cap Images)
        BY <1>1, <1>4, FS_Union
      <4>2. Cardinality(SemHolders \cup Images) \in Nat
        BY <4>1, FS_CardinalityType
      <4> QED
        BY <1>4, <3>1, <4>1, <4>2
  <2>7. Len(lock.queue) + 1 <= Cardinality(SemHolders \cup Images)
    BY <2>4, <2>5, <2>6, FS_Subset
  <2> QED
    BY <1>2, <1>4, <1>5, <2>6, <2>7
<1> QED
  BY <1>6, <1>7

LEMMA RestFits ==
    TimedInv => \A h \in LockHolders : Rest(h) \in 0..Tenure
<1> SUFFICES ASSUME TimedInv, NEW h \in LockHolders
             PROVE  Rest(h) \in 0..Tenure
  OBVIOUS
<1>1. /\ h \in Requests /\ stage[h] \in Bounded /\ spent[h] \in Nat
      /\ spent[h] <= Limit(stage[h])
  BY DEF TimedInv, ClocksAgree, ClockTypes, LockHolders, Bounded
<1>2. /\ FetchTime \in Nat /\ CodexTimeout \in Nat /\ CleanupTime \in Nat
      /\ GenerateTime \in Nat /\ Tenure \in Nat /\ GenerateTime <= Tenure
      /\ FetchTime + CodexTimeout + CleanupTime <= Tenure
  BY DeadlinesAssumption, TenureCovers DEF DeadlinesAssumption
<1>3. CASE stage[h] = "prepare"
  BY <1>1, <1>2, <1>3, DeadlinesAssumption, LimitsAreNumbers DEF Rest
<1>4. CASE stage[h] = "run"
  BY <1>1, <1>2, <1>4, DeadlinesAssumption, LimitsAreNumbers DEF Rest
<1>5. CASE stage[h] = "cleanup"
  BY <1>1, <1>2, <1>5, DeadlinesAssumption, LimitsAreNumbers DEF Rest
<1>6. CASE stage[h] = "generate"
  BY <1>1, <1>2, <1>6, DeadlinesAssumption, LimitsAreNumbers DEF Rest
<1> QED
  BY <1>1, <1>3, <1>4, <1>5, <1>6 DEF Bounded

(* A step of r's handler.                                                  *)
Stepping(r) ==
    /\ LockInv /\ TimedInv' /\ ArrivalInv'
    /\ r \in Requests
    /\ spent' = [spent EXCEPT ![r] = 0]
    /\ stage' = [stage EXCEPT ![r] = stage'[r]]
    /\ Contenders <= Contenders'

LEMMA SteppingFacts ==
    ASSUME NEW r, Stepping(r)
    PROVE  /\ spent \in [Requests -> Nat] /\ spent' \in [Requests -> Nat]
           /\ spent'[r] = 0 /\ \A q \in Requests : q # r => spent'[q] = spent[q]
           /\ lock.queue \in Seq(Requests)
           /\ \A i \in 1..Len(lock.queue) : lock.queue[i] \in Waiting(lock)
           /\ Turns(Contenders) \in Nat /\ Turns(Contenders)' \in Nat
           /\ Turns(Contenders) <= Turns(Contenders)'
           /\ Len(lock'.queue) <= Contenders' /\ Contenders' \in Nat
           /\ \A h \in LockHolders : Rest(h) \in 0..Tenure
           /\ \A h \in LockHolders' : Rest(h)' \in 0..Tenure
           /\ Tenure \in Nat /\ Turns(Contenders)' = Turns(Contenders')
<1>1. spent \in [Requests -> Nat] /\ spent' \in [Requests -> Nat] /\ Inv /\ Inv'
  BY DEF Stepping, LockInv, TimedInv, ClockTypes
<1>2. spent'[r] = 0 /\ \A q \in Requests : q # r => spent'[q] = spent[q]
  BY <1>1 DEF Stepping
<1>3. lock.queue \in Seq(Requests)
  BY <1>1, OneAtATime
<1>4. \A i \in 1..Len(lock.queue) : lock.queue[i] \in Waiting(lock)
  BY DEF Waiting
<1>5. Contenders \in Nat
  BY <1>1, QueueFits DEF Stepping, LockInv
<1>6. (Inv /\ ArrivalInv => Len(lock.queue) <= Contenders /\ Contenders \in Nat)'
  BY QueueFits, PTL
<1>7. Len(lock'.queue) <= Contenders' /\ Contenders' \in Nat
  BY <1>1, <1>6 DEF Stepping
<1>8. Turns(Contenders)' = Turns(Contenders')
  BY DEF Turns
<1>9. /\ Turns(Contenders) \in Nat /\ Turns(Contenders') \in Nat
      /\ Turns(Contenders) <= Turns(Contenders')
  BY <1>5, <1>7, TurnsAddUp, DeadlinesAssumption DEF Stepping
<1>10. \A h \in LockHolders : Rest(h) \in 0..Tenure
  BY RestFits DEF Stepping, LockInv
<1>11. (TimedInv => \A h \in LockHolders : Rest(h) \in 0..Tenure)'
  BY RestFits, PTL
<1>12. Tenure \in Nat /\ \A h \in LockHolders' : Rest(h)' \in 0..Tenure
  BY <1>11, TenureCovers, DeadlinesAssumption DEF Stepping
<1> QED
  BY <1>1, <1>2, <1>3, <1>4, <1>7, <1>8, <1>9, <1>10, <1>12

(* What such a step may do to the lock: nothing.                           *)
LEMMA LockStays ==
    ASSUME NEW r, Stepping(r), lock' = lock, stage[r] # "lock",
           \A h \in LockHolders' : h \in LockHolders /\ Rest(h)' <= Rest(h)
    PROVE  LockTimes'
<1>1. r \notin Waiting(lock) /\ r \notin lock.woken /\ lock.woken \subseteq Requests
  BY OneAtATime DEF Stepping, LockInv, TimedInv
<1>2. \A i \in 1..Len(lock.queue) : spent'[lock.queue[i]] = spent[lock.queue[i]]
  <2>1. \A i \in 1..Len(lock.queue) : lock.queue[i] \in Requests /\ lock.queue[i] # r
    <3>1. /\ lock.queue \in Seq(Requests)
          /\ \A i \in 1..Len(lock.queue) : lock.queue[i] \in Waiting(lock)
      BY SteppingFacts
    <3> QED
      BY <1>1, <3>1
  <2>2. \A q \in Requests : q # r => spent'[q] = spent[q]
    BY SteppingFacts
  <2> QED
    BY <2>1, <2>2
<1> DEFINE b == Turns(Contenders)
           c == Turns(Contenders')
<1>3. LockTimes /\ b \in Int /\ c \in Int /\ b <= c
  <2>1. LockTimes
    BY DEF Stepping, LockInv
  <2>2. Turns(Contenders) \in Nat /\ Turns(Contenders') \in Nat
        /\ Turns(Contenders) <= Turns(Contenders')
    BY SteppingFacts
  <2> QED
    BY <2>1, <2>2
<1>4. ASSUME NEW x \in Int, NEW y \in Int, y <= x, Within(lock.queue, spent, x, b)
      PROVE  Within(lock.queue, spent', y, c)
  BY <1>2, <1>3, <1>4, SteppingFacts, WithinKept, DeadlinesAssumption
<1>5. lock.woken # {} => Within(lock.queue, spent', Tenure, c)
  <2>1. Tenure \in Int /\ Tenure <= Tenure
    BY SteppingFacts
  <2>2. lock.woken # {} => Within(lock.queue, spent, Tenure, b)
    BY <1>3 DEF LockTimes
  <2> QED
    BY <1>4, <2>1, <2>2
<1>6. ASSUME NEW h \in LockHolders'
      PROVE  Within(lock.queue, spent', Rest(h)', c)
  <2>1. Rest(h) \in Int /\ Rest(h)' \in Int /\ Rest(h)' <= Rest(h)
    BY <1>6, SteppingFacts
  <2>2. Within(lock.queue, spent, Rest(h), b)
    BY <1>3, <1>6 DEF LockTimes
  <2> QED
    BY <1>4, <2>1, <2>2
<1>7. \A w \in lock.woken : spent'[w] <= c
  BY <1>1, <1>3, SteppingFacts DEF LockTimes
<1> QED
  BY <1>5, <1>6, <1>7, SteppingFacts DEF LockTimes, Within

(* Nobody waits afterwards.                                                *)
LEMMA LockDeserted ==
    ASSUME lock'.queue = <<>>, lock'.woken = {}
    PROVE  LockTimes'
BY DEF LockTimes, Within

(* r joins the queue.                                                      *)
LEMMA LockJoined ==
    ASSUME NEW r, Stepping(r), stage[r] # "lock", r \notin LockHolders,
           lock'.queue = Append(lock.queue, r), lock'.woken = lock.woken,
           LockHolders' = LockHolders
    PROVE  LockTimes'
<1> DEFINE q == lock.queue
           b == Turns(Contenders)
           n == Contenders'
<1>1. r \notin Waiting(lock) /\ r \notin lock.woken /\ lock.woken \subseteq Requests
  BY OneAtATime DEF Stepping, LockInv, TimedInv
<1>2. /\ q \in Seq(Requests) /\ \A i \in 1..Len(q) : spent'[q[i]] = spent[q[i]]
      /\ spent \in [Requests -> Nat] /\ spent' \in [Requests -> Nat] /\ spent'[r] = 0
  <2>1. /\ q \in Seq(Requests) /\ \A i \in 1..Len(q) : q[i] # r
        /\ spent \in [Requests -> Nat] /\ spent' \in [Requests -> Nat]
        /\ spent'[r] = 0 /\ \A p \in Requests : p # r => spent'[p] = spent[p]
    BY <1>1, SteppingFacts
  <2> QED
    BY <2>1
<1>3. /\ b \in Int /\ Turns(n) \in Int /\ b <= Turns(n) /\ n \in Nat
      /\ Tenure \in Int /\ Tenure <= Tenure
  BY SteppingFacts
<1>4. LockTimes /\ r \in Requests
  BY DEF Stepping, LockInv
<1>5. Len(q) + 1 <= n
  <2>1. Len(Append(q, r)) = Len(q) + 1
    BY <1>2, <1>4
  <2>2. Len(lock'.queue) <= n
    BY SteppingFacts
  <2> QED
    BY <2>1, <2>2
<1> HIDE DEF q, b, n
<1>6. ASSUME NEW x \in Int, x <= Tenure, Within(q, spent, x, b)
      PROVE  Within(Append(q, r), spent', x, Turns(n))
  <2>1. x <= x
    BY <1>6
  <2>2. Within(q, spent', x, Turns(n))
    BY <1>2, <1>3, <1>6, <2>1, WithinKept, DeadlinesAssumption
  <2> QED
    BY <1>2, <1>3, <1>4, <1>5, <1>6, <2>2, WithinJoined, DeadlinesAssumption
<1>7. lock.woken # {} => Within(Append(q, r), spent', Tenure, Turns(n))
  <2>1. lock.woken # {} => Within(q, spent, Tenure, b)
    BY <1>4 DEF LockTimes, q, b
  <2> QED
    BY <1>3, <1>6, <2>1
<1>8. ASSUME NEW h \in LockHolders
      PROVE  Within(Append(q, r), spent', Rest(h)', Turns(n))
  <2>1. Rest(h) \in Int /\ Rest(h) <= Tenure
    BY <1>3, SteppingFacts
  <2>2. Within(q, spent, Rest(h), b)
    BY <1>4 DEF LockTimes, q, b
  <2>3. Rest(h)' = Rest(h)
    <3>1. h # r /\ h \in Requests
      BY DEF LockHolders
    <3>2. stage'[h] = stage[h] /\ spent'[h] = spent[h]
      BY <3>1, SteppingFacts DEF Stepping, LockInv, TimedInv, Inv, TypeInv
    <3> QED
      BY <3>2 DEF Rest
  <2> QED
    BY <1>6, <2>1, <2>2, <2>3
<1>9. \A w \in lock.woken : spent'[w] <= Turns(n)
  <2>1. ASSUME NEW w \in lock.woken
        PROVE  spent'[w] = spent[w] /\ spent[w] <= b /\ spent[w] \in Nat
    BY <1>1, <1>4, SteppingFacts DEF LockTimes, b
  <2> QED
    BY <1>3, <2>1
<1> QED
  BY <1>7, <1>8, <1>9, SteppingFacts DEF LockTimes, q, n

(* The lock changes hands: the first in line is woken.                     *)
LEMMA LockPassed ==
    ASSUME NEW r, Stepping(r), r \notin Waiting(lock), LockHolders' = {},
           NEW x \in Nat, Within(lock.queue, spent, x, Turns(Contenders)),
           lock.queue = <<>> => lock'.queue = <<>> /\ lock'.woken = {},
           lock.queue # <<>> =>
                lock'.queue = Tail(lock.queue) /\ lock'.woken = {Head(lock.queue)}
    PROVE  LockTimes'
<1> DEFINE q == lock.queue
           b == Turns(Contenders)
           n == Contenders'
<1>1. CASE q = <<>>
  BY <1>1, LockDeserted
<1>2. CASE q # <<>>
  <2>1. /\ q \in Seq(Requests) /\ \A i \in 1..Len(q) : q[i] # r
        /\ spent \in [Requests -> Nat] /\ spent' \in [Requests -> Nat]
        /\ \A p \in Requests : p # r => spent'[p] = spent[p]
    BY SteppingFacts
  <2>2. /\ b \in Int /\ Turns(n) \in Int /\ b <= Turns(n) /\ Tenure \in Int
        /\ Tenure <= Tenure
    BY SteppingFacts
  <2>3. Within(Tail(q), spent, Tenure, b) /\ spent[Head(q)] <= b
    BY <1>2, <2>1, <2>2, WithinMoved, DeadlinesAssumption
  <2>4. /\ Tail(q) \in Seq(Requests) /\ Head(q) \in Requests /\ Head(q) # r
        /\ \A i \in 1..Len(Tail(q)) : Tail(q)[i] \in Requests /\ Tail(q)[i] # r
    BY <1>2, <2>1
  <2> HIDE DEF b, n
  <2>5. \A i \in 1..Len(Tail(q)) : spent'[Tail(q)[i]] = spent[Tail(q)[i]]
    BY <2>1, <2>4
  <2>6. Within(Tail(q), spent', Tenure, Turns(n))
    BY <2>1, <2>2, <2>3, <2>4, <2>5, WithinKept, DeadlinesAssumption
  <2>7. spent'[Head(q)] <= Turns(n)
    <3>1. spent'[Head(q)] = spent[Head(q)] /\ spent[Head(q)] \in Nat
      BY <2>1, <2>4
    <3> QED
      BY <2>2, <2>3, <3>1
  <2> QED
    BY <1>2, <2>6, <2>7, SteppingFacts DEF LockTimes, n
<1> QED
  BY <1>1, <1>2

(* It changes hands, and r joins the queue again.                          *)
LEMMA LockRejoined ==
    ASSUME NEW r, Stepping(r), r \notin Waiting(lock), LockHolders' = {},
           NEW x \in Nat, Within(lock.queue, spent, x, Turns(Contenders)),
           lock.queue # <<>>,
           lock'.queue = Append(Tail(lock.queue), r), lock'.woken = {Head(lock.queue)}
    PROVE  LockTimes'
<1> DEFINE q == lock.queue
           b == Turns(Contenders)
           n == Contenders'
<1>1. /\ q \in Seq(Requests) /\ \A i \in 1..Len(q) : q[i] # r
      /\ spent \in [Requests -> Nat] /\ spent' \in [Requests -> Nat] /\ spent'[r] = 0
      /\ \A p \in Requests : p # r => spent'[p] = spent[p]
  BY SteppingFacts
<1>2. /\ b \in Int /\ Turns(n) \in Int /\ b <= Turns(n) /\ Tenure \in Int
      /\ Tenure <= Tenure /\ n \in Nat
  BY SteppingFacts
<1>3. Within(Tail(q), spent, Tenure, b) /\ spent[Head(q)] <= b
  BY <1>1, <1>2, WithinMoved, DeadlinesAssumption
<1>4. /\ Tail(q) \in Seq(Requests) /\ Head(q) \in Requests /\ Head(q) # r
      /\ \A i \in 1..Len(Tail(q)) : Tail(q)[i] \in Requests /\ Tail(q)[i] # r
  BY <1>1
<1>5. r \in Requests /\ Len(Tail(q)) + 1 <= n
  <2>1. Len(lock'.queue) <= n /\ r \in Requests
    BY SteppingFacts DEF Stepping
  <2> QED
    BY <1>4, <2>1
<1> HIDE DEF b, n
<1>6. \A i \in 1..Len(Tail(q)) : spent'[Tail(q)[i]] = spent[Tail(q)[i]]
  BY <1>1, <1>4
<1>7. Within(Tail(q), spent', Tenure, Turns(n))
  BY <1>1, <1>2, <1>3, <1>4, <1>6, WithinKept, DeadlinesAssumption
<1>8. Within(Append(Tail(q), r), spent', Tenure, Turns(n))
  BY <1>1, <1>2, <1>4, <1>5, <1>7, WithinJoined, DeadlinesAssumption
<1>9. spent'[Head(q)] <= Turns(n)
  <2>1. spent'[Head(q)] = spent[Head(q)] /\ spent[Head(q)] \in Nat
    BY <1>1, <1>4
  <2> QED
    BY <1>2, <1>3, <2>1
<1> QED
  BY <1>8, <1>9, SteppingFacts DEF LockTimes, n

(* r was woken and has the lock now.                                       *)
LEMMA LockStarted ==
    ASSUME NEW r, Stepping(r), r \in lock.woken,
           lock'.queue = lock.queue, lock'.woken = {}, LockHolders' \subseteq {r}
    PROVE  LockTimes'
<1> DEFINE q == lock.queue
           b == Turns(Contenders)
           n == Contenders'
<1>1. /\ q \in Seq(Requests) /\ LockTimes
      /\ \A i \in 1..Len(q) : q[i] \in Requests /\ q[i] # r
  <2>1. WellFormed(lock, Requests) /\ LockTimes
    BY DEF Stepping, LockInv, TimedInv, Inv, ResourceInv, Balanced
  <2> QED
    BY <2>1 DEF WellFormed
<1>2. /\ spent \in [Requests -> Nat] /\ spent' \in [Requests -> Nat]
      /\ \A i \in 1..Len(q) : spent'[q[i]] = spent[q[i]]
  BY <1>1, SteppingFacts
<1>3. b \in Int /\ Turns(n) \in Int /\ b <= Turns(n) /\ Tenure \in Int
  BY SteppingFacts
<1>4. Within(q, spent, Tenure, b)
  BY <1>1 DEF LockTimes
<1> HIDE DEF q, b, n
<1>5. ASSUME NEW h \in LockHolders'
      PROVE  Within(q, spent', Rest(h)', Turns(n))
  <2>1. Rest(h)' \in Int /\ Rest(h)' <= Tenure
    BY <1>5, SteppingFacts
  <2> QED
    BY <1>1, <1>2, <1>3, <1>4, <2>1, WithinKept, DeadlinesAssumption
<1> QED
  BY <1>5, SteppingFacts DEF LockTimes, q, n

LEMMA HoldersNext ==
    ASSUME NEW r, Stepping(r)
    PROVE  /\ stage \in [Requests -> Stages]
           /\ LockHolders' = IF stage'[r] \in {"prepare", "run", "cleanup", "generate"}
                             THEN LockHolders \cup {r} ELSE LockHolders \ {r}
           /\ r \in LockHolders <=> stage[r] \in {"prepare", "run", "cleanup", "generate"}
           /\ \A h \in LockHolders : h # r => h \in Requests /\ Rest(h)' = Rest(h)
<1>1. stage \in [Requests -> Stages] /\ r \in Requests
  BY DEF Stepping, LockInv, TimedInv, Inv, TypeInv
<1>2. \A h \in Requests : h # r => stage'[h] = stage[h] /\ spent'[h] = spent[h]
  BY <1>1, SteppingFacts DEF Stepping
<1>3. \A h \in Requests : h # r => Rest(h)' = Rest(h)
  BY <1>2 DEF Rest
<1> QED
  BY <1>1, <1>2, <1>3 DEF LockHolders

(* release() with nobody woken.                                            *)
LEMMA Releasing ==
    ASSUME NEW l \in [permits : Nat, queue : Seq(Requests), woken : SUBSET Requests],
           l.woken = {}
    PROVE  /\ l.queue = <<>> =>
                /\ Release(l).queue = <<>> /\ Release(l).woken = {}
                /\ Release(l).permits = l.permits + 1 /\ CanTake(Release(l))
           /\ l.queue # <<>> =>
                /\ Release(l).queue = Tail(l.queue)
                /\ Release(l).woken = {Head(l.queue)}
<1> DEFINE m == [l EXCEPT !.permits = @ + 1]
<1>1. m.permits = l.permits + 1 /\ m.queue = l.queue /\ m.woken = {}
  OBVIOUS
<1>2. Release(l) = WakeNext(m)
  BY DEF Release
<1> HIDE DEF m
<1>3. CASE l.queue = <<>>
  BY <1>1, <1>2, <1>3 DEF WakeNext, CanTake
<1>4. CASE l.queue # <<>>
  BY <1>1, <1>2, <1>4 DEF WakeNext
<1> QED
  BY <1>3, <1>4

(* Whoever takes a lock that nobody waits for leaves nobody waiting, also  *)
(* if the lock is given back at once.                                      *)
LEMMA TakingLeavesNobody ==
    ASSUME NEW l \in [permits : Nat, queue : Seq(Requests), woken : SUBSET Requests],
           CanTake(l)
    PROVE  /\ Take(l).queue = <<>> /\ Take(l).woken = {}
           /\ Release(Take(l)).queue = <<>> /\ Release(Take(l)).woken = {}
<1>1. l.permits - 1 \in Nat /\ l.queue = <<>> /\ l.woken = {}
  BY DEF CanTake
<1>2. /\ Take(l) \in [permits : Nat, queue : Seq(Requests), woken : SUBSET Requests]
      /\ Take(l).queue = <<>> /\ Take(l).woken = {}
  BY <1>1 DEF Take
<1> QED
  BY <1>2, Releasing

LEMMA AskLockTimes ==
    ASSUME NEW r, Stepping(r), stage[r] \in {"idle", "sem"}, NEW k, NEW s,
           AskLock(r, k, s, lock)
    PROVE  LockTimes'
<1>1. /\ lock \in [permits : Nat, queue : Seq(Requests), woken : SUBSET Requests]
      /\ r \in Requests /\ stage \in [Requests -> Stages]
  BY DEF Stepping, LockInv, TimedInv, Inv, TypeInv, ResourceInv, Balanced, WellFormed
<1>2. CASE CanTake(lock)
  <2>1. lock' = Take(lock) \/ lock' = Release(Take(lock))
    BY <1>2 DEF AskLock, WithLock, Go, Finish
  <2>2. lock'.queue = <<>> /\ lock'.woken = {}
    BY <1>1, <1>2, <2>1, TakingLeavesNobody
  <2> QED
    BY <2>2, LockDeserted
<1>3. CASE ~ CanTake(lock)
  <2>1. lock' = Enqueue(lock, r) /\ stage'[r] = "lock"
    BY <1>1, <1>3 DEF AskLock, Go
  <2>2. lock'.queue = Append(lock.queue, r) /\ lock'.woken = lock.woken
    BY <1>1, <2>1 DEF Enqueue
  <2>3. r \notin LockHolders /\ LockHolders' = LockHolders
    BY <2>1, HoldersNext
  <2> QED
    BY <2>2, <2>3, LockJoined
<1> QED
  BY <1>2, <1>3

(* The holder gives the lock back.                                         *)
LEMMA HandedOn ==
    ASSUME NEW r, Stepping(r), r \in LockHolders, lock' = Release(lock), stage'[r] = "done"
    PROVE  LockTimes'
<1>1. /\ lock \in [permits : Nat, queue : Seq(Requests), woken : SUBSET Requests]
      /\ LockHolders = {r} /\ lock.woken = {} /\ r \notin Waiting(lock)
      /\ LockTimes
  <2>1. Inv /\ WellFormed(lock, Requests) /\ LockTimes
    BY DEF Stepping, LockInv, TimedInv, Inv, ResourceInv, Balanced
  <2> QED
    BY <2>1, OneAtATime DEF WellFormed, LockHolders
<1>2. LockHolders' = {}
  BY <1>1, HoldersNext
<1>3. Rest(r) \in Nat /\ Within(lock.queue, spent, Rest(r), Turns(Contenders))
  BY <1>1, SteppingFacts DEF LockTimes
<1>4. /\ lock.queue = <<>> => lock'.queue = <<>> /\ lock'.woken = {}
      /\ lock.queue # <<>> =>
            lock'.queue = Tail(lock.queue) /\ lock'.woken = {Head(lock.queue)}
  BY <1>1, Releasing
<1> QED
  BY <1>1, <1>2, <1>3, <1>4, LockPassed

LEMMA RepairTimes ==
    ASSUME NEW r, Stepping(r), r \in LockHolders, NEW k, NEW s,
           AskLock(r, k, s, Release(lock))
    PROVE  LockTimes'
<1> DEFINE l == Release(lock)
<1>1. /\ lock \in [permits : Nat, queue : Seq(Requests), woken : SUBSET Requests]
      /\ LockHolders = {r} /\ lock.woken = {} /\ r \notin Waiting(lock)
      /\ LockTimes /\ r \in Requests /\ stage \in [Requests -> Stages]
  <2>1. Inv /\ WellFormed(lock, Requests) /\ LockTimes /\ stage \in [Requests -> Stages]
    BY DEF Stepping, LockInv, TimedInv, Inv, TypeInv, ResourceInv, Balanced
  <2> QED
    BY <2>1, OneAtATime DEF WellFormed, LockHolders
<1>2. l \in [permits : Nat, queue : Seq(Requests), woken : SUBSET Requests]
  <2>1. WellFormed(lock, Requests)
    BY DEF Stepping, LockInv, TimedInv, Inv, ResourceInv, Balanced
  <2> QED
    BY <2>1, ReleaseKeeps DEF WellFormed
<1>3. /\ lock.queue = <<>> => CanTake(l)
      /\ lock.queue # <<>> => l.queue = Tail(lock.queue) /\ l.woken = {Head(lock.queue)}
  BY <1>1, Releasing
<1> HIDE DEF l
<1>4. AskLock(r, k, s, l)
  BY DEF l
<1>5. CASE CanTake(l)
  <2>1. lock' = Take(l) \/ lock' = Release(Take(l))
    BY <1>4, <1>5 DEF AskLock, WithLock, Go, Finish
  <2>2. lock'.queue = <<>> /\ lock'.woken = {}
    BY <1>2, <1>5, <2>1, TakingLeavesNobody
  <2> QED
    BY <2>2, LockDeserted
<1>6. CASE ~ CanTake(l)
  <2>1. lock' = Enqueue(l, r) /\ stage'[r] = "lock"
    BY <1>1, <1>4, <1>6 DEF AskLock, Go
  <2>2. /\ lock.queue # <<>> /\ lock'.woken = {Head(lock.queue)}
        /\ lock'.queue = Append(Tail(lock.queue), r)
    BY <1>2, <1>3, <1>6, <2>1 DEF Enqueue
  <2>3. LockHolders' = {}
    BY <1>1, <2>1, HoldersNext
  <2>4. Rest(r) \in Nat /\ Within(lock.queue, spent, Rest(r), Turns(Contenders))
    BY <1>1, SteppingFacts DEF LockTimes
  <2> QED
    BY <1>1, <2>2, <2>3, <2>4, LockRejoined
<1> QED
  BY <1>5, <1>6

LEMMA LockResumedTimes ==
    ASSUME NEW r, Stepping(r), LockResumed(r)
    PROVE  LockTimes'
<1>1. /\ lock \in [permits : Nat, queue : Seq(Requests), woken : SUBSET Requests]
      /\ r \in lock.woken /\ lock.woken = {r} /\ LockHolders = {} /\ lock.permits = 0
      /\ r \in Requests /\ r \notin Waiting(lock) /\ LockTimes
      /\ stage \in [Requests -> Stages]
  <2>1. Inv /\ WellFormed(lock, Requests) /\ LockTimes /\ stage \in [Requests -> Stages]
    BY DEF Stepping, LockInv, TimedInv, Inv, TypeInv, ResourceInv, Balanced
  <2>2. r \in lock.woken
    BY DEF LockResumed
  <2> QED
    BY <2>1, <2>2, OneAtATime DEF WellFormed, Waiting
<1> DEFINE l == Leave(lock, r)
<1>2. /\ l \in [permits : Nat, queue : Seq(Requests), woken : SUBSET Requests]
      /\ l.queue = lock.queue /\ l.woken = {} /\ Resume(lock, r) = l
  BY <1>1 DEF Leave, Resume
<1> HIDE DEF l
<1>3. WithLock(r, kind[r], sem, l)
  BY <1>2 DEF LockResumed
<1>4. CASE lock' = l
  <2>1. LockHolders' \subseteq {r}
    BY <1>1, HoldersNext
  <2> QED
    BY <1>1, <1>2, <1>4, <2>1, LockStarted
<1>5. CASE lock' = Release(l) /\ stage'[r] = "done"
  <2>1. LockHolders' = {}
    BY <1>1, <1>5, HoldersNext
  <2>2. Tenure \in Nat /\ Within(lock.queue, spent, Tenure, Turns(Contenders))
    BY <1>1, SteppingFacts DEF LockTimes
  <2>3. /\ lock.queue = <<>> => lock'.queue = <<>> /\ lock'.woken = {}
        /\ lock.queue # <<>> =>
              lock'.queue = Tail(lock.queue) /\ lock'.woken = {Head(lock.queue)}
    BY <1>2, <1>5, Releasing
  <2> QED
    BY <1>1, <2>1, <2>2, <2>3, LockPassed
<1> QED
  BY <1>1, <1>3, <1>4, <1>5 DEF WithLock, Go, Finish

(* One more kind of request to wait for, or none: others may arrive.       *)
LEMMA PostArrives ==
    ASSUME LockInv, NEW r \in Requests, Arrive(r)
    PROVE  ArrivalInv' /\ Contenders <= Contenders'
<1>1. TypeInv /\ Inv /\ ArrivalInv
  BY DEF LockInv, TimedInv, Inv
<1>2. /\ stage[r] = "idle" /\ stage' = [stage EXCEPT ![r] = stage'[r]] /\ stage'[r] # "idle"
      /\ \E k \in Kinds : kind' = [kind EXCEPT ![r] = k]
  BY <1>1, ArriveMoves
<1>3. PICK k \in Kinds : kind' = [kind EXCEPT ![r] = k]
  BY <1>2
<1>4. kind \in [Requests -> Kinds \cup {"none"}] /\ stage \in [Requests -> Stages]
  BY <1>1 DEF TypeInv
<1>5. \A q \in Requests : stage'[q] = "idle" => kind'[q] = "none"
  BY <1>1, <1>2, <1>3, <1>4 DEF ArrivalInv
<1>6. kind[r] = "none" /\ r \notin Images
  BY <1>1, <1>2 DEF ArrivalInv, Images
<1>7. Images' = Images \/ Images' = Images \cup {r}
  BY <1>3, <1>4, <1>6 DEF Images
<1>8. /\ IsFiniteSet(Images) /\ Cardinality(Images) \in Nat
      /\ IsFiniteSet(Images \cup {r}) /\ Cardinality(Images \cup {r}) = Cardinality(Images) + 1
  BY <1>1, <1>6, FS_AddElement, FS_CardinalityType DEF ArrivalInv
<1>9. IsFiniteSet(Images') /\ Cardinality(Images') \in Nat
      /\ Cardinality(Images) <= Cardinality(Images')
  BY <1>7, <1>8
<1>10. /\ Contenders = MaxConcurrency - 1 + Cardinality(Images)
       /\ Contenders' = MaxConcurrency - 1 + Cardinality(Images')
  BY DEF Contenders, Images
<1>11. MaxConcurrency \in Nat
  BY SidecarAssumption DEF SidecarAssumption
<1>12. Contenders <= Contenders'
  BY <1>8, <1>9, <1>10, <1>11
<1> QED
  BY <1>5, <1>9, <1>12 DEF ArrivalInv

(* Nobody arrives.                                                         *)
LEMMA NobodyArrives ==
    ASSUME LockInv, kind' = kind,
           \A q \in Requests : stage'[q] = "idle" => stage[q] = "idle"
    PROVE  /\ ArrivalInv' /\ Contenders' = Contenders
           /\ Turns(Contenders)' = Turns(Contenders) /\ Contenders \in Nat
<1>1. Images' = Images /\ Contenders' = Contenders
  BY DEF Images, Contenders
<1>2. ArrivalInv'
  BY <1>1 DEF LockInv, ArrivalInv
<1> QED
  BY <1>1, <1>2, QueueFits DEF LockInv, TimedInv, Turns

LEMMA PostLockInv ==
    ASSUME LockInv, NEW r \in Requests, Post(r)
    PROVE  LockInv'
<1>1. TimedInv /\ Arrive(r) /\ Stamp(r, "open") /\ TypeInv
  BY DEF LockInv, TimedInv, Inv, Post
<1>2. TimedInv'
  BY <1>1, PostTimed, SidecarAssumption, DeadlinesAssumption
<1>3. /\ stage[r] = "idle" /\ stage' = [stage EXCEPT ![r] = stage'[r]]
      /\ spent' = [spent EXCEPT ![r] = 0]
  BY <1>1, ArriveMoves DEF Stamp
<1>4. ArrivalInv' /\ Contenders <= Contenders'
  BY <1>1, PostArrives
<1>5. Stepping(r)
  BY <1>2, <1>3, <1>4 DEF Stepping
<1>6. r \notin LockHolders
  BY <1>3 DEF LockHolders
<1>7. CASE lock' = lock /\ stage'[r] \in {"sem", "done"}
  <2>1. \A h \in LockHolders' : h \in LockHolders /\ Rest(h)' <= Rest(h)
    <3>1. ASSUME NEW h \in LockHolders'
          PROVE  h \in LockHolders /\ h # r
      BY <1>5, <1>6, <1>7, <3>1, HoldersNext
    <3>2. ASSUME NEW h \in LockHolders'
          PROVE  Rest(h)' = Rest(h) /\ Rest(h) \in Int
      BY <1>5, <3>1, <3>2, HoldersNext, SteppingFacts
    <3> QED
      BY <3>1, <3>2
  <2> QED
    BY <1>2, <1>3, <1>4, <1>5, <1>7, <2>1, LockStays DEF LockInv
<1>8. ASSUME NEW k, NEW s, AskLock(r, k, s, lock)
      PROVE  LockInv'
  BY <1>2, <1>3, <1>4, <1>5, <1>8, AskLockTimes DEF LockInv
<1>9. stage \in [Requests -> Stages]
  BY <1>1 DEF TypeInv
<1>10. \/ lock' = lock /\ stage'[r] \in {"sem", "done"}
       \/ \E k \in Kinds : AskLock(r, k, sem, lock) \/ AskLock(r, k, Take(sem), lock)
  BY <1>1, <1>9 DEF Arrive, Accept, Refuse, Go, Finish
<1> QED
  BY <1>7, <1>8, <1>10

LEMMA WorkLockInv ==
    ASSUME LockInv, NEW r \in Requests, Work(r)
    PROVE  LockInv'
<1>1. TimedInv /\ Serve(r) /\ Stamp(r, call[r]) /\ Inv
  BY DEF LockInv, TimedInv, Work
<1>2. TimedInv'
  BY <1>1, WorkTimed, SidecarAssumption, DeadlinesAssumption
<1>3. /\ stage[r] \notin {"idle", "done"} /\ kind' = kind
      /\ stage' = [stage EXCEPT ![r] = stage'[r]] /\ stage'[r] # "idle"
      /\ stage'[r] = "cleanup" => stage[r] = "run"
      /\ spent' = [spent EXCEPT ![r] = 0]
  BY <1>1, ServeMoves DEF Stamp
<1>4. stage \in [Requests -> Stages] /\ spent \in [Requests -> Nat]
  BY <1>1 DEF TimedInv, ClockTypes, Inv, TypeInv
<1>5. ArrivalInv' /\ Contenders <= Contenders'
  <2>1. \A q \in Requests : stage'[q] = "idle" => stage[q] = "idle"
    BY <1>3, <1>4
  <2>2. ArrivalInv' /\ Contenders' = Contenders /\ Contenders \in Nat
    BY <1>3, <2>1, NobodyArrives
  <2> QED
    BY <2>2
<1>6. Stepping(r)
  BY <1>2, <1>3, <1>5 DEF Stepping
<1>7. /\ FetchTime \in Nat /\ CodexTimeout \in Nat /\ CleanupTime \in Nat
      /\ spent[r] \in Nat /\ spent'[r] = 0
      /\ Limit("run") = CodexTimeout /\ Limit("prepare") = FetchTime
  BY <1>4, <1>6, SteppingFacts, LimitsAreNumbers, DeadlinesAssumption
  DEF DeadlinesAssumption
(* The lock is kept, and no longer than it was to be.                      *)
<1>8. ASSUME lock' = lock, r \in LockHolders, stage'[r] \in {"run", "cleanup"},
             Rest(r)' <= Rest(r)
      PROVE  LockTimes'
  <2>1. stage[r] # "lock"
    BY <1>8 DEF LockHolders
  <2>2. ASSUME NEW h \in LockHolders'
        PROVE  h \in LockHolders /\ Rest(h)' <= Rest(h)
    <3>1. h \in LockHolders /\ (h # r => Rest(h)' = Rest(h)) /\ Rest(h) \in Int
      BY <1>6, <1>8, <2>2, HoldersNext, SteppingFacts
    <3> QED
      BY <1>8, <3>1
  <2> QED
    BY <1>6, <1>8, <2>1, <2>2, LockStays
<1>9. CASE SemResumed(r)
  <2>1. stage[r] = "sem"
    BY <1>1, <1>9 DEF SemResumed, Inv, ResourceInv, Balanced, Members, SemWaiters
  <2>2. LockTimes'
    BY <1>6, <1>9, <2>1, AskLockTimes DEF SemResumed
  <2> QED
    BY <1>2, <1>5, <2>2 DEF LockInv
<1>10. CASE LockResumed(r)
  BY <1>2, <1>5, <1>6, <1>10, LockResumedTimes DEF LockInv
<1>11. CASE Prepared(r)
  <2>1. r \in LockHolders /\ stage[r] = "prepare"
    BY <1>11 DEF Prepared, LockHolders
  <2>2. CASE Go(r, "run", sem, lock)
    <3>1. lock' = lock /\ stage'[r] = "run"
      BY <1>4, <2>2 DEF Go
    <3>2. spent[r] <= FetchTime
      BY <1>1, <1>7, <2>1 DEF TimedInv, ClocksAgree, Bounded
    <3>3. Rest(r)' <= Rest(r)
      BY <1>7, <2>1, <3>1, <3>2 DEF Rest
    <3> QED
      BY <1>2, <1>5, <1>8, <2>1, <3>1, <3>3 DEF LockInv
  <2>3. CASE Leaving(r, "error")
    <3>1. lock' = Release(lock) /\ stage'[r] = "done"
      BY <1>4, <2>3 DEF Leaving, Finish
    <3> QED
      BY <1>2, <1>5, <1>6, <2>1, <3>1, HandedOn DEF LockInv
  <2> QED
    BY <1>11, <2>2, <2>3 DEF Prepared
<1>12. CASE RunEnds(r)
  <2>1. r \in LockHolders
    BY <1>12 DEF RunEnds, LockHolders
  <2>2. CASE Leaving(r, "ok") \/ Leaving(r, "error")
    <3>1. lock' = Release(lock) /\ stage'[r] = "done"
      BY <1>4, <2>2 DEF Leaving, Finish
    <3> QED
      BY <1>2, <1>5, <1>6, <2>1, <3>1, HandedOn DEF LockInv
  <2>3. CASE Repair(r)
    BY <1>2, <1>5, <1>6, <2>1, <2>3, RepairTimes DEF LockInv, Repair
  <2> QED
    BY <1>12, <2>2, <2>3 DEF RunEnds
<1>13. CASE RunTimesOut(r)
  <2>1. stage[r] = "run" /\ stage'[r] = "cleanup" /\ lock' = lock
    BY <1>4, <1>13 DEF RunTimesOut, BeginCleanup
  <2>2. spent[r] = CodexTimeout
    BY <1>7, <2>1 DEF Work
  <2>3. Rest(r)' <= Rest(r)
    BY <1>7, <2>1, <2>2 DEF Rest
  <2> QED
    BY <1>2, <1>5, <1>8, <2>1, <2>3 DEF LockInv, LockHolders
<1>14. CASE CleanupEnds(r)
  <2>1. r \in LockHolders /\ lock' = Release(lock) /\ stage'[r] = "done"
    BY <1>4, <1>14 DEF CleanupEnds, Leaving, Finish, LockHolders
  <2> QED
    BY <1>2, <1>5, <1>6, <2>1, HandedOn DEF LockInv
<1>15. CASE Generated(r)
  <2>1. r \in LockHolders /\ lock' = Release(lock) /\ stage'[r] = "done"
    BY <1>4, <1>15 DEF Generated, Finish, LockHolders
  <2> QED
    BY <1>2, <1>5, <1>6, <2>1, HandedOn DEF LockInv
<1> QED
  BY <1>1, <1>9, <1>10, <1>11, <1>12, <1>13, <1>14, <1>15 DEF Serve

(* A tick takes from the holder what it adds to those who wait.            *)
LEMMA TickLockInv ==
    ASSUME LockInv, Tick
    PROVE  LockInv'
<1>1. TimedInv /\ Inv /\ LockTimes
  BY DEF LockInv, TimedInv
<1>2. /\ UNCHANGED vars /\ lock.woken = {} /\ lock' = lock /\ stage' = stage /\ kind' = kind
      /\ spent' = [r \in Requests |-> IF stage[r] \in Bounded \cup {"lock"}
                                      THEN spent[r] + 1 ELSE spent[r]]
  BY DEF Tick, vars
<1>3. TimedInv'
  BY <1>1, TickTimed, SidecarAssumption, DeadlinesAssumption
<1>4. ArrivalInv' /\ Turns(Contenders)' = Turns(Contenders) /\ Contenders \in Nat
  BY <1>2, NobodyArrives
<1>5. Turns(Contenders) \in Nat
  BY <1>4, TurnsAddUp, DeadlinesAssumption
<1>6. /\ spent \in [Requests -> Nat] /\ lock.queue \in Seq(Requests)
      /\ \A i \in 1..Len(lock.queue) :
            lock.queue[i] \in Requests /\ stage[lock.queue[i]] = "lock"
  <2>1. \A i \in 1..Len(lock.queue) : lock.queue[i] \in Waiting(lock)
    BY DEF Waiting
  <2>2. lock.queue \in Seq(Requests) /\ spent \in [Requests -> Nat]
    BY <1>1, OneAtATime DEF TimedInv, ClockTypes
  <2>3. \A i \in 1..Len(lock.queue) : lock.queue[i] \in Requests
    BY <2>2
  <2>4. \A i \in 1..Len(lock.queue) : stage[lock.queue[i]] = "lock"
    BY <1>1, <2>1, <2>3, OneAtATime
  <2> QED
    BY <2>2, <2>3, <2>4
<1>7. ASSUME NEW h \in LockHolders'
      PROVE  Within(lock.queue, spent', Rest(h)', Turns(Contenders))
  <2>1. h \in LockHolders /\ h \in Requests /\ stage[h] \in Bounded
    BY <1>2, <1>7 DEF LockHolders, Bounded
  <2>2. Rest(h) \in Int /\ Within(lock.queue, spent, Rest(h), Turns(Contenders))
    BY <1>1, <2>1, RestFits DEF LockTimes
  <2>3. spent'[h] = spent[h] + 1 /\ spent[h] \in Nat
    BY <1>2, <1>6, <2>1
  <2>4. Rest(h)' = Rest(h) - 1
    BY <1>2, <2>1, <2>3, DeadlinesAssumption DEF Rest, Bounded, DeadlinesAssumption
  <2>5. ASSUME NEW i \in 1..Len(lock.queue)
        PROVE  spent'[lock.queue[i]] + Rest(h)' + Turns(i - 1) <= Turns(Contenders)
    <3>1. spent'[lock.queue[i]] = spent[lock.queue[i]] + 1 /\ spent[lock.queue[i]] \in Nat
      BY <1>2, <1>6, <2>5
    <3>2. spent[lock.queue[i]] + Rest(h) + Turns(i - 1) <= Turns(Contenders)
      BY <2>2 DEF Within
    <3>3. i - 1 \in Nat
      BY <1>6
    <3>4. Turns(i - 1) \in Nat
      BY <3>3, TurnsAddUp, DeadlinesAssumption
    <3> QED
      BY <1>5, <2>2, <2>4, <3>1, <3>2, <3>4
  <2> QED
    BY <2>5 DEF Within
<1>8. LockTimes'
  <2>1. lock'.woken = {} /\ lock'.queue = lock.queue
    BY <1>2
  <2> QED
    BY <1>4, <1>7, <2>1 DEF LockTimes, Within
<1> QED
  BY <1>3, <1>4, <1>8 DEF LockInv

LEMMA SameLockTimes ==
    ASSUME LockInv, TimedInv', UNCHANGED <<vars, spent>>
    PROVE  LockInv'
<1>1. lock' = lock /\ stage' = stage /\ kind' = kind /\ spent' = spent
  BY DEF vars
<1>2. ArrivalInv' /\ Turns(Contenders)' = Turns(Contenders)
  BY <1>1, NobodyArrives
<1>3. LockHolders' = LockHolders /\ \A h \in LockHolders : Rest(h)' = Rest(h)
  BY <1>1 DEF LockHolders, Rest
<1>4. LockTimes
  BY DEF LockInv
<1>5. LockTimes'
  BY <1>1, <1>2, <1>3, <1>4 DEF LockTimes, Within
<1> QED
  BY <1>2, <1>5 DEF LockInv

LEMMA InitLockInv ==
    ASSUME SidecarAssumption, DeadlinesAssumption, TimedInit
    PROVE  LockInv
<1>1. TimedInv
  BY InitTimed
<1>2. /\ lock.queue = <<>> /\ lock.woken = {} /\ LockHolders = {}
      /\ \A r \in Requests : kind[r] = "none"
  BY DEF TimedInit, Init, Unused, LockHolders
<1>3. LockTimes
  BY <1>2 DEF LockTimes
<1>4. Images = {}
  BY <1>2 DEF Images
<1>5. ArrivalInv
  BY <1>2, <1>4, FS_EmptySet DEF ArrivalInv
<1> QED
  BY <1>1, <1>3, <1>5 DEF LockInv

LEMMA NextLockInv ==
    ASSUME SidecarAssumption, DeadlinesAssumption
    PROVE  LockInv /\ [TimedNext]_timedVars => LockInv'
<1> SUFFICES ASSUME LockInv, [TimedNext]_timedVars
             PROVE  LockInv'
  OBVIOUS
<1>1. CASE Tick
  BY <1>1, TickLockInv
<1>2. ASSUME NEW r \in Requests, Post(r)
      PROVE  LockInv'
  BY <1>2, PostLockInv
<1>3. ASSUME NEW r \in Requests, Work(r)
      PROVE  LockInv'
  BY <1>3, WorkLockInv
<1>4. ASSUME NEW r \in Requests, Abandon(r)
      PROVE  LockInv'
  BY <1>4, AbandonTimed, SameLockTimes DEF LockInv, Abandon
<1>5. CASE UNCHANGED timedVars
  <2>1. UNCHANGED <<vars, spent>>
    BY <1>5 DEF timedVars, clocks
  <2>2. Inv'
    BY <2>1, NextInv DEF LockInv, TimedInv
  <2>3. ClockTypes' /\ stage' = stage /\ kind' = kind
        /\ call' = call /\ age' = age /\ spent' = spent /\ delayed' = delayed
    BY <1>5 DEF timedVars, clocks, vars, LockInv, TimedInv, ClockTypes
  <2>4. \A r \in Requests : ClocksAgree(r)' /\ OnTime(r)'
    BY <2>3 DEF LockInv, TimedInv, ClocksAgree, OnTime
  <2> QED
    BY <2>1, <2>2, <2>3, <2>4, SameLockTimes DEF TimedInv
<1> QED
  BY <1>1, <1>2, <1>3, <1>4, <1>5 DEF TimedNext

LEMMA LockInvariance == TimedSpec => []LockInv
BY SidecarAssumption, DeadlinesAssumption, InitLockInv, NextLockInv, PTL DEF TimedSpec

-----------------------------------------------------------------------------
(* The theorems of the sidecar in time                                     *)

(* Types of the clocks, and a call for each request that came.             *)
THEOREM DeadlinesTypeCorrect == TimedSpec => []DeadlinesTypeOK
<1>1. ASSUME SidecarAssumption, LockInv PROVE DeadlinesTypeOK
  <2>1. SidecarTypeOK
    BY <1>1, InvTypeOK DEF LockInv, TimedInv
  <2> QED
    BY <1>1, <2>1 DEF LockInv, TimedInv, ClockTypes, ClocksAgree, DeadlinesTypeOK
<1> QED
  BY <1>1, SidecarAssumption, LockInvariance, PTL

(* The gateway never gives up a completion that met no queue, fetched no   *)
(* image and needed no repair, whatever the two deadlines are as long as   *)
(* the margin between them exceeds the cleanup of a run.                   *)
THEOREM MarginSuffices == TimedSpec => []UndelayedIsAnswered
<1>1. ASSUME LockInv PROVE UndelayedIsAnswered
  BY <1>1 DEF LockInv, TimedInv, OnTime, UndelayedIsAnswered
<1> QED
  BY <1>1, LockInvariance, PTL

(* Nobody waits for the lock longer than one tenure of each contender,     *)
(* however many repair, time out, fail or were given up by the gateway.    *)
THEOREM LockWaitIsBounded == TimedSpec => []LockWaitBounded
<1>1. ASSUME LockInv PROVE LockWaitBounded
  <2> SUFFICES ASSUME NEW r \in Requests, stage[r] = "lock"
               PROVE  spent[r] <= Turns(Contenders)
    BY DEF LockWaitBounded, Turns
  <2>1. TimedInv /\ Inv /\ LockTimes /\ ArrivalInv /\ spent \in [Requests -> Nat]
    BY <1>1 DEF LockInv, TimedInv, ClockTypes
  <2>2. CASE r \in lock.woken
    BY <2>1, <2>2 DEF LockTimes
  <2>3. CASE r \in Waiting(lock)
    <3>1. PICK i \in 1..Len(lock.queue) : lock.queue[i] = r
      BY <2>3 DEF Waiting
    <3>2. lock.queue \in Seq(Requests) /\ lock.queue # <<>>
      BY <2>1, <3>1, OneAtATime
    <3>3. PICK x \in Nat : Within(lock.queue, spent, x, Turns(Contenders))
      <4>1. Tenure \in Nat
        BY TenureCovers, DeadlinesAssumption
      <4>2. lock.woken # {} \/ LockHolders # {}
        BY <2>1, <3>2, OneAtATime
      <4>3. \A h \in LockHolders : Rest(h) \in Nat
        BY <2>1, RestFits, <4>1
      <4> QED
        BY <2>1, <4>1, <4>2, <4>3 DEF LockTimes
    <3>4. i - 1 \in Nat
      BY <3>2
    <3>5. Turns(i - 1) \in Nat /\ Turns(Contenders) \in Nat
      BY <2>1, <3>4, QueueFits, TurnsAddUp, DeadlinesAssumption
    <3>6. spent[r] + x + Turns(i - 1) <= Turns(Contenders)
      BY <3>1, <3>3 DEF Within
    <3> QED
      BY <2>1, <3>5, <3>6
  <2> QED
    BY <2>1, <2>2, <2>3, OneAtATime
<1> QED
  BY <1>1, LockInvariance, PTL

(* The sidecar in time is the sidecar: deadlines and calls that are given  *)
(* up allow it no step it would not take otherwise, so that what holds of  *)
(* it by itself holds behind the gateway.                                  *)
THEOREM TimeAddsNoSteps == TimedSpec => Spec
<1>1. TimedInit => Init
  BY DEF TimedInit
<1>2. [TimedNext]_timedVars => [Next]_vars
  <2> SUFFICES ASSUME [TimedNext]_timedVars
               PROVE  [Next]_vars
    OBVIOUS
  <2>1. CASE Tick
    BY <2>1 DEF Tick
  <2>2. ASSUME NEW r \in Requests, Post(r) \/ Work(r)
        PROVE  Next
    BY <2>2 DEF Post, Work, Next
  <2>3. ASSUME NEW r \in Requests, Abandon(r)
        PROVE  UNCHANGED vars
    BY <2>3 DEF Abandon
  <2>4. CASE UNCHANGED timedVars
    BY <2>4 DEF timedVars
  <2> QED
    BY <2>1, <2>2, <2>3, <2>4 DEF TimedNext
<1> QED
  BY <1>1, <1>2, PTL DEF Spec, TimedSpec
=============================================================================

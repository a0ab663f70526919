--------------------------- MODULE AsyncSemaphore ---------------------------
(***************************************************************************)
(* The value of an asyncio.Semaphore, which the gateway and the sidecar    *)
(* take with `async with`; an asyncio.Lock behaves as one with a single    *)
(* permit.  External code: what it does is that of the standard library    *)
(* (CPython 3.11; later versions wake several waiters in one resumption    *)
(* where this one wakes a chain of them, which differs only from three     *)
(* permits up).                                                            *)
(*                                                                         *)
(* A waiter is a future in a deque.  release() gives the permit to the     *)
(* first future that has none; its task resumes in a later turn of the     *)
(* event loop and leaves the deque only then.  In between the permit is    *)
(* spent, and newcomers queue even if another permit is free.              *)
(***************************************************************************)
EXTENDS Integers, Sequences, FiniteSets

Semaphores(Tasks, n) ==
    [permits : 0..n, queue : Seq(Tasks), woken : SUBSET Tasks]

Unused(n) == [permits |-> n, queue |-> <<>>, woken |-> {}]

(* The tasks whose future has no result yet.                               *)
Waiting(s) == {s.queue[i] : i \in 1..Len(s.queue)}

(* _wake_up_next(): the oldest waiting future is given a permit.           *)
WakeNext(s) ==
    IF s.queue = <<>>
    THEN s
    ELSE [permits |-> s.permits - 1,
          queue   |-> Tail(s.queue),
          woken   |-> s.woken \cup {Head(s.queue)}]

-----------------------------------------------------------------------------
(* acquire()                                                               *)

(* Not locked(): a permit is free and no future is in the deque.           *)
CanTake(s) == s.permits > 0 /\ s.queue = <<>> /\ s.woken = {}

Take(s) == [s EXCEPT !.permits = @ - 1]

Enqueue(s, t) == [s EXCEPT !.queue = Append(@, t)]

Leave(s, t) == [s EXCEPT !.woken = @ \ {t}]

(* Mutant: a resumed task leaves the permits that became free to nobody.   *)
ResumeSilently(s, t) == Leave(s, t)

(* A woken task runs again: the permit is its own, and if another became   *)
(* free meanwhile it wakes the next in line.                               *)
Resume(s, t) ==
    IF s.permits > 0 THEN WakeNext(Leave(s, t)) ELSE Leave(s, t)

(* release()                                                               *)
Release(s) == WakeNext([s EXCEPT !.permits = @ + 1])

(* Its task is cancelled while the future has no result.                   *)
CancelWaiting(s, t) ==
    LET i == CHOOSE j \in 1..Len(s.queue) : s.queue[j] = t
    IN  [s EXCEPT !.queue = SubSeq(@, 1, i - 1) \o SubSeq(@, i + 1, Len(@))]

(* Mutant: a task cancelled with the permit already its own loses it.      *)
CancelWokenLosing(s, t) == Leave(s, t)

(* Mutant: the permit is given back, but nobody is woken for it.           *)
CancelWokenSilently(s, t) == [Leave(s, t) EXCEPT !.permits = @ + 1]

(* Its task is cancelled after the permit was given: it is given back.     *)
CancelWoken(s, t) == Release(Leave(s, t))
=============================================================================

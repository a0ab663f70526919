-------------------------- MODULE SemaphoreTheorems --------------------------
(***************************************************************************)
(* What the operations of an asyncio.Semaphore preserve, for any tasks and *)
(* any number of permits.                                                  *)
(***************************************************************************)
EXTENDS AsyncSemaphore, FiniteSetTheorems, SequenceTheorems, TLAPS

(* No task is in the deque twice, or both waiting and woken.               *)
WellFormed(s, Tasks) ==
    /\ s \in [permits : Nat, queue : Seq(Tasks), woken : SUBSET Tasks]
    /\ IsFiniteSet(s.woken)
    /\ \A i \in 1..Len(s.queue) : s.queue[i] \notin s.woken
    /\ \A i, j \in 1..Len(s.queue) : s.queue[i] = s.queue[j] => i = j

(* No permit lies idle while somebody waits and nobody is about to run.    *)
NoIdlePermit(s) == s.permits > 0 /\ s.queue # <<>> => s.woken # {}

(* The permits that no running task holds.                                 *)
Spare(s) == s.permits + Cardinality(s.woken)

(* The tasks inside acquire().                                             *)
Members(s) == Waiting(s) \cup s.woken

(* Waking the next in line moves one permit and one task, if anybody waits.*)
LEMMA WakeNextKeeps ==
    ASSUME NEW Tasks, NEW s, WellFormed(s, Tasks), s.permits > 0
    PROVE  /\ WellFormed(WakeNext(s), Tasks)
           /\ NoIdlePermit(WakeNext(s))
           /\ Spare(WakeNext(s)) = Spare(s)
           /\ Members(WakeNext(s)) = Members(s)
<1>1. CASE s.queue = <<>>
  BY <1>1 DEF WakeNext, NoIdlePermit
<1>2. CASE s.queue # <<>>
  <2> DEFINE h == Head(s.queue)
             q == Tail(s.queue)
             w == s.woken \cup {h}
  <2>1. /\ s.permits \in Nat
        /\ s.queue \in Seq(Tasks)
        /\ s.woken \in SUBSET Tasks
    BY DEF WellFormed
  <2>2. /\ h \in Tasks
        /\ q \in Seq(Tasks)
        /\ Len(q) = Len(s.queue) - 1
        /\ \A i \in 1..Len(q) : q[i] = s.queue[i + 1]
    BY <1>2, <2>1, HeadTailProperties
  <2>3. /\ h = s.queue[1]
        /\ Len(s.queue) \in Nat
        /\ 1 \in 1..Len(s.queue)
    BY <1>2, <2>1
  <2> HIDE DEF h, q
  <2>4. WakeNext(s) = [permits |-> s.permits - 1, queue |-> q, woken |-> w]
    BY <1>2 DEF WakeNext, h, q
  <2>5. h \notin s.woken
    BY <2>3 DEF WellFormed
  <2>6. IsFiniteSet(w) /\ Cardinality(w) = Cardinality(s.woken) + 1
    BY <2>5, FS_AddElement, Zenon DEF WellFormed
  <2>7. Cardinality(s.woken) \in Nat
    BY FS_CardinalityType DEF WellFormed
  <2>8. \A i \in 1..Len(q) :
           /\ i + 1 \in 1..Len(s.queue)
           /\ q[i] = s.queue[i + 1]
           /\ i + 1 # 1
    BY <2>2, <2>3
  <2>9. \A i \in 1..Len(q) : q[i] \notin w
    BY <2>3, <2>8 DEF WellFormed
  <2>10. \A i, j \in 1..Len(q) : q[i] = q[j] => i = j
    <3> SUFFICES ASSUME NEW i \in 1..Len(q), NEW j \in 1..Len(q), q[i] = q[j]
                 PROVE  i = j
      OBVIOUS
    <3>1. i + 1 = j + 1
      BY <2>8 DEF WellFormed
    <3> QED
      BY <3>1
  <2>11. WellFormed(WakeNext(s), Tasks)
    <3>1. WakeNext(s) \in [permits : Nat, queue : Seq(Tasks), woken : SUBSET Tasks]
      BY <2>1, <2>2, <2>4
    <3> QED
      BY <3>1, <2>4, <2>6, <2>9, <2>10 DEF WellFormed
  <2>12. NoIdlePermit(WakeNext(s))
    BY <2>4 DEF NoIdlePermit
  <2>13. Spare(WakeNext(s)) = Spare(s)
    BY <2>1, <2>4, <2>6, <2>7 DEF Spare
  <2>14. Members(WakeNext(s)) = Members(s)
    <3>1. Members(WakeNext(s)) = {q[i] : i \in 1..Len(q)} \cup w
      BY <2>4 DEF Members, Waiting
    <3>2. {q[i] : i \in 1..Len(q)} \cup {h} = Waiting(s)
      <4>1. ASSUME NEW i \in 1..Len(s.queue)
            PROVE  s.queue[i] = h \/ \E j \in 1..Len(q) : q[j] = s.queue[i]
        <5>1. CASE i = 1
          BY <5>1, <2>3
        <5>2. CASE i # 1
          <6>1. i - 1 \in 1..Len(q) /\ (i - 1) + 1 = i
            BY <2>2, <2>3, <5>2
          <6> QED
            BY <6>1, <2>2
        <5> QED
          BY <5>1, <5>2
      <4>2. Waiting(s) \subseteq {q[i] : i \in 1..Len(q)} \cup {h}
        BY <4>1 DEF Waiting
      <4>3. h \in Waiting(s)
        BY <2>3 DEF Waiting
      <4>4. {q[i] : i \in 1..Len(q)} \subseteq Waiting(s)
        BY <2>8 DEF Waiting
      <4> QED
        BY <4>2, <4>3, <4>4
    <3> QED
      BY <3>1, <3>2 DEF Members
  <2> QED
    BY <2>11, <2>12, <2>13, <2>14
<1> QED
  BY <1>1, <1>2

(* release() adds one spare permit and forgets nobody.                     *)
LEMMA ReleaseKeeps ==
    ASSUME NEW Tasks, NEW s, WellFormed(s, Tasks)
    PROVE  /\ WellFormed(Release(s), Tasks)
           /\ NoIdlePermit(Release(s))
           /\ Spare(Release(s)) = Spare(s) + 1
           /\ Members(Release(s)) = Members(s)
<1> DEFINE t == [s EXCEPT !.permits = @ + 1]
<1>1. /\ t.permits = s.permits + 1
      /\ t.queue = s.queue
      /\ t.woken = s.woken
      /\ t \in [permits : Nat, queue : Seq(Tasks), woken : SUBSET Tasks]
      /\ s.permits \in Nat
  BY DEF WellFormed
<1> HIDE DEF t
<1>2. WellFormed(t, Tasks) /\ t.permits > 0
  BY <1>1 DEF WellFormed
<1>3. Cardinality(s.woken) \in Nat
  BY FS_CardinalityType DEF WellFormed
<1>4. Spare(t) = Spare(s) + 1 /\ Members(t) = Members(s)
  BY <1>1, <1>3 DEF Spare, Members, Waiting
<1>5. Release(s) = WakeNext(t)
  BY DEF Release, t
<1> QED
  BY <1>2, <1>4, <1>5, WakeNextKeeps

(* A woken task leaves with the permit that was spent on it.               *)
LEMMA LeaveKeeps ==
    ASSUME NEW Tasks, NEW s, WellFormed(s, Tasks), NEW t \in s.woken
    PROVE  /\ WellFormed(Leave(s, t), Tasks)
           /\ Leave(s, t).permits = s.permits
           /\ Leave(s, t).queue = s.queue
           /\ Spare(Leave(s, t)) = Spare(s) - 1
           /\ Members(Leave(s, t)) = Members(s) \ {t}
<1>1. /\ s.permits \in Nat
      /\ s \in [permits : Nat, queue : Seq(Tasks), woken : SUBSET Tasks]
      /\ IsFiniteSet(s.woken)
  BY DEF WellFormed
<1>2. /\ Leave(s, t).permits = s.permits
      /\ Leave(s, t).queue = s.queue
      /\ Leave(s, t).woken = s.woken \ {t}
      /\ Leave(s, t) \in [permits : Nat, queue : Seq(Tasks), woken : SUBSET Tasks]
  <2>1. s.woken \ {t} \in SUBSET Tasks
    BY <1>1
  <2> DEFINE w == s.woken \ {t}
  <2>2. Leave(s, t) = [s EXCEPT !.woken = w]
    BY DEF Leave
  <2> HIDE DEF w
  <2>3. w \in SUBSET Tasks
    BY <2>1 DEF w
  <2>4. /\ [s EXCEPT !.woken = w].permits = s.permits
        /\ [s EXCEPT !.woken = w].queue = s.queue
        /\ [s EXCEPT !.woken = w].woken = w
        /\ [s EXCEPT !.woken = w] \in [permits : Nat, queue : Seq(Tasks), woken : SUBSET Tasks]
    BY <1>1, <2>3
  <2> QED
    BY <2>2, <2>4 DEF w
<1>3. /\ IsFiniteSet(s.woken \ {t})
      /\ Cardinality(s.woken \ {t}) = Cardinality(s.woken) - 1
      /\ Cardinality(s.woken) \in Nat
  <2>1. /\ IsFiniteSet(s.woken \ {t})
        /\ Cardinality(s.woken \ {t}) =
             IF t \in s.woken THEN Cardinality(s.woken) - 1 ELSE Cardinality(s.woken)
    BY <1>1, FS_RemoveElement, Zenon
  <2>2. Cardinality(s.woken) \in Nat
    BY <1>1, FS_CardinalityType
  <2> QED
    BY <2>1, <2>2
<1>4. WellFormed(Leave(s, t), Tasks)
  BY <1>1, <1>2, <1>3 DEF WellFormed
<1>5. Spare(Leave(s, t)) = Spare(s) - 1
  BY <1>1, <1>2, <1>3 DEF Spare
<1>6. Members(Leave(s, t)) = Members(s) \ {t}
  BY <1>2 DEF Members, Waiting, WellFormed
<1> QED
  BY <1>2, <1>4, <1>5, <1>6

(* acquire() of a woken task takes one spare permit and passes on another. *)
LEMMA ResumeKeeps ==
    ASSUME NEW Tasks, NEW s, WellFormed(s, Tasks), NEW t \in s.woken
    PROVE  /\ WellFormed(Resume(s, t), Tasks)
           /\ NoIdlePermit(Resume(s, t))
           /\ Spare(Resume(s, t)) = Spare(s) - 1
           /\ Members(Resume(s, t)) = Members(s) \ {t}
<1>1. CASE s.permits > 0
  BY <1>1, LeaveKeeps, WakeNextKeeps DEF Resume
<1>2. CASE ~ (s.permits > 0)
  BY <1>2, LeaveKeeps DEF Resume, NoIdlePermit
<1> QED
  BY <1>1, <1>2

(* acquire() that need not wait takes one spare permit.                    *)
LEMMA TakeKeeps ==
    ASSUME NEW Tasks, NEW s, WellFormed(s, Tasks), CanTake(s)
    PROVE  /\ WellFormed(Take(s), Tasks)
           /\ NoIdlePermit(Take(s))
           /\ Spare(Take(s)) = Spare(s) - 1
           /\ Members(Take(s)) = Members(s)
<1>1. /\ s.permits \in Nat /\ s.permits > 0
      /\ s \in [permits : Nat, queue : Seq(Tasks), woken : SUBSET Tasks]
      /\ s.queue = <<>>
  BY DEF WellFormed, CanTake
<1>2. Take(s) = [permits |-> s.permits - 1, queue |-> s.queue, woken |-> s.woken]
  BY <1>1 DEF Take
<1>3. Cardinality(s.woken) \in Nat
  BY FS_CardinalityType DEF WellFormed
<1>4. WellFormed(Take(s), Tasks)
  BY <1>1, <1>2 DEF WellFormed
<1> QED
  BY <1>1, <1>2, <1>3, <1>4 DEF NoIdlePermit, Spare, Members, Waiting

(* acquire() that must wait joins the deque, and leaves no permit idle.    *)
LEMMA EnqueueKeeps ==
    ASSUME NEW Tasks, NEW s, WellFormed(s, Tasks), NoIdlePermit(s), ~ CanTake(s),
           NEW t \in Tasks, t \notin Members(s)
    PROVE  /\ WellFormed(Enqueue(s, t), Tasks)
           /\ NoIdlePermit(Enqueue(s, t))
           /\ Spare(Enqueue(s, t)) = Spare(s)
           /\ Members(Enqueue(s, t)) = Members(s) \cup {t}
<1> DEFINE q == Append(s.queue, t)
<1>1. /\ s \in [permits : Nat, queue : Seq(Tasks), woken : SUBSET Tasks]
      /\ s.queue \in Seq(Tasks) /\ Len(s.queue) \in Nat
      /\ IsFiniteSet(s.woken)
  BY DEF WellFormed
<1>2. /\ q \in Seq(Tasks)
      /\ Len(q) = Len(s.queue) + 1
      /\ \A i \in 1..Len(s.queue) : q[i] = s.queue[i]
      /\ q[Len(s.queue) + 1] = t
  BY <1>1, AppendProperties
<1> HIDE DEF q
<1>3. Enqueue(s, t) = [permits |-> s.permits, queue |-> q, woken |-> s.woken]
  BY <1>1 DEF Enqueue, q
<1>4. \A i \in 1..Len(q) : i \in 1..Len(s.queue) \/ i = Len(s.queue) + 1
  BY <1>1, <1>2
<1>5. t \notin s.woken /\ \A i \in 1..Len(s.queue) : s.queue[i] # t
  BY DEF Members, Waiting
<1>6. \A i \in 1..Len(q) : q[i] \notin s.woken
  BY <1>2, <1>4, <1>5 DEF WellFormed
<1>7. \A i, j \in 1..Len(q) : q[i] = q[j] => i = j
  BY <1>2, <1>4, <1>5 DEF WellFormed
<1>8. WellFormed(Enqueue(s, t), Tasks)
  <2>1. Enqueue(s, t) \in [permits : Nat, queue : Seq(Tasks), woken : SUBSET Tasks]
    BY <1>1, <1>2, <1>3
  <2> QED
    BY <2>1, <1>1, <1>3, <1>6, <1>7 DEF WellFormed
<1>9. NoIdlePermit(Enqueue(s, t))
  BY <1>3 DEF NoIdlePermit, CanTake
<1>10. Spare(Enqueue(s, t)) = Spare(s)
  BY <1>3 DEF Spare
<1>11. {q[i] : i \in 1..Len(q)} = Waiting(s) \cup {t}
  <2>1. Len(s.queue) + 1 \in 1..Len(q) /\ 1..Len(s.queue) \subseteq 1..Len(q)
    BY <1>1, <1>2
  <2>2. {q[i] : i \in 1..Len(q)} \subseteq Waiting(s) \cup {t}
    BY <1>2, <1>4 DEF Waiting
  <2>3. t \in {q[i] : i \in 1..Len(q)}
    BY <2>1, <1>2
  <2>4. Waiting(s) \subseteq {q[i] : i \in 1..Len(q)}
    BY <2>1, <1>2 DEF Waiting
  <2> QED
    BY <2>2, <2>3, <2>4
<1>12. Members(Enqueue(s, t)) = Members(s) \cup {t}
  <2>1. Enqueue(s, t).queue = q /\ Enqueue(s, t).woken = s.woken
    BY <1>3
  <2>2. Waiting(Enqueue(s, t)) = {q[i] : i \in 1..Len(q)}
    BY <2>1 DEF Waiting
  <2> QED
    BY <1>11, <2>1, <2>2 DEF Members
<1> QED
  BY <1>8, <1>9, <1>10, <1>12

(* A waiter that is cancelled leaves the deque; nobody else moves.         *)
LEMMA CancelWaitingKeeps ==
    ASSUME NEW Tasks, NEW s, WellFormed(s, Tasks), NoIdlePermit(s),
           NEW t \in Waiting(s)
    PROVE  /\ WellFormed(CancelWaiting(s, t), Tasks)
           /\ NoIdlePermit(CancelWaiting(s, t))
           /\ Spare(CancelWaiting(s, t)) = Spare(s)
           /\ Members(CancelWaiting(s, t)) = Members(s) \ {t}
<1> DEFINE n == Len(s.queue)
           i == CHOOSE j \in 1..n : s.queue[j] = t
           a == SubSeq(s.queue, 1, i - 1)
           b == SubSeq(s.queue, i + 1, n)
           q == a \o b
<1>1. /\ s \in [permits : Nat, queue : Seq(Tasks), woken : SUBSET Tasks]
      /\ s.queue \in Seq(Tasks) /\ n \in Nat
      /\ \A j \in 1..n : s.queue[j] \in Tasks
      /\ IsFiniteSet(s.woken)
  BY ElementOfSeq DEF WellFormed
<1>2. i \in 1..n /\ s.queue[i] = t
  BY DEF Waiting
<1>3. CancelWaiting(s, t) = [permits |-> s.permits, queue |-> q, woken |-> s.woken]
  <2>1. CancelWaiting(s, t) = [s EXCEPT !.queue = q]
    BY DEF CancelWaiting
  <2> HIDE DEF q
  <2>2. [s EXCEPT !.queue = q] = [permits |-> s.permits, queue |-> q, woken |-> s.woken]
    BY <1>1
  <2> QED
    BY <2>1, <2>2
<1> HIDE DEF n, i
<1>4. /\ a \in Seq(Tasks)
      /\ Len(a) = i - 1
      /\ \A j \in 1..(i - 1) : a[j] = s.queue[j]
  <2>1. \A j \in 1..(i - 1) : s.queue[j] \in Tasks
    BY <1>1, <1>2
  <2>2. i - 1 \in Int /\ 1 \in Int /\ (i - 1) - 1 + 1 = i - 1
    BY <1>1, <1>2
  <2>3. /\ a \in Seq(Tasks)
        /\ Len(a) = IF 1 <= i - 1 THEN (i - 1) - 1 + 1 ELSE 0
        /\ \A j \in 1..((i - 1) - 1 + 1) : a[j] = s.queue[1 + j - 1]
    BY <2>1, <2>2, SubSeqProperties
  <2> QED
    BY <1>1, <1>2, <2>2, <2>3
<1>5. /\ b \in Seq(Tasks)
      /\ Len(b) = n - i
      /\ \A j \in 1..(n - i) : b[j] = s.queue[i + j]
  <2>1. \A j \in (i + 1)..n : s.queue[j] \in Tasks
    BY <1>1, <1>2
  <2>2. i + 1 \in Int /\ n \in Int /\ n - (i + 1) + 1 = n - i
    BY <1>1, <1>2
  <2>3. /\ b \in Seq(Tasks)
        /\ Len(b) = IF i + 1 <= n THEN n - (i + 1) + 1 ELSE 0
        /\ \A j \in 1..(n - (i + 1) + 1) : b[j] = s.queue[(i + 1) + j - 1]
    BY <2>1, <2>2, SubSeqProperties
  <2> QED
    BY <1>1, <1>2, <2>2, <2>3
<1> HIDE DEF a, b
<1>6. /\ q \in Seq(Tasks)
      /\ Len(q) = n - 1
      /\ \A j \in 1..(n - 1) : q[j] = IF j < i THEN s.queue[j] ELSE s.queue[j + 1]
  <2>1. /\ q \in Seq(Tasks)
        /\ Len(q) = Len(a) + Len(b)
        /\ \A j \in 1..(Len(a) + Len(b)) :
              q[j] = IF j <= Len(a) THEN a[j] ELSE b[j - Len(a)]
    BY <1>4, <1>5, ConcatProperties
  <2> HIDE DEF q
  <2>2. Len(a) + Len(b) = n - 1
    BY <1>1, <1>2, <1>4, <1>5
  <2>3. ASSUME NEW j \in 1..(n - 1)
        PROVE  q[j] = IF j < i THEN s.queue[j] ELSE s.queue[j + 1]
    <3>1. CASE j < i
      <4>1. j \in 1..(i - 1) /\ j <= Len(a)
        BY <1>1, <1>2, <1>4, <3>1
      <4> QED
        BY <1>4, <2>1, <2>2, <3>1, <4>1
    <3>2. CASE ~ (j < i)
      <4>1. ~ (j <= Len(a)) /\ j - Len(a) \in 1..(n - i) /\ i + (j - Len(a)) = j + 1
        BY <1>1, <1>2, <1>4, <3>2
      <4> QED
        BY <1>5, <2>1, <2>2, <3>2, <4>1
    <3> QED
      BY <3>1, <3>2
  <2> QED
    BY <2>1, <2>2, <2>3
<1> HIDE DEF q
(* Where an entry of the shorter deque stood before.                       *)
<1> DEFINE was(j) == IF j < i THEN j ELSE j + 1
<1>7. \A j \in 1..Len(q) :
         was(j) \in 1..n /\ was(j) # i /\ q[j] = s.queue[was(j)]
  BY <1>1, <1>2, <1>6
<1>8. \A j, k \in 1..Len(q) : was(j) = was(k) => j = k
  BY <1>1, <1>2, <1>6
<1>9. \A j \in 1..n : j # i => \E k \in 1..Len(q) : was(k) = j
  <2> SUFFICES ASSUME NEW j \in 1..n, j # i
               PROVE  \E k \in 1..Len(q) : was(k) = j
    OBVIOUS
  <2>1. CASE j < i
    <3>1. j \in 1..Len(q) /\ was(j) = j
      BY <1>1, <1>2, <1>6, <2>1
    <3> QED
      BY <3>1
  <2>2. CASE ~ (j < i)
    <3>1. j - 1 \in 1..Len(q) /\ was(j - 1) = j
      BY <1>1, <1>2, <1>6, <2>2
    <3> QED
      BY <3>1
  <2> QED
    BY <2>1, <2>2
<1> HIDE DEF was
<1>10. \A j, k \in 1..n : s.queue[j] = s.queue[k] => j = k
  BY DEF WellFormed, n
<1>11. WellFormed(CancelWaiting(s, t), Tasks)
  <2>1. \A j \in 1..Len(q) : q[j] \notin s.woken
    BY <1>7 DEF WellFormed, n
  <2>2. \A j, k \in 1..Len(q) : q[j] = q[k] => j = k
    <3> SUFFICES ASSUME NEW j \in 1..Len(q), NEW k \in 1..Len(q), q[j] = q[k]
                 PROVE  j = k
      OBVIOUS
    <3>1. was(j) = was(k)
      BY <1>7, <1>10
    <3> QED
      BY <3>1, <1>8
  <2>3. CancelWaiting(s, t) \in [permits : Nat, queue : Seq(Tasks), woken : SUBSET Tasks]
    BY <1>1, <1>3, <1>6
  <2> QED
    BY <1>1, <1>3, <2>1, <2>2, <2>3 DEF WellFormed
<1>12. NoIdlePermit(CancelWaiting(s, t))
  <2>1. s.queue # <<>>
    BY <1>1, <1>2 DEF n
  <2> QED
    BY <1>3, <2>1 DEF NoIdlePermit
<1>13. Spare(CancelWaiting(s, t)) = Spare(s)
  BY <1>3 DEF Spare
<1>14. {q[j] : j \in 1..Len(q)} = Waiting(s) \ {t}
  <2>1. {q[j] : j \in 1..Len(q)} \subseteq Waiting(s) \ {t}
    BY <1>2, <1>7, <1>10 DEF Waiting, n
  <2>2. Waiting(s) \ {t} \subseteq {q[j] : j \in 1..Len(q)}
    <3> SUFFICES ASSUME NEW j \in 1..n, s.queue[j] # t
                 PROVE  \E k \in 1..Len(q) : q[k] = s.queue[j]
      BY DEF Waiting, n
    <3>1. PICK k \in 1..Len(q) : was(k) = j
      BY <1>2, <1>9
    <3> QED
      BY <3>1, <1>7
  <2> QED
    BY <2>1, <2>2
<1>15. Members(CancelWaiting(s, t)) = Members(s) \ {t}
  <2>1. CancelWaiting(s, t).queue = q /\ CancelWaiting(s, t).woken = s.woken
    BY <1>3
  <2>2. Waiting(CancelWaiting(s, t)) = {q[j] : j \in 1..Len(q)}
    BY <2>1 DEF Waiting
  <2>3. t \notin s.woken
    BY <1>2 DEF WellFormed, n
  <2> QED
    BY <1>14, <2>1, <2>2, <2>3 DEF Members
<1> QED
  BY <1>11, <1>12, <1>13, <1>15

(* A woken task that is cancelled passes its permit on.                    *)
LEMMA CancelWokenKeeps ==
    ASSUME NEW Tasks, NEW s, WellFormed(s, Tasks), NEW t \in s.woken
    PROVE  /\ WellFormed(CancelWoken(s, t), Tasks)
           /\ NoIdlePermit(CancelWoken(s, t))
           /\ Spare(CancelWoken(s, t)) = Spare(s)
           /\ Members(CancelWoken(s, t)) = Members(s) \ {t}
<1>1. /\ WellFormed(Leave(s, t), Tasks)
      /\ Spare(Leave(s, t)) = Spare(s) - 1
      /\ Members(Leave(s, t)) = Members(s) \ {t}
  BY LeaveKeeps
<1>2. Spare(s) \in Nat
  BY FS_CardinalityType DEF WellFormed, Spare
<1> QED
  BY <1>1, <1>2, ReleaseKeeps DEF CancelWoken

-----------------------------------------------------------------------------
(* A semaphore together with those who hold its permits and those who wait *)

(* `n` permits in all: each is spare or has one of the holders H.  Nobody  *)
(* but W is inside acquire().                                              *)
Balanced(s, Tasks, n, H, W) ==
    /\ WellFormed(s, Tasks)
    /\ NoIdlePermit(s)
    /\ IsFiniteSet(H)
    /\ Spare(s) + Cardinality(H) = n
    /\ Members(s) = W

LEMMA UnusedBalanced ==
    ASSUME NEW Tasks, NEW n \in Nat
    PROVE  Balanced(Unused(n), Tasks, n, {}, {})
<1>1. Unused(n).permits = n /\ Unused(n).queue = <<>> /\ Unused(n).woken = {}
  BY DEF Unused
<1>2. /\ Unused(n) \in [permits : Nat, queue : Seq(Tasks), woken : SUBSET Tasks]
      /\ 1..Len(<<>>) = {}
  BY DEF Unused
<1>3. WellFormed(Unused(n), Tasks)
  BY <1>1, <1>2, FS_EmptySet DEF WellFormed
<1>4. Members(Unused(n)) = {}
  BY <1>1, <1>2 DEF Members, Waiting
<1>5. Spare(Unused(n)) + Cardinality({}) = n
  BY <1>1, FS_EmptySet DEF Spare
<1> QED
  BY <1>1, <1>3, <1>4, <1>5, FS_EmptySet DEF Balanced, NoIdlePermit

(* Entering as a holder, by either way of acquire().                       *)
LEMMA TakeBalanced ==
    ASSUME NEW Tasks, NEW s, NEW n \in Nat, NEW H, NEW W, Balanced(s, Tasks, n, H, W),
           CanTake(s), NEW t, t \notin H
    PROVE  Balanced(Take(s), Tasks, n, H \cup {t}, W)
<1>1. Spare(s) \in Nat /\ Cardinality(H) \in Nat
  BY FS_CardinalityType DEF Balanced, WellFormed, Spare
<1>2. IsFiniteSet(H \cup {t}) /\ Cardinality(H \cup {t}) = Cardinality(H) + 1
  BY FS_AddElement DEF Balanced
<1> QED
  BY <1>1, <1>2, TakeKeeps DEF Balanced

LEMMA ResumeBalanced ==
    ASSUME NEW Tasks, NEW s, NEW n \in Nat, NEW H, NEW W, Balanced(s, Tasks, n, H, W),
           NEW t \in s.woken, t \notin H
    PROVE  Balanced(Resume(s, t), Tasks, n, H \cup {t}, W \ {t})
<1>1. Spare(s) \in Nat /\ Cardinality(H) \in Nat
  BY FS_CardinalityType DEF Balanced, WellFormed, Spare
<1>2. IsFiniteSet(H \cup {t}) /\ Cardinality(H \cup {t}) = Cardinality(H) + 1
  BY FS_AddElement DEF Balanced
<1> QED
  BY <1>1, <1>2, ResumeKeeps DEF Balanced

(* Joining the deque.                                                      *)
LEMMA EnqueueBalanced ==
    ASSUME NEW Tasks, NEW s, NEW n \in Nat, NEW H, NEW W, Balanced(s, Tasks, n, H, W),
           ~ CanTake(s), NEW t \in Tasks, t \notin W
    PROVE  Balanced(Enqueue(s, t), Tasks, n, H, W \cup {t})
BY EnqueueKeeps DEF Balanced

(* A holder gives its permit back.                                         *)
LEMMA ReleaseBalanced ==
    ASSUME NEW Tasks, NEW s, NEW n \in Nat, NEW H, NEW W, Balanced(s, Tasks, n, H, W),
           NEW t \in H
    PROVE  Balanced(Release(s), Tasks, n, H \ {t}, W)
<1>1. Spare(s) \in Nat /\ Cardinality(H) \in Nat
  BY FS_CardinalityType DEF Balanced, WellFormed, Spare
<1>2. IsFiniteSet(H \ {t}) /\ Cardinality(H \ {t}) = Cardinality(H) - 1
  BY FS_RemoveElement DEF Balanced
<1> QED
  BY <1>1, <1>2, ReleaseKeeps DEF Balanced

(* A task inside acquire() is cancelled, with a permit or without.         *)
LEMMA CancelBalanced ==
    ASSUME NEW Tasks, NEW s, NEW n \in Nat, NEW H, NEW W, Balanced(s, Tasks, n, H, W),
           NEW t \in W
    PROVE  Balanced(IF t \in s.woken THEN CancelWoken(s, t) ELSE CancelWaiting(s, t),
                    Tasks, n, H, W \ {t})
<1>1. CASE t \in s.woken
  BY <1>1, CancelWokenKeeps DEF Balanced
<1>2. CASE t \notin s.woken
  BY <1>2, CancelWaitingKeeps DEF Balanced, Members
<1> QED
  BY <1>1, <1>2
=============================================================================

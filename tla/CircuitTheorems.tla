--------------------------- MODULE CircuitTheorems ---------------------------
(***************************************************************************)
(* What the methods of a circuit breaker preserve, for every setting.      *)
(***************************************************************************)
EXTENDS Circuit, FiniteSetTheorems, SequenceTheorems, TLAPS

(* A breaker whose deque holds only times up to `now`, fewer than would    *)
(* open it, and which, if open, has no longer to run than its reason's     *)
(* period.                                                                 *)
Sound(c, now) ==
    /\ c \in Circuits
    /\ \A i \in 1..Len(c.failures) : c.failures[i] <= now
    /\ Len(c.failures) < Threshold
    /\ IsOpen(c, now) =>
         /\ c.reason \in Reasons
         /\ c.openUntil - now <= OpenSeconds(c.reason)

(* The periods are natural numbers.                                        *)
LEMMA OpenSecondsNat ==
    ASSUME NEW why \in Reasons
    PROVE  OpenSeconds(why) \in Nat \ {0}
BY CircuitAssumption DEF CircuitAssumption, OpenSeconds

(* popleft() removes at most the whole deque.                              *)
LEMMA StaleCount ==
    ASSUME NEW s \in Seq(Nat), NEW cutoff \in Int
    PROVE  Cardinality(Stale(s, cutoff)) \in 0..Len(s)
<1>1. Len(s) \in Nat
  OBVIOUS
<1>2. IsFiniteSet(1..Len(s)) /\ Cardinality(1..Len(s)) = Len(s)
  <2>1. ASSUME NEW m \in Nat
        PROVE  IsFiniteSet(1..m) /\ Cardinality(1..m) = m
    <3>1. 1 \in Int /\ m \in Int
      OBVIOUS
    <3>2. /\ IsFiniteSet(1..m)
          /\ Cardinality(1..m) = IF 1 > m THEN 0 ELSE m - 1 + 1
      BY <3>1, FS_Interval, Zenon
    <3> QED
      BY <3>2
  <2> QED
    BY <1>1, <2>1
<1>3. Stale(s, cutoff) \in SUBSET (1..Len(s))
  BY DEF Stale
<1>4. /\ IsFiniteSet(Stale(s, cutoff))
      /\ Cardinality(Stale(s, cutoff)) <= Len(s)
  BY <1>2, <1>3, FS_Subset
<1>5. Cardinality(Stale(s, cutoff)) \in Nat
  BY <1>4, FS_CardinalityType
<1> QED
  BY <1>1, <1>4, <1>5

(* Pruning keeps a suffix of the deque.                                    *)
LEMMA PruneKeeps ==
    ASSUME NEW s \in Seq(Nat), NEW cutoff \in Int, NEW now \in Nat,
           \A i \in 1..Len(s) : s[i] <= now
    PROVE  /\ Prune(s, cutoff) \in Seq(Nat)
           /\ \A i \in 1..Len(Prune(s, cutoff)) : Prune(s, cutoff)[i] <= now
<1> DEFINE n == Cardinality(Stale(s, cutoff))
           m == Len(s)
<1>1. n \in Nat /\ m \in Nat /\ n <= m
  BY StaleCount
<1>2. \A i \in (n + 1)..m : s[i] \in Nat
  BY <1>1
<1>3. n + 1 \in Int /\ m \in Int
  BY <1>1
<1> HIDE DEF n, m
<1>4. /\ SubSeq(s, n + 1, m) \in Seq(Nat)
      /\ Len(SubSeq(s, n + 1, m)) = IF n + 1 <= m THEN m - (n + 1) + 1 ELSE 0
      /\ \A i \in 1..(m - (n + 1) + 1) :
            SubSeq(s, n + 1, m)[i] = s[(n + 1) + i - 1]
  BY <1>2, <1>3, SubSeqProperties
<1>5. ASSUME NEW i \in 1..Len(SubSeq(s, n + 1, m))
      PROVE  SubSeq(s, n + 1, m)[i] <= now
  <2>1. i \in 1..(m - (n + 1) + 1)
    BY <1>1, <1>4
  <2>2. SubSeq(s, n + 1, m)[i] = s[n + i]
    BY <1>1, <1>4, <2>1
  <2>3. n + i \in 1..m
    BY <1>1, <2>1
  <2> QED
    BY <2>2, <2>3 DEF m
<1> QED
  BY <1>4, <1>5 DEF Prune, n, m

(* A breaker just opened is sound.                                         *)
LEMMA OpenedSound ==
    ASSUME NEW why \in Reasons, NEW now \in Nat
    PROVE  Sound(Opened(why, now), now)
<1>1. OpenSeconds(why) \in Nat \ {0}
  BY OpenSecondsNat
<1>2. Opened(why, now) \in Circuits
  BY <1>1 DEF Opened, Circuits
<1> QED
  BY <1>1, <1>2, CircuitAssumption DEF CircuitAssumption, Sound, Opened, IsOpen

(* A closed breaker is sound.                                              *)
LEMMA ClosedSound ==
    ASSUME NEW now \in Nat
    PROVE  Sound(ClosedCircuit, now)
<1>1. ClosedCircuit \in Circuits
  BY DEF ClosedCircuit, Circuits
<1> QED
  BY <1>1, CircuitAssumption
  DEF CircuitAssumption, Sound, ClosedCircuit, IsOpen

(* A counted failure keeps a breaker sound, and the failure that fills the *)
(* window opens it.                                                        *)
LEMMA TransientSound ==
    ASSUME NEW now \in Nat, NEW c, Sound(c, now), NEW why \in TransientReasons
    PROVE  Sound(AfterTransient(c, why, now), now)
<1> DEFINE kept == Prune(c.failures, now - Window)
           recent == Append(kept, now)
<1>1. c.failures \in Seq(Nat) /\ c \in Circuits
  BY DEF Sound, Circuits
<1>2. now - Window \in Int
  BY CircuitAssumption DEF CircuitAssumption
<1>3. kept \in Seq(Nat) /\ \A i \in 1..Len(kept) : kept[i] <= now
  BY <1>1, <1>2, PruneKeeps DEF Sound
<1> HIDE DEF kept
<1>4. /\ recent \in Seq(Nat)
      /\ Len(recent) \in Nat
      /\ \A i \in 1..Len(recent) : recent[i] <= now
  BY <1>3
<1>5. CASE Len(recent) >= Threshold
  <2>1. AfterTransient(c, why, now) = Opened(why, now)
    BY <1>5 DEF AfterTransient, kept
  <2> QED
    BY <2>1, OpenedSound DEF Reasons
<1>6. CASE ~ (Len(recent) >= Threshold)
  <2> HIDE DEF recent
  <2>1. AfterTransient(c, why, now) = [c EXCEPT !.failures = recent]
    BY <1>6 DEF AfterTransient, kept, recent
  <2>2. [c EXCEPT !.failures = recent] \in Circuits
    BY <1>1, <1>4 DEF Circuits
  <2>3. Len(recent) < Threshold
    BY <1>4, <1>6, CircuitAssumption DEF CircuitAssumption
  <2>4. /\ [c EXCEPT !.failures = recent].failures = recent
        /\ [c EXCEPT !.failures = recent].reason = c.reason
        /\ [c EXCEPT !.failures = recent].openUntil = c.openUntil
    BY <1>1 DEF Circuits
  <2> QED
    BY <1>4, <2>1, <2>2, <2>3, <2>4 DEF Sound, IsOpen
<1> QED
  BY <1>5, <1>6

(* failure(), of whatever reason, keeps a breaker sound.                   *)
LEMMA FailureSound ==
    ASSUME NEW now \in Nat, NEW c, Sound(c, now), NEW why \in ReportedReasons
    PROVE  Sound(AfterFailure(c, why, now), now)
<1>1. CASE why \in {"quota", "auth"}
  <2>1. AfterFailure(c, why, now) = Opened(why, now)
    BY <1>1 DEF AfterFailure, TransientReasons
  <2>2. why \in Reasons
    BY <1>1 DEF Reasons
  <2>3. Sound(Opened(why, now), now)
    BY <2>2, OpenedSound
  <2> QED
    BY <2>1, <2>3
<1>2. CASE why \in TransientReasons
  BY <1>2, TransientSound DEF AfterFailure, TransientReasons
<1>3. CASE why = "capability"
  BY <1>3 DEF AfterFailure, TransientReasons
<1> QED
  BY <1>1, <1>2, <1>3 DEF ReportedReasons, Reasons

(* should_skip() keeps a breaker sound: it closes only an expired one.     *)
LEMMA ShouldSkipSound ==
    ASSUME NEW now \in Nat, NEW c, Sound(c, now)
    PROVE  Sound(AfterShouldSkip(c, now), now)
<1>1. CASE IsOpen(c, now)
  BY <1>1 DEF AfterShouldSkip
<1>2. CASE ~ IsOpen(c, now)
  <2>1. c \in Circuits
    BY DEF Sound
  <2>2. /\ AfterShouldSkip(c, now) \in Circuits
        /\ AfterShouldSkip(c, now).failures = c.failures
        /\ AfterShouldSkip(c, now).openUntil = 0
    BY <1>2, <2>1 DEF AfterShouldSkip, Circuits
  <2> QED
    BY <2>2 DEF Sound, IsOpen
<1> QED
  BY <1>1, <1>2

(* So does the passing of time.                                            *)
LEMMA TickSound ==
    ASSUME NEW now \in Nat, NEW c, Sound(c, now)
    PROVE  Sound(c, now + 1)
<1>1. /\ c.openUntil \in Nat
      /\ c.failures \in Seq(Nat)
  BY DEF Sound, Circuits
<1>2. \A i \in 1..Len(c.failures) : c.failures[i] <= now + 1
  <2>1. \A i \in 1..Len(c.failures) : c.failures[i] \in Nat
    BY <1>1
  <2> QED
    BY <2>1 DEF Sound
<1>3. CASE ~ IsOpen(c, now + 1)
  BY <1>2, <1>3 DEF Sound
<1>4. CASE IsOpen(c, now + 1)
  <2>1. IsOpen(c, now)
    BY <1>1, <1>4 DEF IsOpen
  <2>2. OpenSeconds(c.reason) \in Nat
    BY <2>1, OpenSecondsNat DEF Sound
  <2> QED
    BY <1>1, <1>2, <2>1, <2>2 DEF Sound
<1> QED
  BY <1>3, <1>4

(* A set of numbers that has all that precede its members is an interval.  *)
LEMMA InitialSegment ==
    ASSUME NEW m \in Nat, NEW D \in SUBSET (1..m), \A i \in D : 1..i \subseteq D
    PROVE  D = 1..Cardinality(D)
<1>1. \A n \in Nat : IsFiniteSet(1..n) /\ Cardinality(1..n) = n
  <2>1. ASSUME NEW n \in Nat
        PROVE  IsFiniteSet(1..n) /\ Cardinality(1..n) = IF 1 > n THEN 0 ELSE n - 1 + 1
    BY FS_Interval
  <2> QED
    BY <2>1
<1>2. IsFiniteSet(D) /\ Cardinality(D) \in Nat
  BY <1>1, FS_Subset, FS_CardinalityType
<1>3. ASSUME NEW i \in D
      PROVE  i \in 1..Cardinality(D)
  <2>1. 1..i \in SUBSET D /\ i \in Nat /\ i >= 1
    OBVIOUS
  <2>2. Cardinality(1..i) <= Cardinality(D) /\ Cardinality(1..i) = i
    BY <1>1, <1>2, <2>1, FS_Subset
  <2> QED
    BY <1>2, <2>1, <2>2
<1>4. D \in SUBSET (1..Cardinality(D))
  BY <1>3
<1> QED
  BY <1>1, <1>2, <1>4, FS_Subset

(* What popleft() removes is a prefix: all that is older than the cutoff,  *)
(* if the times are in order.                                              *)
LEMMA StaleIsPrefix ==
    ASSUME NEW s \in Seq(Nat), NEW cutoff \in Int,
           \A i, j \in 1..Len(s) : i <= j => s[i] <= s[j]
    PROVE  LET n == Cardinality(Stale(s, cutoff))
           IN  /\ n \in 0..Len(s)
               /\ \A i \in 1..Len(s) : s[i] < cutoff <=> i <= n
<1> DEFINE n == Cardinality(Stale(s, cutoff))
<1>1. n \in 0..Len(s) /\ Len(s) \in Nat
  BY StaleCount
<1>2. Stale(s, cutoff) \in SUBSET (1..Len(s))
  BY DEF Stale
<1>3. ASSUME NEW i \in Stale(s, cutoff)
      PROVE  1..i \subseteq Stale(s, cutoff)
  BY <1>1, <1>3 DEF Stale
<1>4. Stale(s, cutoff) = 1..n
  BY <1>1, <1>2, <1>3, InitialSegment
<1> HIDE DEF n
<1>5. ASSUME NEW i \in 1..Len(s)
      PROVE  s[i] < cutoff <=> i \in Stale(s, cutoff)
  <2>1. \A j \in 1..i : j \in 1..Len(s) /\ j <= i /\ s[j] <= s[i] /\ s[j] \in Nat /\ s[i] \in Nat
    BY <1>1, <1>5
  <2> QED
    BY <1>1, <1>5, <2>1 DEF Stale
<1> QED
  BY <1>1, <1>4, <1>5 DEF n

(* Pruning by position.                                                    *)
LEMMA PruneShape ==
    ASSUME NEW s \in Seq(Nat), NEW cutoff \in Int
    PROVE  LET n == Cardinality(Stale(s, cutoff))
           IN  /\ Len(Prune(s, cutoff)) = Len(s) - n
               /\ \A i \in 1..(Len(s) - n) : Prune(s, cutoff)[i] = s[n + i]
<1> DEFINE n == Cardinality(Stale(s, cutoff))
           m == Len(s)
<1>1. n \in Nat /\ m \in Nat /\ n <= m
  BY StaleCount
<1>2. \A i \in (n + 1)..m : s[i] \in Nat
  BY <1>1
<1>3. n + 1 \in Int /\ m \in Int
  BY <1>1
<1> HIDE DEF n, m
<1>4. /\ Len(SubSeq(s, n + 1, m)) = IF n + 1 <= m THEN m - (n + 1) + 1 ELSE 0
      /\ \A i \in 1..(m - (n + 1) + 1) :
            SubSeq(s, n + 1, m)[i] = s[(n + 1) + i - 1]
  BY <1>2, <1>3, SubSeqProperties
<1>5. Len(SubSeq(s, n + 1, m)) = m - n
  BY <1>1, <1>4
<1>6. ASSUME NEW i \in 1..(m - n)
      PROVE  SubSeq(s, n + 1, m)[i] = s[n + i]
  <2>1. i \in 1..(m - (n + 1) + 1) /\ (n + 1) + i - 1 = n + i
    BY <1>1
  <2> QED
    BY <1>4, <2>1
<1> QED
  BY <1>5, <1>6 DEF Prune, n, m

(* The deque d is all of the ledger that the window of `now` can still     *)
(* need, and the ledger is in the order of time.                           *)
Abridges(d, ledger, now) ==
    /\ ledger \in Seq(Nat) /\ d \in Seq(Nat)
    /\ \A i \in 1..Len(ledger) : ledger[i] <= now
    /\ \A i, j \in 1..Len(ledger) : i <= j => ledger[i] <= ledger[j]
    /\ Len(d) <= Len(ledger)
    /\ \A i \in 1..Len(d) : d[i] = ledger[Len(ledger) - Len(d) + i]
    /\ \A i \in 1..(Len(ledger) - Len(d)) : ledger[i] < now - Window

LEMMA AbridgesInTime ==
    ASSUME NEW now \in Nat, NEW d, NEW ledger, Abridges(d, ledger, now)
    PROVE  Abridges(d, ledger, now + 1)
<1>1. /\ \A i \in 1..Len(ledger) : ledger[i] \in Nat
      /\ \A i \in 1..(Len(ledger) - Len(d)) : i \in 1..Len(ledger)
  BY DEF Abridges
<1>2. Window \in Nat
  BY CircuitAssumption DEF CircuitAssumption
<1> QED
  BY <1>1, <1>2 DEF Abridges

LEMMA AbridgesNothing == ASSUME NEW now PROVE Abridges(<<>>, <<>>, now)
BY DEF Abridges

LEMMA AbridgesAnother ==
    ASSUME NEW now \in Nat, NEW d, NEW ledger, Abridges(d, ledger, now)
    PROVE  Abridges(Append(d, now), Append(ledger, now), now)
<1> DEFINE e == Append(d, now)
           l == Append(ledger, now)
           k == Len(ledger)
           m == Len(d)
<1>1. /\ ledger \in Seq(Nat) /\ d \in Seq(Nat) /\ k \in Nat /\ m \in Nat /\ m <= k
      /\ e \in Seq(Nat) /\ l \in Seq(Nat) /\ Len(e) = m + 1 /\ Len(l) = k + 1
  BY DEF Abridges
<1>2. /\ \A i \in 1..k : l[i] = ledger[i] /\ ledger[i] \in Nat /\ ledger[i] <= now
      /\ l[k + 1] = now
      /\ \A i \in 1..m : e[i] = d[i]
      /\ e[m + 1] = now
  BY <1>1 DEF Abridges
<1>3. \A i \in 1..Len(l) : l[i] <= now
  BY <1>1, <1>2
<1>4. \A i, j \in 1..Len(l) : i <= j => l[i] <= l[j]
  <2> SUFFICES ASSUME NEW i \in 1..(k + 1), NEW j \in 1..(k + 1), i <= j
               PROVE  l[i] <= l[j]
    BY <1>1
  <2>1. CASE j \in 1..k
    <3>1. i \in 1..k
      BY <1>1, <2>1
    <3> QED
      BY <1>2, <2>1, <3>1 DEF Abridges
  <2>2. CASE j = k + 1
    BY <1>1, <1>2, <1>3, <2>2
  <2> QED
    BY <1>1, <2>1, <2>2
<1>5. \A i \in 1..Len(e) : e[i] = l[Len(l) - Len(e) + i]
  <2> SUFFICES ASSUME NEW i \in 1..Len(e)
               PROVE  e[i] = l[Len(l) - Len(e) + i]
    OBVIOUS
  <2>1. CASE i \in 1..m
    <3>1. k - m + i \in 1..k /\ Len(l) - Len(e) + i = k - m + i
      BY <1>1, <2>1
    <3>2. d[i] = ledger[k - m + i]
      BY <2>1 DEF Abridges
    <3> QED
      BY <1>2, <2>1, <3>1, <3>2
  <2>2. CASE i = m + 1
    <3>1. Len(l) - Len(e) + i = k + 1
      BY <1>1, <2>2
    <3> QED
      BY <1>2, <2>2, <3>1
  <2> QED
    BY <1>1, <2>1, <2>2
<1>6. \A i \in 1..(Len(l) - Len(e)) : l[i] < now - Window
  <2>1. Len(l) - Len(e) = k - m
    BY <1>1
  <2>2. \A i \in 1..(k - m) : i \in 1..k /\ ledger[i] < now - Window
    BY <1>1 DEF Abridges
  <2> QED
    BY <1>2, <2>1, <2>2
<1>7. Len(e) <= Len(l)
  BY <1>1
<1> HIDE DEF e, l
<1>8. Abridges(e, l, now)
  BY <1>1, <1>3, <1>4, <1>5, <1>6, <1>7 DEF Abridges
<1> QED
  BY <1>8 DEF e, l

(* The entries of the ledger within the window.                            *)
Counting(ledger, now) == {i \in 1..Len(ledger) : ledger[i] >= now - Window}

(* Pruning loses nothing that counts, and what is left is what counts.     *)
LEMMA AbridgesPruned ==
    ASSUME NEW now \in Nat, NEW d, NEW ledger, Abridges(d, ledger, now)
    PROVE  /\ Abridges(Prune(d, now - Window), ledger, now)
           /\ Len(Prune(d, now - Window)) = Cardinality(Counting(ledger, now))
<1> DEFINE cutoff == now - Window
           e == Prune(d, cutoff)
           n == Cardinality(Stale(d, cutoff))
           k == Len(ledger)
           m == Len(d)
<1>1. /\ ledger \in Seq(Nat) /\ d \in Seq(Nat) /\ k \in Nat /\ m \in Nat /\ m <= k
      /\ cutoff \in Int
      /\ \A i \in 1..k : ledger[i] \in Nat /\ ledger[i] <= now
      /\ \A i, j \in 1..k : i <= j => ledger[i] <= ledger[j]
      /\ \A i \in 1..m : d[i] = ledger[k - m + i]
      /\ \A i \in 1..(k - m) : ledger[i] < cutoff
  BY CircuitAssumption DEF Abridges, CircuitAssumption
<1>2. \A i, j \in 1..m : i <= j => d[i] <= d[j]
  <2> SUFFICES ASSUME NEW i \in 1..m, NEW j \in 1..m, i <= j
               PROVE  d[i] <= d[j]
    OBVIOUS
  <2>1. k - m + i \in 1..k /\ k - m + j \in 1..k /\ k - m + i <= k - m + j
    BY <1>1
  <2> QED
    BY <1>1, <2>1
<1>3. \A i \in 1..m : d[i] <= now
  <2>1. \A i \in 1..m : k - m + i \in 1..k
    BY <1>1
  <2> QED
    BY <1>1, <2>1
<1> HIDE DEF cutoff
<1>4. n \in 0..m /\ \A i \in 1..m : d[i] < cutoff <=> i <= n
  BY <1>1, <1>2, StaleIsPrefix
<1>5. e \in Seq(Nat)
  BY <1>1, <1>3, PruneKeeps
<1>6. Len(e) = m - n /\ \A i \in 1..(m - n) : e[i] = d[n + i]
  BY <1>1, PruneShape
<1> HIDE DEF e, n
<1>7. \A i \in 1..Len(e) : e[i] = ledger[k - Len(e) + i]
  <2> SUFFICES ASSUME NEW i \in 1..(m - n)
               PROVE  e[i] = ledger[k - (m - n) + i]
    BY <1>6
  <2>1. n + i \in 1..m /\ k - m + (n + i) = k - (m - n) + i
    BY <1>1, <1>4
  <2> QED
    BY <1>1, <1>6, <2>1
(* Whether an entry of the ledger counts depends on its position only.     *)
<1>8. ASSUME NEW i \in 1..k
      PROVE  ledger[i] < cutoff <=> i <= k - Len(e)
  <2>1. k - Len(e) = k - m + n
    BY <1>1, <1>4, <1>6
  <2>2. CASE i <= k - m
    BY <1>1, <1>4, <2>1, <2>2
  <2>3. CASE i > k - m
    <3>1. i - (k - m) \in 1..m /\ k - m + (i - (k - m)) = i
      BY <1>1, <2>3
    <3>2. d[i - (k - m)] = ledger[i]
      BY <1>1, <3>1
    <3>3. ledger[i] < cutoff <=> i - (k - m) <= n
      BY <1>4, <3>1, <3>2
    <3> QED
      BY <1>1, <1>4, <2>1, <3>3
  <2> QED
    BY <1>1, <2>2, <2>3
<1>9. Abridges(e, ledger, now)
  <2>1. Len(e) \in Nat /\ Len(e) <= k
    BY <1>1, <1>4, <1>6
  <2>2. \A i \in 1..(k - Len(e)) : ledger[i] < cutoff
    BY <1>1, <1>8, <2>1
  <2> QED
    BY <1>1, <1>5, <1>7, <2>1, <2>2 DEF Abridges, cutoff
<1>10. Cardinality(Counting(ledger, now)) = Len(e)
  <2>1. Len(e) \in Nat /\ Len(e) <= k
    BY <1>1, <1>4, <1>6
  <2>2. Counting(ledger, now) = (k - Len(e) + 1)..k
    <3>1. \A i \in 1..k : ledger[i] >= cutoff <=> ~ (ledger[i] < cutoff)
      BY <1>1
    <3>2. \A i \in 1..k : ledger[i] >= cutoff <=> i \in (k - Len(e) + 1)..k
      BY <1>1, <1>8, <2>1, <3>1
    <3>3. (k - Len(e) + 1)..k \subseteq 1..k
      BY <1>1, <2>1
    <3>4. Counting(ledger, now) = {i \in 1..k : ledger[i] >= cutoff}
      BY DEF Counting, cutoff
    <3> HIDE DEF k
    <3> QED
      BY <3>2, <3>3, <3>4
  <2>3. k - Len(e) + 1 \in Int /\ k \in Int
    BY <1>1, <2>1
  <2> HIDE DEF k
  <2>4. Cardinality((k - Len(e) + 1)..k)
          = IF k - Len(e) + 1 > k THEN 0 ELSE k - (k - Len(e) + 1) + 1
    BY <2>3, FS_Interval
  <2> QED
    BY <2>1, <2>2, <2>3, <2>4
<1> QED
  BY <1>9, <1>10 DEF e, cutoff
=============================================================================

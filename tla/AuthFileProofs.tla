--------------------------- MODULE AuthFileProofs ---------------------------
(***************************************************************************)
(* The credential file for any set of requests and of other programs, and  *)
(* any number of logins, of refreshes by these programs and of crashes.    *)
(***************************************************************************)
EXTENDS AuthFile, TLAPS

(* Every token stems from a login that was made, and no login was          *)
(* refreshed before it was made.                                           *)
LoginsKnown ==
    /\ file.token.login \in 0..logins
    /\ \A r \in Requests : auth[r].login \in 0..logins
    /\ \A p \in Others : held[p].token.login \in 0..logins
    /\ \A l \in 0..MaxLogins : l > logins => server[l] = 0

(* Those that may still present or store what they read.                   *)
Live == Holding \cup {"stray"}

(* No copy of a token of login l is newer than its n-th.                   *)
Behind(l, n) ==
    /\ file.token.login = l => file.token.n <= n
    /\ \A r \in Requests : stage[r] \in Live /\ auth[r].login = l => auth[r].n <= n
    /\ \A p \in Others :
         held[p].phase = "read" /\ held[p].token.login = l => held[p].token.n <= n

(* The new token of l is on its way to the file.                           *)
GrantedFor(r, l) == stage[r] = "granted" /\ auth[r].login = l
RotatedFor(p, l) == held[p].phase = "rotated" /\ held[p].token.login = l

Underway(l) ==
    (\E r \in Requests : GrantedFor(r, l)) \/ (\E p \in Others : RotatedFor(p, l))

(* While a new token is on its way every copy is an older one, so that     *)
(* nobody can have the next one; and only one is on its way.               *)
NewestInv ==
    \A l \in 0..MaxLogins :
        /\ Behind(l, server[l])
        /\ Underway(l) => Behind(l, server[l] - 1)
        /\ \A r \in Requests, p \in Others : ~ (GrantedFor(r, l) /\ RotatedFor(p, l))
        /\ \A p, q \in Others : RotatedFor(p, l) /\ RotatedFor(q, l) => p = q

(* What the holder of the lock has in memory: a token of the newest login  *)
(* but for those made meanwhile, and a good one unless that is excused.    *)
HolderInv ==
    \A r \in Requests :
        LET t == auth[r]
        IN  /\ stage[r] \in Holding =>
                 \A l \in 1..logins : l \notin during => t.login >= l
            /\ stage[r] \in Holding \ {"granted"} =>
                 t.n = server[t.login] \/ t.login \in lost \cup cut \cup outside
            /\ stage[r] = "granted" => server[t.login] = t.n + 1
            /\ stage[r] = "stray" => t.login \in cut

(* And what another program has.                                           *)
OtherInv ==
    \A p \in Others :
        LET t == held[p].token
        IN  /\ held[p].phase # "none" =>
                 \A l \in 1..logins : l \notin during => t.login >= l
            /\ held[p].phase = "rotated" =>
                 t.n = server[t.login] /\ t.login \in outside

Inv ==
    /\ AuthTypeOK /\ LoginsKnown /\ NewestInv /\ HolderInv /\ OtherInv
    /\ FileHoldsLatest /\ NoRaceForRotation /\ LoginsUndoneOnlyMidUse

-----------------------------------------------------------------------------
(* Facts about single states                                               *)

(* Repairing owner and mode leaves the token alone.                        *)
LEMMA RepairKeepsToken ==
    ASSUME NEW f \in Files
    PROVE  /\ Normal(f) \in Files /\ Normal(f).token = f.token
           /\ Repaired(f) \in Files /\ Repaired(f).token = f.token
BY DEF Files, Normal, Repaired, Owners, Modes

(* The lock has one holder.                                                *)
LEMMA OneHolder ==
    ASSUME AuthTypeOK, NEW r \in Requests, stage[r] \in Holding
    PROVE  user = r /\ \A q \in Requests \ {r} : stage[q] \notin Holding
BY DEF AuthTypeOK

(* Without a holder nothing is awaited.                                    *)
LEMMA NoHolder ==
    ASSUME AuthFileAssumption, AuthTypeOK, user = NoOne
    PROVE  \A q \in Requests : stage[q] \notin Holding
BY DEF AuthTypeOK, AuthFileAssumption

LEMMA TokenTypes ==
    ASSUME AuthTypeOK
    PROVE  /\ file.token \in Tokens /\ file.token.login \in Nat /\ file.token.n \in Nat
           /\ \A r \in Requests :
                auth[r] \in Tokens /\ auth[r].login \in Nat /\ auth[r].n \in Nat
           /\ \A p \in Others :
                /\ held[p] \in Copies /\ held[p].token \in Tokens
                /\ held[p].token.login \in Nat /\ held[p].token.n \in Nat
           /\ \A l \in 0..MaxLogins : server[l] \in Nat
           /\ logins \in Nat
<1>1. file.token \in Tokens /\ \A r \in Requests : auth[r] \in Tokens
  BY DEF AuthTypeOK, Files
<1>2. \A p \in Others : held[p] \in Copies /\ held[p].token \in Tokens
  BY DEF AuthTypeOK, Copies
<1>3. \A t \in Tokens : t.login \in Nat /\ t.n \in Nat
  BY DEF Tokens
<1>4. logins \in Nat /\ \A l \in 0..MaxLogins : server[l] \in Nat
  BY DEF AuthTypeOK
<1> QED
  BY <1>1, <1>2, <1>3, <1>4

LEMMA LoginTypes ==
    ASSUME AuthFileAssumption, AuthTypeOK, LoginsKnown
    PROVE  /\ file.token.login \in 0..MaxLogins
           /\ \A r \in Requests : auth[r].login \in 0..MaxLogins
           /\ \A p \in Others : held[p].token.login \in 0..MaxLogins
<1>1. logins \in 0..MaxLogins /\ MaxLogins \in Nat
  BY DEF AuthTypeOK, AuthFileAssumption
<1> QED
  BY <1>1 DEF LoginsKnown

(* What nobody has: the token of something that is not running.            *)
LEMMA NothingIsToken ==
    /\ Nothing \in Tokens /\ Nothing.login = 0
    /\ NoCopy \in Copies /\ NoCopy.phase = "none" /\ NoCopy.token.login = 0
BY DEF Nothing, NoCopy, Copy, Token, Tokens, Copies

(* A new token on its way is newer than any copy, so a token that the      *)
(* server accepts is one of which none is on its way.                      *)
LEMMA CurrentIsIdle ==
    ASSUME AuthTypeOK, NewestInv, NEW l \in 0..MaxLogins,
           \/ \E r \in Requests : /\ stage[r] \in Live
                                  /\ auth[r].login = l /\ auth[r].n = server[l]
           \/ \E p \in Others : /\ held[p].phase = "read"
                                /\ held[p].token.login = l /\ held[p].token.n = server[l]
    PROVE  ~ Underway(l)
<1>1. server[l] \in Nat
  BY TokenTypes
<1>2. ~ Behind(l, server[l] - 1)
  BY <1>1 DEF Behind
<1> QED
  BY <1>2 DEF NewestInv

(* Where the lock is free and no other program has a new token, the file's *)
(* is the latest, unless that was lost.                                    *)
LEMMA FileIsGood ==
    ASSUME AuthFileAssumption, Inv, user = NoOne
    PROVE  \/ file.token.n = server[file.token.login]
           \/ file.token.login \in lost \cup outside
<1>1. \A r \in Requests : stage[r] # "granted"
  BY NoHolder DEF Inv, Holding
<1>2. \A p \in Others : held[p].phase = "rotated" => held[p].token.login \in outside
  BY DEF Inv, OtherInv
<1> QED
  BY <1>1, <1>2 DEF Inv, FileHoldsLatest

-----------------------------------------------------------------------------
(* Copies of tokens                                                        *)

(* Copies are dropped, or taken of the file.                               *)
LEMMA CopiesOfFile ==
    ASSUME AuthTypeOK, NewestInv, file'.token = file.token, UNCHANGED server,
           \A r \in Requests : stage'[r] \in Live =>
              \/ stage[r] \in Live /\ auth'[r] = auth[r]
              \/ auth'[r] = file.token,
           \A r \in Requests : stage'[r] = "granted" =>
              stage[r] = "granted" /\ auth'[r] = auth[r],
           \A p \in Others :
              \/ held'[p] = held[p]
              \/ held'[p].phase = "none"
              \/ held'[p].phase = "read" /\ held'[p].token = file.token
    PROVE  NewestInv'
<1>1. \A l : /\ \A r \in Requests : GrantedFor(r, l)' => GrantedFor(r, l)
             /\ \A p \in Others : RotatedFor(p, l)' => RotatedFor(p, l)
  BY DEF GrantedFor, RotatedFor
<1>2. \A l : Underway(l)' => Underway(l)
  BY <1>1 DEF Underway
<1>3. ASSUME NEW l, NEW n, Behind(l, n)
      PROVE  /\ file'.token.login = l => file'.token.n <= n
             /\ \A r \in Requests :
                  stage'[r] \in Live /\ auth'[r].login = l => auth'[r].n <= n
             /\ \A p \in Others :
                  held'[p].phase = "read" /\ held'[p].token.login = l
                    => held'[p].token.n <= n
  <2>1. ASSUME NEW r \in Requests, stage'[r] \in Live, auth'[r].login = l
        PROVE  auth'[r].n <= n
    BY <1>3, <2>1 DEF Behind
  <2>2. ASSUME NEW p \in Others, held'[p].phase = "read", held'[p].token.login = l
        PROVE  held'[p].token.n <= n
    BY <1>3, <2>2 DEF Behind
  <2> QED
    BY <1>3, <2>1, <2>2 DEF Behind
<1>4. \A l \in 0..MaxLogins :
        /\ Behind(l, server[l])'
        /\ Underway(l) => Behind(l, server[l] - 1)'
  BY <1>3 DEF NewestInv, Behind
<1> QED
  BY <1>1, <1>2, <1>4 DEF NewestInv

(* The server rotates a token of which no new one is on its way.           *)
LEMMA CopiesRotated ==
    ASSUME AuthTypeOK, NewestInv, NEW l \in 0..MaxLogins, ~ Underway(l),
           server' = [server EXCEPT ![l] = @ + 1], file'.token = file.token,
           \A r \in Requests : stage'[r] \in Live =>
              stage[r] \in Live /\ auth'[r] = auth[r],
           \A p \in Others : held'[p].phase = "read" => held'[p] = held[p],
           \A m : m # l =>
              /\ \A r \in Requests : GrantedFor(r, m)' => GrantedFor(r, m)
              /\ \A p \in Others : RotatedFor(p, m)' => RotatedFor(p, m),
           \A r \in Requests, p \in Others : ~ (GrantedFor(r, l)' /\ RotatedFor(p, l)'),
           \A p, q \in Others : RotatedFor(p, l)' /\ RotatedFor(q, l)' => p = q
    PROVE  NewestInv'
<1>1. /\ server[l] \in Nat /\ server'[l] = server[l] + 1
      /\ \A m \in 0..MaxLogins : m # l => server'[m] = server[m]
  BY TokenTypes DEF AuthTypeOK
<1>2. ASSUME NEW m, NEW n, Behind(m, n)
      PROVE  /\ file'.token.login = m => file'.token.n <= n
             /\ \A r \in Requests :
                  stage'[r] \in Live /\ auth'[r].login = m => auth'[r].n <= n
             /\ \A p \in Others :
                  held'[p].phase = "read" /\ held'[p].token.login = m
                    => held'[p].token.n <= n
  BY <1>2 DEF Behind
<1>3. \A m : m # l /\ Underway(m)' => Underway(m)
  BY DEF Underway
<1>4. ASSUME NEW m \in 0..MaxLogins, m # l
      PROVE  /\ Behind(m, server[m])'
             /\ Underway(m)' => Behind(m, server[m] - 1)'
  BY <1>1, <1>2, <1>3, <1>4 DEF NewestInv, Behind
<1>5. Behind(l, server[l])' /\ Behind(l, server[l] - 1)'
  <2>1. /\ file'.token.login = l => file'.token.n <= server[l] /\ file'.token.n \in Nat
        /\ \A r \in Requests : stage'[r] \in Live /\ auth'[r].login = l =>
             auth'[r].n <= server[l] /\ auth'[r].n \in Nat
        /\ \A p \in Others : held'[p].phase = "read" /\ held'[p].token.login = l =>
             held'[p].token.n <= server[l] /\ held'[p].token.n \in Nat
    BY <1>2, TokenTypes DEF NewestInv
  <2> QED
    BY <1>1, <2>1 DEF Behind
<1> QED
  BY <1>4, <1>5 DEF NewestInv

(* The latest token of a login is stored, and none of it is on its way.    *)
LEMMA CopiesStored ==
    ASSUME AuthTypeOK, NewestInv, NEW l \in 0..MaxLogins, NEW u,
           u.login = l, u.n = server[l], ~ Underway(l)',
           UNCHANGED server, file'.token = u,
           \A r \in Requests : stage'[r] \in Live =>
              \/ stage[r] \in Live /\ auth'[r] = auth[r]
              \/ auth'[r] = u,
           \A r \in Requests : stage'[r] = "granted" =>
              stage[r] = "granted" /\ auth'[r] = auth[r],
           \A p \in Others : held'[p] = held[p] \/ held'[p].phase = "none"
    PROVE  NewestInv'
<1>1. \A m : /\ \A r \in Requests : GrantedFor(r, m)' => GrantedFor(r, m)
             /\ \A p \in Others : RotatedFor(p, m)' => RotatedFor(p, m)
  BY DEF GrantedFor, RotatedFor
<1>2. \A m : Underway(m)' => Underway(m)
  BY <1>1 DEF Underway
<1>3. ASSUME NEW m \in 0..MaxLogins, m # l
      PROVE  /\ Behind(m, server[m])'
             /\ Underway(m)' => Behind(m, server[m] - 1)'
  BY <1>2, <1>3 DEF NewestInv, Behind
<1>4. Behind(l, server[l])'
  <2>1. server[l] \in Nat
    BY TokenTypes
  <2>2. ASSUME NEW r \in Requests, stage'[r] \in Live, auth'[r].login = l
        PROVE  auth'[r].n <= server[l]
    BY <2>1, <2>2 DEF NewestInv, Behind
  <2>3. ASSUME NEW p \in Others, held'[p].phase = "read", held'[p].token.login = l
        PROVE  held'[p].token.n <= server[l]
    BY <2>1, <2>3 DEF NewestInv, Behind
  <2> QED
    BY <2>1, <2>2, <2>3 DEF Behind
<1> QED
  BY <1>1, <1>3, <1>4 DEF NewestInv

-----------------------------------------------------------------------------
(* Steps that leave tokens, handlers and history alone                     *)

LEMMA MetadataStep ==
    ASSUME Inv, UNCHANGED <<server, logins, handlers, others, history>>,
           file' \in Files, file'.token = file.token,
           watch' \in {"sleep", "chown", "chmod", "down"}, UNCHANGED crashes
    PROVE  Inv'
<1>1. AuthTypeOK'
  BY DEF Inv, AuthTypeOK, handlers, others, history
<1>2. NewestInv'
  BY CopiesOfFile DEF Inv, handlers, others
<1>3. LoginsKnown' /\ HolderInv' /\ OtherInv'
  BY DEF Inv, LoginsKnown, HolderInv, OtherInv, handlers, others, history
<1>4. FileHoldsLatest' /\ NoRaceForRotation' /\ LoginsUndoneOnlyMidUse'
  BY DEF Inv, FileHoldsLatest, NoRaceForRotation, LoginsUndoneOnlyMidUse,
         handlers, others, history
<1> QED
  BY <1>1, <1>2, <1>3, <1>4 DEF Inv

(* A handler without the lock moves to another stage without it.           *)
LEMMA OutsideStep ==
    ASSUME Inv, NEW r \in Requests, stage[r] \notin Holding,
           NEW x \in Stages \ Live, stage' = [stage EXCEPT ![r] = x],
           file' \in Files, file'.token = file.token,
           UNCHANGED <<server, logins, kind, attempt, auth, user, others, watch,
                       crashes, history>>
    PROVE  Inv'
<1>1. /\ stage'[r] = x /\ stage' \in [Requests -> Stages]
      /\ \A q \in Requests : q # r => stage'[q] = stage[q]
  BY DEF Inv, AuthTypeOK
<1>2. \A q \in Requests : (stage'[q] \in Holding) <=> (stage[q] \in Holding)
  BY <1>1 DEF Live
<1>3. /\ \A q \in Requests : (stage'[q] = "granted") <=> (stage[q] = "granted")
      /\ \A q \in Requests : stage'[q] = "stray" => stage[q] = "stray"
      /\ \A q \in Requests : stage'[q] \in Live => stage[q] \in Live
  BY <1>1, <1>2 DEF Holding, Live
<1>4. AuthTypeOK'
  BY <1>1, <1>2 DEF Inv, AuthTypeOK, others, history
<1>5. NewestInv'
  BY <1>3, CopiesOfFile DEF Inv, others
<1>6. LoginsKnown' /\ HolderInv' /\ OtherInv'
  BY <1>2, <1>3 DEF Inv, LoginsKnown, HolderInv, OtherInv, others, history
<1>7. FileHoldsLatest' /\ NoRaceForRotation' /\ LoginsUndoneOnlyMidUse'
  BY <1>3 DEF Inv, FileHoldsLatest, NoRaceForRotation, LoginsUndoneOnlyMidUse,
              others, history
<1> QED
  BY <1>4, <1>5, <1>6, <1>7 DEF Inv

-----------------------------------------------------------------------------
(* Steps of the holder                                                     *)

(* The lock is taken and the token read.                                   *)
LEMMA ReadStep ==
    ASSUME AuthFileAssumption, Inv, NEW r \in Requests, user = NoOne,
           NEW x \in {"call", "refresh"}, stage' = [stage EXCEPT ![r] = x],
           auth' = [auth EXCEPT ![r] = file.token], user' = r,
           file' \in Files, file'.token = file.token,
           UNCHANGED <<server, logins, kind, attempt, others, watch, crashes, history>>
    PROVE  Inv'
<1>1. /\ stage'[r] = x /\ stage' \in [Requests -> Stages]
      /\ \A q \in Requests : q # r => stage'[q] = stage[q]
  BY DEF Inv, AuthTypeOK, Stages
<1>2. /\ auth'[r] = file.token /\ auth' \in [Requests -> Tokens]
      /\ \A q \in Requests : q # r => auth'[q] = auth[q]
  BY TokenTypes DEF Inv, AuthTypeOK
<1>3. \A q \in Requests : stage[q] \notin Holding
  BY NoHolder DEF Inv
<1>4. \A q \in Requests : (stage'[q] \in Holding) <=> (q = r)
  BY <1>1, <1>3 DEF Holding
<1>5. /\ \A q \in Requests : stage[q] # "granted" /\ stage'[q] # "granted"
      /\ \A q \in Requests : stage'[q] = "stray" => q # r /\ stage[q] = "stray"
  BY <1>1, <1>3 DEF Holding
<1>6. AuthTypeOK'
  BY <1>1, <1>2, <1>4 DEF Inv, AuthTypeOK, others, history
<1>7. NewestInv'
  BY <1>1, <1>2, <1>5, CopiesOfFile DEF Inv, others
<1>8. LoginsKnown' /\ OtherInv'
  BY <1>2 DEF Inv, LoginsKnown, OtherInv, others, history
<1>9. HolderInv'
  BY <1>2, <1>4, <1>5, FileIsGood DEF Inv, HolderInv, LoginsUndoneOnlyMidUse, history
<1>10. FileHoldsLatest' /\ NoRaceForRotation' /\ LoginsUndoneOnlyMidUse'
  BY <1>5 DEF Inv, FileHoldsLatest, NoRaceForRotation, LoginsUndoneOnlyMidUse,
              others, history
<1> QED
  BY <1>6, <1>7, <1>8, <1>9, <1>10 DEF Inv

(* The holder goes on with the token it has.  If a rotation of it was on   *)
(* its way, that is lost; a spent one was presented only if that is        *)
(* excused.                                                                *)
LEMMA HolderGoesOn ==
    ASSUME AuthFileAssumption, Inv, NEW r \in Requests, stage[r] \in Holding,
           NEW x \in Holding \ {"granted"}, stage' = [stage EXCEPT ![r] = x],
           NEW a \in {0, 1}, attempt' = [attempt EXCEPT ![r] = a],
           lost' = IF stage[r] = "granted" THEN lost \cup {auth[r].login} ELSE lost,
           spent' \subseteq spent \cup {auth[r].login},
           spent' = spent \/ (auth[r].n # server[auth[r].login] /\ stage[r] # "granted"),
           UNCHANGED <<file, server, logins, kind, auth, user, others, watch,
                       crashes, cut, outside, during>>
    PROVE  Inv'
<1>1. /\ stage'[r] = x /\ stage' \in [Requests -> Stages]
      /\ \A q \in Requests : q # r => stage'[q] = stage[q]
  BY DEF Inv, AuthTypeOK, Holding, Stages
<1>2. /\ \A q \in Requests : q # r => stage[q] \notin Holding
      /\ user = r
  BY OneHolder DEF Inv
<1>3. \A q \in Requests : (stage'[q] \in Holding) <=> (q = r)
  BY <1>1, <1>2
<1>4. /\ \A q \in Requests : stage'[q] # "granted"
      /\ \A q \in Requests : stage'[q] = "stray" => stage[q] = "stray"
      /\ \A q \in Requests : stage'[q] \in Live => stage[q] \in Live
  BY <1>1, <1>2 DEF Holding, Live
<1>5. auth[r].login \in 0..MaxLogins
  BY LoginTypes DEF Inv
<1>6. lost' \subseteq lost \cup {auth[r].login} /\ lost \subseteq lost'
  OBVIOUS
<1>7. AuthTypeOK'
  BY <1>1, <1>2, <1>3, <1>5, <1>6 DEF Inv, AuthTypeOK, others
<1>8. NewestInv'
  BY <1>4, CopiesOfFile DEF Inv, others
<1>9. LoginsKnown' /\ OtherInv' /\ LoginsUndoneOnlyMidUse'
  BY DEF Inv, LoginsKnown, OtherInv, LoginsUndoneOnlyMidUse, others
<1>10. auth[r].n = server[auth[r].login] \/ auth[r].login \in lost' \cup cut \cup outside
  BY DEF Inv, HolderInv
<1>11. HolderInv'
  BY <1>3, <1>4, <1>10 DEF Inv, HolderInv
<1>12. FileHoldsLatest'
  <2>1. ASSUME NEW q \in Requests, stage[q] = "granted"
        PROVE  auth[q].login \in lost'
    BY <1>2, <2>1 DEF Holding
  <2> QED
    BY <1>6, <2>1 DEF Inv, FileHoldsLatest, others
<1>13. NoRaceForRotation'
  <2>1. spent \subseteq lost' \cup cut \cup outside
    BY <1>6 DEF Inv, NoRaceForRotation
  <2> QED
    BY <1>10, <2>1 DEF NoRaceForRotation, Inv, HolderInv
<1> QED
  BY <1>7, <1>8, <1>9, <1>11, <1>12, <1>13 DEF Inv

(* The holder is over, and with it a rotation on its way.                  *)
LEMMA HolderLeaves ==
    ASSUME AuthFileAssumption, Inv, NEW r \in Requests, stage[r] \in Holding, Over(r),
           lost' = IF stage[r] = "granted" THEN lost \cup {auth[r].login} ELSE lost,
           UNCHANGED <<file, server, logins, kind, others, watch, crashes, cut,
                       outside, spent, during>>
    PROVE  Inv'
<1>1. /\ stage'[r] = "done" /\ stage' \in [Requests -> Stages]
      /\ \A q \in Requests : q # r => stage'[q] = stage[q]
  BY DEF Over, Inv, AuthTypeOK, Stages
<1>2. \A q \in Requests : q # r => stage[q] \notin Holding
  BY OneHolder DEF Inv
<1>3. \A q \in Requests : stage'[q] \notin Holding /\ stage'[q] # "granted"
  BY <1>1, <1>2 DEF Holding
<1>4. /\ auth'[r] = Nothing /\ auth' \in [Requests -> Tokens]
      /\ \A q \in Requests : q # r => auth'[q] = auth[q]
  BY NothingIsToken DEF Over, Inv, AuthTypeOK
<1>5. \A q \in Requests : stage'[q] \in Live =>
         q # r /\ stage[q] \in Live /\ auth'[q] = auth[q] /\ stage[q] = stage'[q]
  BY <1>1, <1>4 DEF Live, Holding
<1>6. auth[r].login \in 0..MaxLogins
  BY LoginTypes DEF Inv
<1>7. lost' \subseteq lost \cup {auth[r].login} /\ lost \subseteq lost'
  OBVIOUS
<1>8. AuthTypeOK'
  <2>1. user' = NoOne /\ attempt' \in [Requests -> {0, 1}]
    BY DEF Over, Inv, AuthTypeOK
  <2> QED
    BY <1>1, <1>3, <1>4, <1>6, <1>7, <2>1, AuthFileAssumption DEF Inv, AuthTypeOK, others
<1>9. NewestInv'
  BY <1>3, <1>5, CopiesOfFile DEF Inv, others
<1>10. LoginsKnown'
  <2>1. 0 \in 0..logins
    BY TokenTypes DEF Inv
  <2> QED
    BY <1>4, <2>1, NothingIsToken DEF Inv, LoginsKnown, others
<1>11. HolderInv' /\ OtherInv' /\ LoginsUndoneOnlyMidUse'
  <2>1. HolderInv'
    BY <1>3, <1>5 DEF Inv, HolderInv, Live
  <2> QED
    BY <2>1 DEF Inv, OtherInv, LoginsUndoneOnlyMidUse, others
<1>12. FileHoldsLatest'
  <2>1. ASSUME NEW q \in Requests, stage[q] = "granted"
        PROVE  auth[q].login \in lost'
    BY <1>2, <2>1 DEF Holding
  <2> QED
    BY <1>7, <2>1 DEF Inv, FileHoldsLatest, others
<1>13. NoRaceForRotation'
  BY <1>7 DEF Inv, NoRaceForRotation
<1> QED
  BY <1>8, <1>9, <1>10, <1>11, <1>12, <1>13 DEF Inv

(* The holder is over, but its refresh may reach the server yet.           *)
LEMMA AstrayStep ==
    ASSUME AuthFileAssumption, Inv, NEW r \in Requests, stage[r] = "refresh", Astray(r),
           cut' = cut \cup {auth[r].login},
           UNCHANGED <<file, server, logins, kind, others, watch, crashes, lost,
                       outside, spent, during>>
    PROVE  Inv'
<1>1. /\ stage'[r] = "stray" /\ stage' \in [Requests -> Stages]
      /\ \A q \in Requests : q # r => stage'[q] = stage[q]
  BY DEF Astray, Inv, AuthTypeOK, Stages
<1>2. \A q \in Requests : q # r => stage[q] \notin Holding
  BY OneHolder DEF Inv, Holding
<1>3. /\ \A q \in Requests : stage[q] # "granted"
      /\ \A q \in Requests : stage'[q] \notin Holding /\ stage'[q] # "granted"
  BY <1>1, <1>2 DEF Holding
<1>4. UNCHANGED auth /\ user' = NoOne /\ attempt' \in [Requests -> {0, 1}]
  BY DEF Astray, Inv, AuthTypeOK
<1>5. \A q \in Requests : stage'[q] \in Live => stage[q] \in Live
  BY <1>1 DEF Live, Holding
<1>6. auth[r].login \in 0..MaxLogins
  BY LoginTypes DEF Inv
<1>7. AuthTypeOK'
  BY <1>1, <1>3, <1>4, <1>6, AuthFileAssumption DEF Inv, AuthTypeOK, others
<1>8. NewestInv'
  BY <1>3, <1>4, <1>5, CopiesOfFile DEF Inv, others
<1>9. LoginsKnown' /\ OtherInv' /\ LoginsUndoneOnlyMidUse'
  BY <1>4 DEF Inv, LoginsKnown, OtherInv, LoginsUndoneOnlyMidUse, others
<1>10. HolderInv'
  BY <1>1, <1>3, <1>4 DEF Inv, HolderInv
<1>11. FileHoldsLatest' /\ NoRaceForRotation'
  BY <1>3 DEF Inv, FileHoldsLatest, NoRaceForRotation, others
<1> QED
  BY <1>7, <1>8, <1>9, <1>10, <1>11 DEF Inv

(* The server rotates the holder's token.                                  *)
LEMMA ServerGrants ==
    ASSUME AuthFileAssumption, Inv, NEW r \in Requests, stage[r] = "refresh",
           auth[r].n = server[auth[r].login],
           server' = [server EXCEPT ![auth[r].login] = @ + 1],
           stage' = [stage EXCEPT ![r] = "granted"],
           UNCHANGED <<file, logins, kind, attempt, auth, user, others, watch,
                       crashes, history>>
    PROVE  Inv'
<1> DEFINE l == auth[r].login
<1>1. /\ stage'[r] = "granted" /\ stage' \in [Requests -> Stages]
      /\ \A q \in Requests : q # r => stage'[q] = stage[q]
  BY DEF Inv, AuthTypeOK, Stages
<1>2. user = r /\ \A q \in Requests : q # r => stage[q] \notin Holding
  BY OneHolder DEF Inv, Holding
<1>3. /\ \A q \in Requests : (stage'[q] \in Holding) <=> (q = r)
      /\ \A q \in Requests : (stage'[q] = "granted") <=> (q = r)
      /\ \A q \in Requests : stage'[q] \in Live => stage[q] \in Live
      /\ \A q \in Requests : stage'[q] = "stray" => stage[q] = "stray"
  BY <1>1, <1>2 DEF Holding, Live
<1>4. l \in 0..logins /\ l \in 0..MaxLogins /\ server[l] \in Nat /\ auth[r].n \in Nat
  BY LoginTypes, TokenTypes DEF Inv, LoginsKnown
<1>5. /\ server' \in [0..MaxLogins -> Nat]
      /\ server'[l] = auth[r].n + 1 /\ server'[l] = server[l] + 1
      /\ \A m \in 0..MaxLogins : m # l => server'[m] = server[m]
  BY <1>4 DEF Inv, AuthTypeOK
<1>6. ~ Underway(l)
  <2>1. stage[r] \in Live
    BY DEF Live, Holding
  <2> QED
    BY <1>4, <2>1, CurrentIsIdle DEF Inv
<1>7. AuthTypeOK'
  BY <1>1, <1>2, <1>3, <1>5 DEF Inv, AuthTypeOK, others, history
<1>8. LoginsKnown'
  <2>1. \A m \in 0..MaxLogins : m > logins => server'[m] = 0
    <3>1. logins \in Nat /\ \A m \in 0..MaxLogins : m > logins => m # l
      BY <1>4, TokenTypes DEF Inv
    <3> QED
      BY <1>5, <3>1 DEF Inv, LoginsKnown
  <2> QED
    BY <2>1 DEF Inv, LoginsKnown, others
<1>9. NewestInv'
  <2>1. \A m, q : (q \in Requests /\ GrantedFor(q, m)') => m = l
    BY <1>3 DEF GrantedFor
  <2>2. \A m : \A p \in Others : RotatedFor(p, m)' => RotatedFor(p, m)
    BY DEF RotatedFor, others
  <2>3. \A p \in Others : ~ RotatedFor(p, l)'
    BY <1>6, <2>2 DEF Underway
  <2> QED
    BY <1>3, <1>4, <1>6, <2>1, <2>2, <2>3, CopiesRotated DEF Inv, others
<1>10. HolderInv'
  BY <1>3, <1>5 DEF Inv, HolderInv, history, Holding
<1>11. OtherInv'
  <2>1. \A p \in Others : held[p].phase = "rotated" => held[p].token.login # l
    BY <1>6 DEF Underway, RotatedFor
  <2> QED
    BY <1>5, <2>1, LoginTypes DEF Inv, OtherInv, others, history
<1>12. FileHoldsLatest'
  <2>1. CASE file.token.login = l
    BY <1>1, <2>1 DEF FileHoldsLatest
  <2>2. CASE file.token.login # l
    <3>1. server'[file.token.login] = server[file.token.login]
      BY <1>5, <2>2, LoginTypes DEF Inv
    <3>2. \A q \in Requests : stage[q] # "granted"
      BY <1>2 DEF Holding
    <3> QED
      BY <3>1, <3>2 DEF Inv, FileHoldsLatest, history, others
  <2> QED
    BY <2>1, <2>2
<1>13. NoRaceForRotation' /\ LoginsUndoneOnlyMidUse'
  BY DEF Inv, NoRaceForRotation, LoginsUndoneOnlyMidUse, history
<1> QED
  BY <1>7, <1>8, <1>9, <1>10, <1>11, <1>12, <1>13 DEF Inv

(* The new token is stored and used.                                       *)
LEMMA GrantedStep ==
    ASSUME AuthFileAssumption, Inv, NEW r \in Requests, Granted(r)
    PROVE  Inv'
<1> DEFINE t == auth[r]
           u == NewToken(r)
<1>1. /\ stage[r] = "granted" /\ stage' = [stage EXCEPT ![r] = "call"]
      /\ auth' = [auth EXCEPT ![r] = u]
      /\ UNCHANGED <<server, logins, kind, attempt, user, held, meddled, watch, crashes,
                     lost, cut, outside, spent, during>>
  BY DEF Granted, Goto, history, others
<1>2. t.login \in 0..logins /\ t.login \in 0..MaxLogins /\ t.n \in Nat
  BY LoginTypes, TokenTypes DEF Inv, LoginsKnown
<1>3. u \in Tokens /\ u.login = t.login /\ u.n = t.n + 1
  BY <1>2, TokenTypes DEF NewToken, Token, Tokens
<1>4. file'.token = u /\ file' \in Files
  <2>1. PICK m \in Modes :
          file' = [owner |-> "root:root", mode |-> m, token |-> u]
    BY DEF Granted, Persist, Replace, Modes
  <2> HIDE DEF u
  <2> QED
    BY <1>3, <2>1 DEF Files, Owners
<1>5. ASSUME NEW q \in Requests
      PROVE  q # r => ~ GrantedFor(q, t.login)
  BY <1>1, OneHolder DEF Inv, Holding, GrantedFor
<1>6. \A p \in Others : ~ RotatedFor(p, t.login)
  BY <1>1, <1>2 DEF Inv, NewestInv, GrantedFor
<1> HIDE DEF t, u
<1>7. /\ stage'[r] = "call" /\ stage' \in [Requests -> Stages]
      /\ \A q \in Requests : q # r => stage'[q] = stage[q]
  BY <1>1 DEF Inv, AuthTypeOK, Stages
<1>8. /\ auth'[r] = u /\ auth' \in [Requests -> Tokens]
      /\ \A q \in Requests : q # r => auth'[q] = auth[q]
  BY <1>1, <1>3 DEF Inv, AuthTypeOK
<1>9. user = r /\ \A q \in Requests : q # r => stage[q] \notin Holding
  BY <1>1, OneHolder DEF Inv, Holding
<1>10. /\ \A q \in Requests : (stage'[q] \in Holding) <=> (q = r)
       /\ \A q \in Requests : stage'[q] # "granted"
       /\ \A q \in Requests : stage'[q] = "stray" => q # r /\ stage[q] = "stray"
  BY <1>7, <1>9 DEF Holding
<1>11. server[u.login] = u.n /\ u.n \in Nat /\ u.login \in 0..MaxLogins
  BY <1>1, <1>2, <1>3 DEF Inv, HolderInv, t
<1>12. \A l \in 1..logins : l \notin during => u.login >= l
  BY <1>1, <1>3 DEF Inv, HolderInv, t, Holding
<1>13. AuthTypeOK'
  BY <1>1, <1>4, <1>7, <1>8, <1>9, <1>10 DEF Inv, AuthTypeOK
<1>14. LoginsKnown' /\ OtherInv'
  BY <1>1, <1>2, <1>3, <1>4, <1>8 DEF Inv, LoginsKnown, OtherInv
<1>15. NewestInv'
  <2> PICK l \in 0..MaxLogins : l = u.login
    BY <1>11
  <2>1. ~ Underway(l)'
    <3>1. \A q \in Requests : ~ GrantedFor(q, l)'
      BY <1>10 DEF GrantedFor
    <3>2. \A p \in Others : ~ RotatedFor(p, l)'
      BY <1>1, <1>3, <1>6 DEF RotatedFor
    <3> QED
      BY <3>1, <3>2 DEF Underway
  <2>2. \A q \in Requests : stage'[q] \in Live =>
           (stage[q] \in Live /\ auth'[q] = auth[q]) \/ auth'[q] = u
    BY <1>7, <1>8
  <2> QED
    BY <1>1, <1>4, <1>10, <1>11, <2>1, <2>2, CopiesStored DEF Inv
<1>16. FileHoldsLatest' /\ LoginsUndoneOnlyMidUse'
  BY <1>1, <1>4, <1>11, <1>12 DEF FileHoldsLatest, LoginsUndoneOnlyMidUse
<1>17. HolderInv'
  <2>1. \A q \in Requests : stage'[q] = "stray" => auth'[q].login \in cut
    BY <1>8, <1>10 DEF Inv, HolderInv
  <2> QED
    BY <1>1, <1>8, <1>10, <1>11, <1>12, <2>1 DEF HolderInv
<1>18. NoRaceForRotation'
  BY <1>1 DEF Inv, NoRaceForRotation
<1> QED
  BY <1>13, <1>14, <1>15, <1>16, <1>17, <1>18 DEF Inv

-----------------------------------------------------------------------------
(* Stray refreshes                                                         *)

(* What a refresh leaves behind that nobody waited for: its token is lost  *)
(* or was spent already.  Its login is known as cut off.                   *)
LEMMA StrayStep ==
    ASSUME AuthFileAssumption, Inv, NEW r \in Requests, StrayArrives(r)
    PROVE  Inv'
<1> PICK l : l = auth[r].login
  OBVIOUS
<1>1. /\ stage[r] = "stray" /\ stage' = [stage EXCEPT ![r] = "done"]
      /\ auth' = [auth EXCEPT ![r] = Nothing]
      /\ UNCHANGED <<file, logins, kind, attempt, user, held, meddled, watch, crashes,
                     cut, outside, during>>
  BY DEF StrayArrives, others
<1>2. /\ stage' \in [Requests -> Stages] /\ auth' \in [Requests -> Tokens]
      /\ stage'[r] = "done" /\ auth'[r] = Nothing
      /\ \A q \in Requests : q # r => stage'[q] = stage[q] /\ auth'[q] = auth[q]
  BY <1>1, NothingIsToken DEF Inv, AuthTypeOK, Stages
<1>3. /\ \A q \in Requests : (stage'[q] \in Holding) <=> (stage[q] \in Holding)
      /\ \A q \in Requests : stage'[q] \in Live =>
           q # r /\ stage[q] \in Live /\ stage'[q] = stage[q] /\ auth'[q] = auth[q]
      /\ \A q \in Requests : stage[q] = "granted" => q # r
      /\ \A q \in Requests : stage'[q] = "granted" => q # r /\ stage[q] = "granted"
  BY <1>1, <1>2 DEF Live, Holding
<1>4. /\ l \in 0..logins /\ l \in 0..MaxLogins /\ server[l] \in Nat /\ auth[r].n \in Nat
      /\ l \in cut
  BY <1>1, LoginTypes, TokenTypes DEF Inv, LoginsKnown, HolderInv
<1>5. CASE /\ auth[r].n = server[l] /\ server' = [server EXCEPT ![l] = @ + 1]
           /\ lost' = lost \cup {l} /\ UNCHANGED spent
  <2>1. /\ server' \in [0..MaxLogins -> Nat] /\ server'[l] = server[l] + 1
        /\ \A m \in 0..MaxLogins : m # l => server'[m] = server[m]
    BY <1>4, <1>5 DEF Inv, AuthTypeOK
  <2>2. ~ Underway(l)
    <3>1. stage[r] \in Live
      BY <1>1 DEF Live
    <3> QED
      BY <1>4, <1>5, <3>1, CurrentIsIdle DEF Inv
  <2>3. /\ \A q \in Requests : stage[q] = "granted" => auth[q].login # l
        /\ \A p \in Others : held[p].phase = "rotated" => held[p].token.login # l
    BY <2>2 DEF Underway, GrantedFor, RotatedFor
  <2>4. AuthTypeOK'
    BY <1>1, <1>2, <1>3, <1>4, <1>5, <2>1 DEF Inv, AuthTypeOK
  <2>5. LoginsKnown'
    <3>1. \A m \in 0..MaxLogins : m > logins => server'[m] = 0
      <4>1. logins \in Nat /\ \A m \in 0..MaxLogins : m > logins => m # l
        BY <1>4, TokenTypes DEF Inv
      <4> QED
        BY <2>1, <4>1 DEF Inv, LoginsKnown
    <3>2. 0 \in 0..logins
      BY TokenTypes DEF Inv
    <3> QED
      BY <1>1, <1>2, <3>1, <3>2, NothingIsToken DEF Inv, LoginsKnown
  <2>6. NewestInv'
    <3>1. \A m : /\ \A q \in Requests : GrantedFor(q, m)' => GrantedFor(q, m)
                 /\ \A p \in Others : RotatedFor(p, m)' => RotatedFor(p, m)
      BY <1>1, <1>3, <1>2 DEF GrantedFor, RotatedFor
    <3>2. /\ \A q \in Requests : ~ GrantedFor(q, l)'
          /\ \A p \in Others : ~ RotatedFor(p, l)'
      BY <2>2, <3>1 DEF Underway
    <3> QED
      BY <1>1, <1>3, <1>4, <1>5, <2>2, <3>1, <3>2, CopiesRotated DEF Inv
  <2>7. HolderInv'
    <3> SUFFICES ASSUME NEW q \in Requests, stage'[q] \in Live
                 PROVE  LET t == auth'[q]
                        IN  /\ stage'[q] \in Holding =>
                                 \A m \in 1..logins : m \notin during => t.login >= m
                            /\ stage'[q] \in Holding \ {"granted"} =>
                                 \/ t.n = server'[t.login]
                                 \/ t.login \in lost' \cup cut \cup outside
                            /\ stage'[q] = "granted" => server'[t.login] = t.n + 1
                            /\ stage'[q] = "stray" => t.login \in cut
      BY <1>1 DEF HolderInv, Live, Holding
    <3>1. stage'[q] = stage[q] /\ auth'[q] = auth[q] /\ auth[q].login \in 0..MaxLogins
      BY <1>3, LoginTypes DEF Inv
    <3> QED
      BY <1>5, <2>1, <2>3, <3>1 DEF Inv, HolderInv
  <2>8. OtherInv'
    BY <1>1, <2>1, <2>3, LoginTypes DEF Inv, OtherInv
  <2>9. FileHoldsLatest'
    <3>1. CASE file.token.login = l
      BY <1>1, <1>5, <3>1 DEF FileHoldsLatest
    <3>2. CASE file.token.login # l
      <4>1. server'[file.token.login] = server[file.token.login]
        BY <2>1, <3>2, LoginTypes DEF Inv
      <4>2. \A q \in Requests : stage[q] = "granted" =>
               stage'[q] = "granted" /\ auth'[q] = auth[q]
        BY <1>2, <1>3
      <4> QED
        BY <1>1, <1>5, <4>1, <4>2 DEF Inv, FileHoldsLatest
    <3> QED
      BY <3>1, <3>2
  <2>10. NoRaceForRotation' /\ LoginsUndoneOnlyMidUse'
    BY <1>1, <1>5 DEF Inv, NoRaceForRotation, LoginsUndoneOnlyMidUse
  <2> QED
    BY <2>4, <2>5, <2>6, <2>7, <2>8, <2>9, <2>10 DEF Inv
<1>6. CASE /\ UNCHANGED <<server, lost>>
           /\ spent' \subseteq spent \cup {l} /\ spent \subseteq spent'
  <2>1. AuthTypeOK'
    BY <1>1, <1>2, <1>3, <1>4, <1>6 DEF Inv, AuthTypeOK
  <2>2. LoginsKnown'
    <3>1. 0 \in 0..logins
      BY TokenTypes DEF Inv
    <3> QED
      BY <1>1, <1>2, <1>6, <3>1, NothingIsToken DEF Inv, LoginsKnown
  <2>3. NewestInv'
    BY <1>1, <1>3, <1>6, CopiesOfFile DEF Inv
  <2>4. HolderInv'
    BY <1>1, <1>3, <1>6 DEF Inv, HolderInv, Live
  <2>5. OtherInv' /\ LoginsUndoneOnlyMidUse'
    BY <1>1, <1>6 DEF Inv, OtherInv, LoginsUndoneOnlyMidUse
  <2>6. FileHoldsLatest'
    BY <1>1, <1>2, <1>3, <1>6 DEF Inv, FileHoldsLatest
  <2>7. NoRaceForRotation'
    BY <1>1, <1>4, <1>6 DEF Inv, NoRaceForRotation
  <2> QED
    BY <2>1, <2>2, <2>3, <2>4, <2>5, <2>6, <2>7 DEF Inv
<1> QED
  BY <1>5, <1>6 DEF StrayArrives

-----------------------------------------------------------------------------
(* Other programs and crashes                                              *)

LEMMA CreateFile ==
    ASSUME AuthFileAssumption, NEW token \in Tokens, Create(token)
    PROVE  file' \in Files /\ file'.token = token
<1>1. PICK c \in Creations : Replace(c[1], c[2], token)
  BY DEF Create
<1>2. c[1] \in Owners /\ c[2] \in Modes
  BY <1>1 DEF AuthFileAssumption
<1> QED
  BY <1>1, <1>2 DEF Replace, Files

(* A login starts a token of its own.                                      *)
LEMMA LoginStep ==
    ASSUME AuthFileAssumption, Inv, Login
    PROVE  Inv'
<1> PICK new : new = logins + 1
  OBVIOUS
<1>1. /\ logins' = new /\ logins < MaxLogins /\ Create(Token(new, 0))
      /\ during' = IF InUse THEN during \cup {new} ELSE during
      /\ UNCHANGED <<server, kind, stage, attempt, auth, user, held, meddled, watch,
                     crashes, lost, cut, outside, spent>>
  BY DEF Login, handlers, others
<1>2. logins \in Nat /\ MaxLogins \in Nat /\ new \in 1..MaxLogins /\ new > logins
  BY <1>1, TokenTypes, AuthFileAssumption DEF Inv
<1>3. PICK u : u = Token(new, 0)
  OBVIOUS
<1>4. /\ u \in Tokens /\ u.login = new /\ u.n = 0
      /\ file' \in Files /\ file'.token = u
  <2>1. u \in Tokens /\ u.login = new /\ u.n = 0
    BY <1>2, <1>3 DEF Token, Tokens
  <2> QED
    BY <1>1, <1>3, <2>1, CreateFile
<1>5. server[new] = 0 /\ new \in 0..MaxLogins
  BY <1>2 DEF Inv, LoginsKnown
<1>6. AuthTypeOK'
  <2>1. logins' \in 0..MaxLogins
    BY <1>1, <1>2
  <2>2. during' \subseteq during \cup {new} /\ new \in 0..MaxLogins
    BY <1>1, <1>2
  <2> QED
    BY <1>1, <1>4, <2>1, <2>2 DEF Inv, AuthTypeOK
<1>7. LoginsKnown'
  <2>1. \A x \in 0..logins : x \in 0..new
    BY <1>2
  <2>2. \A m \in 0..MaxLogins : m > new => m > logins
    BY <1>2
  <2> QED
    BY <1>1, <1>2, <1>4, <2>1, <2>2 DEF Inv, LoginsKnown
<1>8. /\ \A r \in Requests : auth[r].login # new
      /\ \A p \in Others : held[p].token.login # new
  BY <1>2, TokenTypes DEF Inv, LoginsKnown
<1>9. NewestInv'
  <2>1. ~ Underway(new)'
    BY <1>1, <1>8 DEF Underway, GrantedFor, RotatedFor
  <2> QED
    BY <1>1, <1>4, <1>5, <2>1, CopiesStored DEF Inv
<1>10. /\ \A r \in Requests : stage[r] \in Holding => new \in during'
       /\ \A p \in Others : held[p].phase # "none" => new \in during'
  BY <1>1, NoHolder DEF Inv, InUse
<1>11. /\ \A m \in 1..logins' : m \in 1..logins \/ m = new
       /\ during \subseteq during'
  BY <1>1, <1>2
<1>12. HolderInv'
  <2> SUFFICES ASSUME NEW r \in Requests
               PROVE  LET t == auth[r]
                      IN  /\ stage[r] \in Holding =>
                               \A l \in 1..logins' : l \notin during' => t.login >= l
                          /\ stage[r] \in Holding \ {"granted"} =>
                               \/ t.n = server[t.login]
                               \/ t.login \in lost \cup cut \cup outside
                          /\ stage[r] = "granted" => server[t.login] = t.n + 1
                          /\ stage[r] = "stray" => t.login \in cut
    BY <1>1 DEF HolderInv
  <2> QED
    BY <1>10, <1>11 DEF Inv, HolderInv
<1>13. OtherInv'
  <2> SUFFICES ASSUME NEW p \in Others
               PROVE  LET t == held[p].token
                      IN  /\ held[p].phase # "none" =>
                               \A l \in 1..logins' : l \notin during' => t.login >= l
                          /\ held[p].phase = "rotated" =>
                               t.n = server[t.login] /\ t.login \in outside
    BY <1>1 DEF OtherInv
  <2> QED
    BY <1>10, <1>11 DEF Inv, OtherInv
<1>14. FileHoldsLatest' /\ NoRaceForRotation'
  BY <1>1, <1>4, <1>5 DEF Inv, FileHoldsLatest, NoRaceForRotation
<1>15. LoginsUndoneOnlyMidUse'
  BY <1>1, <1>2, <1>4 DEF LoginsUndoneOnlyMidUse
<1> QED
  BY <1>6, <1>7, <1>9, <1>12, <1>13, <1>14, <1>15 DEF Inv

(* Another program reads the file.                                         *)
LEMMA ReadElsewhereStep ==
    ASSUME AuthFileAssumption, Inv, NEW p \in Others, ReadElsewhere(p)
    PROVE  Inv'
<1>1. /\ held' = [held EXCEPT ![p] = Copy("read", file.token)]
      /\ held[p].phase = "none" /\ meddled < MaxRefreshes /\ meddled' = meddled + 1
      /\ UNCHANGED <<file, server, logins, kind, stage, attempt, auth, user, watch,
                     crashes, lost, cut, outside, spent, during>>
  BY DEF ReadElsewhere, handlers, history
<1>2. /\ held' \in [Others -> Copies]
      /\ held'[p].phase = "read" /\ held'[p].token = file.token
      /\ \A q \in Others : q # p => held'[q] = held[q]
  <2>1. /\ Copy("read", file.token) \in Copies
        /\ Copy("read", file.token).phase = "read"
        /\ Copy("read", file.token).token = file.token
    BY TokenTypes DEF Inv, Copy, Copies
  <2> QED
    BY <1>1, <2>1 DEF Inv, AuthTypeOK
<1>3. \A q \in Others : (held'[q].phase = "rotated") =>
         q # p /\ held'[q] = held[q]
  BY <1>2
<1>4. AuthTypeOK'
  <2>1. meddled' \in 0..MaxRefreshes
    BY <1>1, AuthFileAssumption DEF Inv, AuthTypeOK
  <2> QED
    BY <1>1, <1>2, <2>1 DEF Inv, AuthTypeOK
<1>5. NewestInv'
  BY <1>1, <1>2, CopiesOfFile DEF Inv
<1>6. LoginsKnown' /\ HolderInv'
  BY <1>1, <1>2 DEF Inv, LoginsKnown, HolderInv
<1>7. OtherInv'
  BY <1>1, <1>2, <1>3 DEF Inv, OtherInv, LoginsUndoneOnlyMidUse
<1>8. FileHoldsLatest' /\ NoRaceForRotation' /\ LoginsUndoneOnlyMidUse'
  <2>1. \A q \in Others : held[q].phase = "rotated" => held'[q] = held[q]
    BY <1>1, <1>2
  <2> QED
    BY <1>1, <2>1 DEF Inv, FileHoldsLatest, NoRaceForRotation, LoginsUndoneOnlyMidUse
<1> QED
  BY <1>4, <1>5, <1>6, <1>7, <1>8 DEF Inv

(* It rotates what it read, if that is still the latest: then no rotation  *)
(* of it is on its way.                                                    *)
LEMMA RotateElsewhereStep ==
    ASSUME AuthFileAssumption, Inv, NEW p \in Others, RotateElsewhere(p)
    PROVE  Inv'
<1> PICK l, n : l = held[p].token.login /\ n = held[p].token.n
  OBVIOUS
<1>1. /\ held[p].phase = "read" /\ n = server[l]
      /\ server' = [server EXCEPT ![l] = @ + 1]
      /\ held' = [held EXCEPT ![p] = Copy("rotated", Token(l, n + 1))]
      /\ outside' = outside \cup {l}
      /\ UNCHANGED <<file, logins, kind, stage, attempt, auth, user, meddled, watch,
                     crashes, lost, cut, spent, during>>
  BY DEF RotateElsewhere, handlers
<1>2. l \in 0..logins /\ l \in 0..MaxLogins /\ n \in Nat
  BY LoginTypes, TokenTypes DEF Inv, LoginsKnown
<1>3. /\ held' \in [Others -> Copies]
      /\ held'[p].phase = "rotated"
      /\ held'[p].token.login = l /\ held'[p].token.n = n + 1
      /\ \A q \in Others : q # p => held'[q] = held[q]
  <2>1. /\ Token(l, n + 1) \in Tokens
        /\ Token(l, n + 1).login = l /\ Token(l, n + 1).n = n + 1
    BY <1>2 DEF Token, Tokens
  <2>2. PICK c : c = Copy("rotated", Token(l, n + 1))
    OBVIOUS
  <2>3. c \in Copies /\ c.phase = "rotated" /\ c.token = Token(l, n + 1)
    BY <2>1, <2>2 DEF Copy, Copies
  <2> QED
    BY <1>1, <2>1, <2>2, <2>3 DEF Inv, AuthTypeOK
<1>4. /\ server' \in [0..MaxLogins -> Nat] /\ server'[l] = n + 1
      /\ \A m \in 0..MaxLogins : m # l => server'[m] = server[m]
  BY <1>1, <1>2 DEF Inv, AuthTypeOK
<1>5. ~ Underway(l)
  BY <1>1, <1>2, CurrentIsIdle DEF Inv
<1>6. /\ \A q \in Requests : stage[q] = "granted" => auth[q].login # l
      /\ \A q \in Others : held[q].phase = "rotated" => held[q].token.login # l
  BY <1>5 DEF Underway, GrantedFor, RotatedFor
<1>7. AuthTypeOK'
  BY <1>1, <1>2, <1>3, <1>4 DEF Inv, AuthTypeOK
<1>8. LoginsKnown'
  <2>1. \A m \in 0..MaxLogins : m > logins => server'[m] = 0
    <3>1. logins \in Nat /\ \A m \in 0..MaxLogins : m > logins => m # l
      BY <1>2, TokenTypes DEF Inv
    <3> QED
      BY <1>4, <3>1 DEF Inv, LoginsKnown
  <2> QED
    BY <1>1, <1>2, <1>3, <2>1 DEF Inv, LoginsKnown
<1>9. NewestInv'
  <2>1. \A m : \A q \in Requests : GrantedFor(q, m)' => GrantedFor(q, m)
    BY <1>1 DEF GrantedFor
  <2>2. \A m : \A q \in Others : q # p /\ RotatedFor(q, m)' => RotatedFor(q, m)
    BY <1>3 DEF RotatedFor
  <2>3. \A m : RotatedFor(p, m)' => m = l
    BY <1>3 DEF RotatedFor
  <2>4. /\ \A q \in Requests : ~ GrantedFor(q, l)'
        /\ \A q \in Others : RotatedFor(q, l)' => q = p
    BY <1>5, <2>1, <2>2 DEF Underway
  <2>5. \A q \in Others : held'[q].phase = "read" => held'[q] = held[q]
    BY <1>3
  <2> QED
    BY <1>1, <1>2, <1>5, <2>1, <2>2, <2>3, <2>4, <2>5, CopiesRotated DEF Inv
<1>10. HolderInv'
  <2> SUFFICES ASSUME NEW q \in Requests
               PROVE  LET t == auth[q]
                      IN  /\ stage[q] \in Holding =>
                               \A m \in 1..logins : m \notin during => t.login >= m
                          /\ stage[q] \in Holding \ {"granted"} =>
                               \/ t.n = server'[t.login]
                               \/ t.login \in lost \cup cut \cup outside'
                          /\ stage[q] = "granted" => server'[t.login] = t.n + 1
                          /\ stage[q] = "stray" => t.login \in cut
    BY <1>1 DEF HolderInv
  <2>1. auth[q].login \in 0..MaxLogins
    BY LoginTypes DEF Inv
  <2> QED
    BY <1>1, <1>4, <1>6, <2>1 DEF Inv, HolderInv
<1>11. OtherInv'
  <2> SUFFICES ASSUME NEW q \in Others
               PROVE  LET t == held'[q].token
                      IN  /\ held'[q].phase # "none" =>
                               \A m \in 1..logins : m \notin during => t.login >= m
                          /\ held'[q].phase = "rotated" =>
                               t.n = server'[t.login] /\ t.login \in outside'
    BY <1>1 DEF OtherInv
  <2>1. CASE q = p
    <3>1. \A m \in 1..logins : m \notin during => l >= m
      BY <1>1 DEF Inv, OtherInv
    <3> QED
      BY <1>1, <1>3, <1>4, <2>1, <3>1
  <2>2. CASE q # p
    BY <1>1, <1>3, <1>4, <1>6, <2>2, LoginTypes DEF Inv, OtherInv
  <2> QED
    BY <2>1, <2>2
<1>12. FileHoldsLatest'
  <2>1. CASE file.token.login = l
    BY <1>1, <1>3, <2>1 DEF FileHoldsLatest
  <2>2. CASE file.token.login # l
    <3>1. server'[file.token.login] = server[file.token.login]
      BY <1>4, <2>2, LoginTypes DEF Inv
    <3>2. \A q \in Others : held[q].phase = "rotated" => held'[q] = held[q]
      BY <1>1, <1>3
    <3> QED
      BY <1>1, <3>1, <3>2 DEF Inv, FileHoldsLatest
  <2> QED
    BY <2>1, <2>2
<1>13. NoRaceForRotation' /\ LoginsUndoneOnlyMidUse'
  BY <1>1 DEF Inv, NoRaceForRotation, LoginsUndoneOnlyMidUse
<1> QED
  BY <1>7, <1>8, <1>9, <1>10, <1>11, <1>12, <1>13 DEF Inv

(* It stores its new token, which is the only one of the login under way.  *)
LEMMA StoreElsewhereStep ==
    ASSUME AuthFileAssumption, Inv, NEW p \in Others, StoreElsewhere(p)
    PROVE  Inv'
<1> PICK u : u = held[p].token
  OBVIOUS
<1>1. /\ held[p].phase = "rotated" /\ Create(u)
      /\ held' = [held EXCEPT ![p] = NoCopy]
      /\ UNCHANGED <<server, logins, kind, stage, attempt, auth, user, meddled, watch,
                     crashes, lost, cut, outside, spent, during>>
  BY DEF StoreElsewhere, handlers, history
<1>2. /\ u \in Tokens /\ u.login \in 0..logins /\ u.login \in 0..MaxLogins
      /\ u.n = server[u.login]
      /\ \A l \in 1..logins : l \notin during => u.login >= l
  BY <1>1, LoginTypes, TokenTypes DEF Inv, LoginsKnown, OtherInv
<1>3. file' \in Files /\ file'.token = u
  BY <1>1, <1>2, CreateFile
<1>4. /\ held' \in [Others -> Copies] /\ held'[p] = NoCopy
      /\ \A q \in Others : q # p => held'[q] = held[q]
  BY <1>1, NothingIsToken DEF Inv, AuthTypeOK
<1>5. AuthTypeOK'
  BY <1>1, <1>3, <1>4 DEF Inv, AuthTypeOK
<1>6. LoginsKnown'
  <2>1. 0 \in 0..logins
    BY TokenTypes DEF Inv
  <2> QED
    BY <1>1, <1>2, <1>3, <1>4, <2>1, NothingIsToken DEF Inv, LoginsKnown
<1>7. NewestInv'
  <2> PICK l \in 0..MaxLogins : l = u.login
    BY <1>2
  <2>1. RotatedFor(p, l)
    BY <1>1 DEF RotatedFor
  <2>2. /\ \A q \in Requests : ~ GrantedFor(q, l)
        /\ \A q \in Others : RotatedFor(q, l) => q = p
    BY <2>1 DEF Inv, NewestInv
  <2>3. \A q \in Requests : ~ GrantedFor(q, l)'
    BY <1>1, <2>2 DEF GrantedFor
  <2>4. \A q \in Others : ~ RotatedFor(q, l)'
    <3>1. \A q \in Others : RotatedFor(q, l)' => q # p /\ RotatedFor(q, l)
      BY <1>4, NothingIsToken DEF RotatedFor
    <3> QED
      BY <2>2, <3>1
  <2>5. ~ Underway(l)'
    BY <2>3, <2>4 DEF Underway
  <2>6. \A q \in Others : held'[q] = held[q] \/ held'[q].phase = "none"
    BY <1>4, NothingIsToken
  <2> QED
    BY <1>1, <1>2, <1>3, <2>5, <2>6, CopiesStored DEF Inv
<1>8. HolderInv'
  BY <1>1 DEF Inv, HolderInv
<1>9. OtherInv'
  BY <1>1, <1>4, NothingIsToken DEF Inv, OtherInv
<1>10. FileHoldsLatest' /\ NoRaceForRotation' /\ LoginsUndoneOnlyMidUse'
  BY <1>1, <1>2, <1>3 DEF Inv, FileHoldsLatest, NoRaceForRotation, LoginsUndoneOnlyMidUse
<1> QED
  BY <1>5, <1>6, <1>7, <1>8, <1>9, <1>10 DEF Inv

(* It gives up, and with it a new token on its way.                        *)
LEMMA FailElsewhereStep ==
    ASSUME AuthFileAssumption, Inv, NEW p \in Others, FailElsewhere(p)
    PROVE  Inv'
<1>1. /\ lost' = IF held[p].phase = "rotated" THEN lost \cup {held[p].token.login}
                 ELSE lost
      /\ held' = [held EXCEPT ![p] = NoCopy]
      /\ UNCHANGED <<file, server, logins, kind, stage, attempt, auth, user, meddled,
                     watch, crashes, cut, outside, spent, during>>
  BY DEF FailElsewhere, handlers
<1>2. /\ held' \in [Others -> Copies] /\ held'[p] = NoCopy
      /\ \A q \in Others : q # p => held'[q] = held[q]
  BY <1>1, NothingIsToken DEF Inv, AuthTypeOK
<1>3. /\ lost \subseteq lost' /\ lost' \subseteq lost \cup {held[p].token.login}
      /\ held[p].token.login \in 0..MaxLogins
  BY <1>1, LoginTypes DEF Inv
<1>4. AuthTypeOK'
  BY <1>1, <1>2, <1>3 DEF Inv, AuthTypeOK
<1>5. LoginsKnown'
  <2>1. 0 \in 0..logins
    BY TokenTypes DEF Inv
  <2> QED
    BY <1>1, <1>2, <2>1, NothingIsToken DEF Inv, LoginsKnown
<1>6. NewestInv'
  <2>1. \A q \in Others : held'[q] = held[q] \/ held'[q].phase = "none"
    BY <1>2, NothingIsToken
  <2> QED
    BY <1>1, <2>1, CopiesOfFile DEF Inv
<1>7. HolderInv' /\ OtherInv'
  <2>1. HolderInv'
    BY <1>1, <1>3 DEF Inv, HolderInv
  <2> QED
    BY <1>1, <1>2, <2>1, NothingIsToken DEF Inv, OtherInv
<1>8. FileHoldsLatest'
  <2>1. \A q \in Others : held[q].phase = "rotated" =>
           held[q].token.login \in lost' \/ held'[q] = held[q]
    BY <1>1, <1>2
  <2> QED
    BY <1>1, <1>3, <2>1 DEF Inv, FileHoldsLatest
<1>9. NoRaceForRotation' /\ LoginsUndoneOnlyMidUse'
  BY <1>1, <1>3 DEF Inv, NoRaceForRotation, LoginsUndoneOnlyMidUse
<1> QED
  BY <1>4, <1>5, <1>6, <1>7, <1>8, <1>9 DEF Inv

(* A crash loses at most a rotation on its way, and leaves a refresh stray *)
(* that was on its way to the server.                                      *)
LEMMA CrashStep ==
    ASSUME AuthFileAssumption, Inv, Crash
    PROVE  Inv'
<1> DEFINE at(where) == {auth[r].login : r \in {q \in Requests : stage[q] = where}}
<1>1. /\ stage' \in [Requests -> Stages]
      /\ \A r \in Requests : stage'[r] \notin Holding /\ stage'[r] # "granted"
      /\ \A r \in Requests : stage'[r] \in Live =>
           stage'[r] = "stray" /\ stage[r] \in {"refresh", "stray"}
  BY DEF Crash, Stages, Holding, Live
<1>2. /\ auth' \in [Requests -> Tokens]
      /\ \A r \in Requests : auth'[r] = auth[r] \/ auth'[r] = Nothing
      /\ \A r \in Requests : stage[r] \in {"refresh", "stray"} => auth'[r] = auth[r]
  BY TokenTypes, NothingIsToken DEF Crash, Inv
<1>3. /\ lost' = lost \cup at("granted") /\ at("granted") \subseteq 0..MaxLogins
      /\ cut' = cut \cup at("refresh") /\ at("refresh") \subseteq 0..MaxLogins
  BY LoginTypes DEF Crash, Inv
<1>4. /\ user' = NoOne /\ watch' = "down" /\ attempt' \in [Requests -> {0, 1}]
      /\ crashes' = crashes + 1 /\ crashes < MaxCrashes
      /\ UNCHANGED <<file, server, logins, kind, held, meddled, outside, spent, during>>
  BY DEF Crash, others
<1>5. /\ \A q \in Requests : stage[q] = "granted" => auth[q].login \in lost'
      /\ \A q \in Requests : stage[q] = "refresh" => auth[q].login \in cut'
  BY <1>3
<1> HIDE DEF at
<1>6. AuthTypeOK'
  <2>1. crashes' \in 0..MaxCrashes
    BY <1>4, AuthFileAssumption DEF Inv, AuthTypeOK
  <2> QED
    BY <1>1, <1>2, <1>3, <1>4, <2>1, AuthFileAssumption DEF Inv, AuthTypeOK
<1>7. LoginsKnown'
  <2>1. 0 \in 0..logins
    BY TokenTypes DEF Inv
  <2> QED
    BY <1>2, <1>4, <2>1, NothingIsToken DEF Inv, LoginsKnown
<1>8. NewestInv'
  <2>1. \A r \in Requests : stage'[r] \in Live => stage[r] \in Live /\ auth'[r] = auth[r]
    BY <1>1, <1>2 DEF Live, Holding
  <2> QED
    BY <1>1, <1>4, <2>1, CopiesOfFile DEF Inv
<1>9. HolderInv'
  <2>1. ASSUME NEW r \in Requests, stage'[r] = "stray"
        PROVE  auth'[r].login \in cut'
    <3>1. stage[r] \in {"refresh", "stray"} /\ auth'[r] = auth[r]
      BY <1>1, <1>2, <2>1 DEF Live
    <3> QED
      BY <1>3, <1>5, <3>1 DEF Inv, HolderInv
  <2> QED
    BY <1>1, <2>1 DEF HolderInv
<1>10. OtherInv' /\ LoginsUndoneOnlyMidUse'
  BY <1>4 DEF Inv, OtherInv, LoginsUndoneOnlyMidUse
<1>11. FileHoldsLatest'
  BY <1>3, <1>4, <1>5 DEF Inv, FileHoldsLatest
<1>12. NoRaceForRotation'
  BY <1>3, <1>4 DEF Inv, NoRaceForRotation
<1> QED
  BY <1>6, <1>7, <1>8, <1>9, <1>10, <1>11, <1>12 DEF Inv

-----------------------------------------------------------------------------
(* The invariant                                                           *)

LEMMA InitInv == ASSUME AuthFileAssumption PROVE Init => Inv
<1> SUFFICES ASSUME Init PROVE Inv
  OBVIOUS
<1>1. Token(0, 0) \in Tokens /\ Token(0, 0).login = 0 /\ Token(0, 0).n = 0
  BY DEF Token, Tokens
<1>2. file \in Files /\ file.token = Token(0, 0)
  BY <1>1 DEF Init, Files, Owners, Modes
<1>3. /\ \A r \in Requests : stage[r] = "idle" /\ auth[r] = Nothing
      /\ \A r \in Requests : stage[r] \notin Live
      /\ \A p \in Others : held[p] = NoCopy
  BY DEF Init, Live, Holding
<1>4. 0 \in 0..MaxLogins /\ 0 \in 0..MaxRefreshes /\ 0 \in 0..MaxCrashes
  BY AuthFileAssumption
<1>5. AuthTypeOK
  <2>1. stage \in [Requests -> Stages] /\ \A r \in Requests : stage[r] \notin Holding
    BY DEF Init, Stages, Holding
  <2>2. auth \in [Requests -> Tokens] /\ held \in [Others -> Copies]
    BY NothingIsToken DEF Init
  <2> QED
    BY <1>2, <1>4, <2>1, <2>2, AuthFileAssumption DEF Init, AuthTypeOK
<1>6. LoginsKnown
  BY <1>1, <1>2, <1>3, <1>4, NothingIsToken DEF Init, LoginsKnown
<1>7. FileHoldsLatest
  BY <1>1, <1>2, <1>4 DEF Init, FileHoldsLatest
<1>8. HolderInv /\ OtherInv
  BY <1>3, NothingIsToken DEF HolderInv, OtherInv, Live, Holding
<1>9. NewestInv
  <2>1. \A l : ~ Underway(l)
    BY <1>3, NothingIsToken DEF Underway, GrantedFor, RotatedFor, Live, Holding
  <2>2. \A l \in 0..MaxLogins : Behind(l, server[l])
    BY <1>1, <1>2, <1>3, NothingIsToken DEF Init, Behind
  <2> QED
    BY <2>1, <2>2 DEF NewestInv, Underway
<1>10. NoRaceForRotation /\ LoginsUndoneOnlyMidUse
  BY DEF Init, NoRaceForRotation, LoginsUndoneOnlyMidUse
<1> QED
  BY <1>5, <1>6, <1>7, <1>8, <1>9, <1>10 DEF Inv

(* The steps of a request.                                                 *)
LEMMA EnterInv ==
    ASSUME AuthFileAssumption, Inv, NEW r \in Requests, Enter(r)
    PROVE  Inv'
<1>1. /\ file \in Files
      /\ UNCHANGED <<server, logins, kind, attempt, others, watch, crashes, history>>
  BY DEF Enter, Inv, AuthTypeOK
<1>2. CASE CheckImage(r)
  <2>1. file' \in Files /\ file'.token = file.token
    BY <1>1, <1>2, RepairKeepsToken DEF CheckImage
  <2>2. PICK x \in {"queued", "done"} : stage' = [stage EXCEPT ![r] = x]
    BY <1>2 DEF CheckImage
  <2>3. stage[r] \notin Holding /\ x \in Stages \ Live
    BY <1>2 DEF CheckImage, Stages, Holding, Live
  <2> QED
    BY <1>1, <1>2, <2>1, <2>2, <2>3, OutsideStep DEF CheckImage
<1>3. CASE QueueRun(r)
  <2>1. stage[r] \notin Holding /\ "queued" \in Stages \ Live
    BY <1>3 DEF QueueRun, Stages, Holding, Live
  <2> QED
    BY <1>1, <1>3, <2>1, OutsideStep DEF QueueRun
<1>4. CASE Begin(r)
  <2>1. file' \in Files /\ file'.token = file.token
    BY <1>1, <1>4, RepairKeepsToken DEF Begin
  <2>2. CASE Usable(kind[r], file')
    <3>1. PICK x \in {"call", "refresh"} : stage' = [stage EXCEPT ![r] = x]
      BY <1>4, <2>2 DEF Begin
    <3> QED
      BY <1>1, <1>4, <2>1, <2>2, <3>1, ReadStep DEF Begin
  <2>3. CASE ~ Usable(kind[r], file')
    <3>1. stage[r] \notin Holding /\ "done" \in Stages \ Live
      BY <1>4 DEF Begin, Stages, Holding, Live
    <3> QED
      BY <1>1, <1>4, <2>1, <2>3, <3>1, OutsideStep DEF Begin
  <2> QED
    BY <2>2, <2>3
<1> QED
  BY <1>2, <1>3, <1>4 DEF Enter

LEMMA ServerAnswersInv ==
    ASSUME AuthFileAssumption, Inv, NEW r \in Requests, ServerAnswers(r)
    PROVE  Inv'
<1>1. /\ stage[r] = "refresh" /\ stage[r] \in Holding
      /\ UNCHANGED <<file, logins, kind, attempt, auth, others, watch, crashes,
                     lost, cut, outside, during>>
  BY DEF ServerAnswers, Holding
<1>2. CASE /\ auth[r].n = server[auth[r].login]
           /\ server' = [server EXCEPT ![auth[r].login] = @ + 1]
           /\ Goto(r, "granted") /\ UNCHANGED spent
  BY <1>1, <1>2, ServerGrants DEF Goto, history
<1>3. CASE /\ Goto(r, "refused") /\ UNCHANGED server
           /\ \/ spent' = spent
              \/ /\ auth[r].n # server[auth[r].login]
                 /\ spent' = spent \cup {auth[r].login}
  <2>1. /\ attempt' = [attempt EXCEPT ![r] = attempt[r]] /\ attempt[r] \in {0, 1}
        /\ "refused" \in Holding \ {"granted"}
        /\ stage' = [stage EXCEPT ![r] = "refused"] /\ UNCHANGED user
    BY <1>1, <1>3 DEF Inv, AuthTypeOK, Holding, Goto
  <2>2. /\ lost' = IF stage[r] = "granted" THEN lost \cup {auth[r].login} ELSE lost
        /\ spent' \subseteq spent \cup {auth[r].login}
        /\ spent' = spent \/ (auth[r].n # server[auth[r].login] /\ stage[r] # "granted")
    BY <1>1, <1>3
  <2> QED
    BY <1>1, <1>3, <2>1, <2>2, HolderGoesOn
<1> QED
  BY <1>2, <1>3 DEF ServerAnswers

(* RuntimeError after a refusal, or after an answer that is of no use.     *)
LEMMA WithoutRefreshInv ==
    ASSUME AuthFileAssumption, Inv, NEW r \in Requests, Refused(r) \/ GrantedUnusable(r)
    PROVE  Inv'
<1>1. /\ WithoutRefresh(r) /\ stage[r] \in Holding
      /\ lost' = IF stage[r] = "granted" THEN lost \cup {auth[r].login} ELSE lost
      /\ UNCHANGED <<file, server, logins, kind, others, watch, crashes, cut,
                     outside, spent, during>>
  BY DEF Refused, GrantedUnusable, WithoutRefresh, Holding
<1>2. CASE Over(r)
  BY <1>1, <1>2, HolderLeaves
<1>3. CASE Goto(r, "call") /\ UNCHANGED <<attempt, auth>>
  <2>1. /\ attempt' = [attempt EXCEPT ![r] = attempt[r]] /\ attempt[r] \in {0, 1}
        /\ "call" \in Holding \ {"granted"}
        /\ stage' = [stage EXCEPT ![r] = "call"] /\ UNCHANGED <<auth, user>>
        /\ spent' \subseteq spent \cup {auth[r].login}
    BY <1>1, <1>3 DEF Inv, AuthTypeOK, Holding, Goto
  <2>2. /\ spent' = spent \/ (auth[r].n # server[auth[r].login] /\ stage[r] # "granted")
        /\ UNCHANGED <<file, server, logins, kind, auth, user, others, watch,
                       crashes, cut, outside, during>>
    BY <1>1, <2>1
  <2> QED
    BY <1>1, <2>1, <2>2, HolderGoesOn
<1> QED
  BY <1>1, <1>2, <1>3 DEF WithoutRefresh

LEMMA CallEndsInv ==
    ASSUME AuthFileAssumption, Inv, NEW r \in Requests, CallEnds(r)
    PROVE  Inv'
<1>1. /\ stage[r] = "call" /\ stage[r] \in Holding
      /\ lost' = IF stage[r] = "granted" THEN lost \cup {auth[r].login} ELSE lost
      /\ UNCHANGED <<file, server, logins, kind, others, watch, crashes, lost, cut,
                     outside, spent, during>>
  BY DEF CallEnds, Holding, history
<1>2. CASE Over(r)
  BY <1>1, <1>2, HolderLeaves
<1>3. CASE attempt' = [attempt EXCEPT ![r] = 1] /\ Goto(r, "refresh") /\ UNCHANGED auth
  <2>1. /\ "refresh" \in Holding \ {"granted"}
        /\ stage' = [stage EXCEPT ![r] = "refresh"] /\ UNCHANGED <<auth, user>>
        /\ spent' \subseteq spent \cup {auth[r].login}
    BY <1>1, <1>3 DEF Holding, Goto
  <2> QED
    BY <1>1, <1>3, <2>1, HolderGoesOn
<1> QED
  BY <1>2, <1>3 DEF CallEnds

LEMMA WorkInv ==
    ASSUME AuthFileAssumption, Inv, NEW r \in Requests, Work(r)
    PROVE  Inv'
<1>1. CASE GiveUp(r)
  <2>1. CASE stage[r] = "refresh"
    BY <1>1, <2>1, AstrayStep DEF GiveUp
  <2>2. CASE stage[r] # "refresh"
    BY <1>1, <2>2, HolderLeaves DEF GiveUp
  <2> QED
    BY <2>1, <2>2
<1>2. CASE CancelQueued(r)
  <2>1. /\ stage[r] \notin Holding /\ "done" \in Stages \ Live
        /\ file' \in Files /\ file'.token = file.token
    BY <1>2 DEF CancelQueued, Stages, Holding, Live, Inv, AuthTypeOK
  <2> QED
    BY <1>2, <2>1, OutsideStep DEF CancelQueued, Goto
<1> QED
  BY <1>1, <1>2, EnterInv, ServerAnswersInv, GrantedStep, WithoutRefreshInv, CallEndsInv,
     StrayStep DEF Work

LEMMA OtherWorkInv ==
    ASSUME AuthFileAssumption, Inv, NEW p \in Others, RefreshElsewhere(p)
    PROVE  Inv'
BY ReadElsewhereStep, RotateElsewhereStep, StoreElsewhereStep, FailElsewhereStep
   DEF RefreshElsewhere

(* The supervisor and the restart change owner and mode only.              *)
LEMMA WatchInv ==
    ASSUME Inv, Supervise \/ Restart
    PROVE  Inv'
<1>1. file \in Files
  BY DEF Inv, AuthTypeOK
<1>2. file' \in Files /\ file'.token = file.token
  <2>1. CASE Look
    BY <1>1, <2>1 DEF Look
  <2>2. CASE Chown
    BY <1>1, <2>2 DEF Chown, Files, Owners
  <2>3. CASE Chmod
    BY <1>1, <2>3 DEF Chmod, Files, Modes
  <2>4. CASE Restart
    BY <1>1, <2>4, RepairKeepsToken DEF Restart
  <2> QED
    BY <2>1, <2>2, <2>3, <2>4 DEF Supervise
<1>3. /\ UNCHANGED <<server, logins, handlers, others, crashes, history>>
      /\ watch' \in {"sleep", "chown", "chmod", "down"}
  BY DEF Supervise, Look, Chown, Chmod, Restart
<1> QED
  BY <1>2, <1>3, MetadataStep

LEMMA StepInv == ASSUME AuthFileAssumption PROVE Inv /\ [Next]_vars => Inv'
<1> SUFFICES ASSUME Inv, [Next]_vars PROVE Inv'
  OBVIOUS
<1>1. CASE UNCHANGED vars
  <2>1. /\ file' \in Files /\ file'.token = file.token
        /\ watch' \in {"sleep", "chown", "chmod", "down"}
        /\ UNCHANGED <<server, logins, handlers, others, crashes, history>>
    BY <1>1 DEF vars, Inv, AuthTypeOK
  <2> QED
    BY <2>1, MetadataStep
<1>2. CASE Next
  BY <1>2, WorkInv, LoginStep, OtherWorkInv, WatchInv, CrashStep DEF Next
<1> QED
  BY <1>1, <1>2

LEMMA Invariance == Spec => []Inv
BY AuthFileAssumption, InitInv, StepInv, PTL DEF Spec

-----------------------------------------------------------------------------
(* The theorems                                                            *)

(* Types of the file, of what requests remember, and of the lock's holder. *)
THEOREM AuthTypeCorrect == Spec => []AuthTypeOK
<1>1. Inv => AuthTypeOK
  BY DEF Inv
<1> QED
  BY <1>1, Invariance, PTL

(* The file has the latest token of its login, unless that is on its way   *)
(* or was lost with its answer: however the requests, other programs and   *)
(* stray refreshes interleave, a newer token is never overwritten by an    *)
(* older one of the same login.                                            *)
THEOREM FileStaysLatest == Spec => []FileHoldsLatest
<1>1. Inv => FileHoldsLatest
  BY DEF Inv
<1> QED
  BY <1>1, Invariance, PTL

(* A spent token is presented only of a login of which a refresh was cut   *)
(* off, its answer was lost, or another program refreshed it: the lock     *)
(* keeps the users of the sidecar from racing one another otherwise.       *)
THEOREM RotationIsNotRaced == Spec => []NoRaceForRotation
<1>1. Inv => NoRaceForRotation
  BY DEF Inv
<1> QED
  BY <1>1, Invariance, PTL

(* A login on the host is undone only if a request with the lock or        *)
(* another program was between reading the file and replacing it when the  *)
(* login was made: not by what waits for the lock, nor by a stray refresh. *)
THEOREM LoginsSurvive == Spec => []LoginsUndoneOnlyMidUse
<1>1. Inv => LoginsUndoneOnlyMidUse
  BY DEF Inv
<1> QED
  BY <1>1, Invariance, PTL
=============================================================================

------------------------------ MODULE AuthFile ------------------------------
(***************************************************************************)
(* The credential file auth.json of the Codex sidecar: image generations   *)
(* (app/codex_image.py) and runs of the CLI take turns on it under         *)
(* AUTH_SYNC_LOCK and may refresh it; other programs, which know nothing   *)
(* of the lock, read it, refresh it and replace it in their own time; the  *)
(* root supervisor started by runtime-entrypoint.sh repairs its owner and  *)
(* mode; and the sidecar may crash and be restarted at any moment.  A      *)
(* refresh that was sent may reach the server after its sender is gone.    *)
(*                                                                         *)
(* A refresh token is good for one refresh.  It is modelled by the login   *)
(* it stems from and the number of refreshes since; the server knows the   *)
(* current number for each login.                                          *)
(***************************************************************************)
EXTENDS Integers, FiniteSets

CONSTANTS
    Requests,
    Others,       \* other programs that refresh: the host's CLI, the executor
                  \* child, the Etsy renderer's auth sync
    Creations,    \* owner and mode a program may leave a new file with
    MaxLogins,    \* bound on the logins on the host, for TLC only
    MaxRefreshes, \* bound on the refreshes of Others, for TLC only
    MaxCrashes    \* bound on the crashes of the sidecar, for TLC only

NoOne == "no one"

Owners == {"root:shared", "root:root", "other"}    \* owner and group
Modes  == {"0660", "0600", "0644"}

ASSUME AuthFileAssumption ==
    /\ Creations \subseteq Owners \X Modes
    /\ NoOne \notin Requests
    /\ MaxLogins \in Nat
    /\ MaxRefreshes \in Nat
    /\ MaxCrashes \in Nat

Kinds == {"image", "cli"}    \* generate_codex_image(), a run of the CLI

Stages == {
    "idle",
    "queued",    \* waiting for AUTH_SYNC_LOCK
    "call",      \* with the lock, in the call that the credential is for
    "refresh",   \* with the lock, a refresh is on its way to the server
    "granted",   \* the server has rotated the token, its answer is on its way
    "refused",   \* so is its refusal
    "stray",     \* it is over, but its refresh is still on its way
    "done"}

Holding == {"call", "refresh", "granted", "refused"}

VARIABLES
    file,      \* auth.json: its metadata and the token in it
    server,    \* the number of the current token, per login
    logins,    \* the number of logins so far, besides the first
    kind, stage,
    attempt,   \* per request: 0, or 1 after a 401
    auth,      \* per request, the token it has in memory
    user,      \* the holder of AUTH_SYNC_LOCK
    held,      \* per other program, what it has of the file
    watch,     \* the supervisor: "sleep", "chown", "chmod"; or "down"
    meddled,   \* refreshes that other programs began so far
    crashes,
    lost,      \* history: logins with a rotated token that nobody stored
    cut,       \* history: logins with a refresh whose sender went away first
    outside,   \* history: logins whose token another program refreshed
    spent,     \* history: logins of which a spent token was presented here
    during     \* history: logins made while the file was in use

handlers == <<kind, stage, attempt, auth, user>>
others   == <<held, meddled>>
history  == <<lost, cut, outside, spent, during>>
vars == <<file, server, logins, handlers, others, watch, crashes, history>>

Token(login, n) == [login |-> login, n |-> n]

Tokens == [login : Nat, n : Nat]

Nothing == Token(0, 0)    \* in the memory of what is not running

(* Another program has read the file, and then has a new token to store.   *)
Copy(phase, token) == [phase |-> phase, token |-> token]
NoCopy == Copy("none", Nothing)
Copies == [phase : {"none", "read", "rotated"}, token : Tokens]

Files == [owner : Owners, mode : Modes, token : Tokens]

(* As normalize_auth_file() and the supervisor leave it.                   *)
Normal(f) == [f EXCEPT !.owner = "root:shared", !.mode = "0660"]

Canonical(f) == f = Normal(f)

(* The sidecar is root without capabilities and without groups.            *)
Readable(f) == f.owner # "other" \/ f.mode = "0644"

(* What a request with the lock asks of the file: _prepare_runtime_home()  *)
(* asks for the canonical file, _load_auth() only reads it.                *)
Usable(k, f) == IF k = "cli" THEN Canonical(f) ELSE Readable(f)

Init ==
    /\ file = [owner |-> "root:shared", mode |-> "0660", token |-> Token(0, 0)]
    /\ server = [l \in 0..MaxLogins |-> 0]
    /\ logins = 0
    /\ kind \in [Requests -> Kinds]
    /\ stage = [r \in Requests |-> "idle"]
    /\ attempt = [r \in Requests |-> 0]
    /\ auth = [r \in Requests |-> Nothing]
    /\ user = NoOne
    /\ held = [p \in Others |-> NoCopy]
    /\ watch = "sleep"
    /\ meddled = 0 /\ crashes = 0
    /\ lost = {} /\ cut = {} /\ outside = {} /\ spent = {} /\ during = {}

-----------------------------------------------------------------------------
(* Validation                                                              *)

(* _shared_auth_status(): a wrong mode is repaired if owner and group are  *)
(* right; whatever else is wrong is left to the supervisor.                *)
Repaired(f) ==
    IF f.owner = "root:shared" THEN Normal(f) ELSE f

(* An image request is validated before it asks for the lock.              *)
CheckImage(r) ==
    /\ stage[r] = "idle" /\ kind[r] = "image"
    /\ file' = Repaired(file)
    /\ stage' = [stage EXCEPT ![r] = IF Canonical(file') THEN "queued" ELSE "done"]
    /\ UNCHANGED <<auth, user>>

(* A run of the CLI asks for the lock first.                               *)
QueueRun(r) ==
    /\ stage[r] = "idle" /\ kind[r] = "cli"
    /\ stage' = [stage EXCEPT ![r] = "queued"]
    /\ UNCHANGED <<file, auth, user>>

(* With the lock: the token is read into memory.  An image generation      *)
(* whose access token is expiring begins with a refresh; the CLI may.      *)
Begin(r) ==
    /\ stage[r] = "queued" /\ user = NoOne
    /\ file' = IF kind[r] = "cli" THEN Repaired(file) ELSE file
    /\ IF Usable(kind[r], file')
       THEN /\ stage' \in {[stage EXCEPT ![r] = w] : w \in {"call", "refresh"}}
            /\ auth' = [auth EXCEPT ![r] = file.token]
            /\ user' = r
       ELSE /\ stage' = [stage EXCEPT ![r] = "done"]
            /\ UNCHANGED <<auth, user>>

Enter(r) ==
    /\ watch # "down"
    /\ CheckImage(r) \/ QueueRun(r) \/ Begin(r)
    /\ UNCHANGED <<server, logins, kind, attempt, others, watch, crashes, history>>

-----------------------------------------------------------------------------
(* Refreshing                                                              *)

(* The handler ends, and what it has in memory is gone.                    *)
Over(r) ==
    /\ stage' = [stage EXCEPT ![r] = "done"]
    /\ attempt' = [attempt EXCEPT ![r] = 0]
    /\ auth' = [auth EXCEPT ![r] = Nothing]
    /\ user' = NoOne

(* It ends while its refresh is under way: the token stays on its way.     *)
Astray(r) ==
    /\ stage' = [stage EXCEPT ![r] = "stray"]
    /\ attempt' = [attempt EXCEPT ![r] = 0]
    /\ user' = NoOne
    /\ UNCHANGED auth

Goto(r, where) ==
    /\ stage' = [stage EXCEPT ![r] = where]
    /\ UNCHANGED user

(* The server decides on the token that was presented, or fails.           *)
ServerAnswers(r) ==
    LET t == auth[r]
    IN  /\ stage[r] = "refresh"
        /\ \/ /\ t.n = server[t.login]
              /\ server' = [server EXCEPT ![t.login] = @ + 1]
              /\ Goto(r, "granted")
              /\ UNCHANGED spent
           \/ /\ t.n # server[t.login]
              /\ spent' = spent \cup {t.login}
              /\ Goto(r, "refused")
              /\ UNCHANGED server
           \/ /\ Goto(r, "refused")
              /\ UNCHANGED <<server, spent>>
        /\ UNCHANGED <<file, logins, kind, attempt, auth, others, watch,
                       crashes, lost, cut, outside, during>>

NewToken(r) == Token(auth[r].login, auth[r].n + 1)

(* Another file, written aside and renamed, takes the place of auth.json.  *)
Replace(owner, mode, token) ==
    file' = [owner |-> owner, mode |-> mode, token |-> token]

(* _persist_auth(): the new file belongs to the sidecar's user and group   *)
(* and is 0600.  The CLI, run by the same user, replaces it as well.       *)
Persist(r) ==
    \E m \in IF kind[r] = "image" THEN {"0600"}
             ELSE {n \in Modes : <<"root:root", n>> \in Creations} :
        Replace("root:root", m, NewToken(r))

(* Mutant: the new token is written when the image is there.               *)
GrantedKeeping(r) ==
    /\ stage[r] = "granted"
    /\ auth' = [auth EXCEPT ![r] = NewToken(r)]
    /\ Goto(r, "call")
    /\ UNCHANGED <<file, server, logins, kind, attempt, others, watch, crashes,
                   history>>

(* Mutant: the refreshed credential is stored but not used.                *)
GrantedForgetting(r) ==
    /\ stage[r] = "granted"
    /\ Persist(r)
    /\ Goto(r, "call")
    /\ UNCHANGED <<server, logins, kind, attempt, auth, others, watch, crashes,
                   history>>

(* The answer is usable and stored.                                        *)
Granted(r) ==
    /\ stage[r] = "granted"
    /\ Persist(r)
    /\ auth' = [auth EXCEPT ![r] = NewToken(r)]
    /\ Goto(r, "call")
    /\ UNCHANGED <<server, logins, kind, attempt, others, watch, crashes, history>>

(* RuntimeError: before the first call the old token is tried all the      *)
(* same, after a 401 it is not.                                            *)
WithoutRefresh(r) ==
    /\ \/ attempt[r] = 0 /\ Goto(r, "call") /\ UNCHANGED <<attempt, auth>>
       \/ attempt[r] = 1 /\ Over(r)
    /\ UNCHANGED <<file, server, logins, kind, others, watch, crashes, cut,
                   outside, spent, during>>

Refused(r) ==
    /\ stage[r] = "refused"
    /\ WithoutRefresh(r)
    /\ UNCHANGED lost

(* A success without an access token counts as a refusal.                  *)
GrantedUnusable(r) ==
    /\ stage[r] = "granted"
    /\ WithoutRefresh(r)
    /\ lost' = lost \cup {auth[r].login}

(* The call that the token is for.  The first 401 leads to a refresh.      *)
CallEnds(r) ==
    /\ stage[r] = "call"
    /\ \/ Over(r)
       \/ /\ attempt[r] = 0
          /\ attempt' = [attempt EXCEPT ![r] = 1]
          /\ Goto(r, "refresh")
          /\ UNCHANGED auth
    /\ UNCHANGED <<file, server, logins, kind, others, watch, crashes, history>>

(* Mutant: the refresh is shielded from the cancellation of its request.   *)
GiveUpShielded(r) ==
    /\ stage[r] \in Holding
    /\ stage' = [stage EXCEPT ![r] = IF @ = "granted" THEN @ ELSE "done"]
    /\ user' = NoOne
    /\ UNCHANGED <<file, server, logins, kind, attempt, auth, others, watch,
                   crashes, history>>

(* The request is cancelled, its run is killed, or an error that is not a  *)
(* RuntimeError escapes: a network failure or timeout, an answer that is   *)
(* not JSON, a file that cannot be written.                                *)
GiveUp(r) ==
    /\ stage[r] \in Holding
    /\ \/ /\ stage[r] = "refresh"
          /\ Astray(r)
          /\ cut' = cut \cup {auth[r].login}
          /\ UNCHANGED lost
       \/ /\ stage[r] # "refresh"
          /\ Over(r)
          /\ lost' = IF stage[r] = "granted" THEN lost \cup {auth[r].login} ELSE lost
          /\ UNCHANGED cut
    /\ UNCHANGED <<file, server, logins, kind, others, watch, crashes, outside,
                   spent, during>>

(* A refresh that nobody waits for any more reaches the server, after the  *)
(* lock was released and whatever has happened since, or never does.       *)
StrayArrives(r) ==
    LET t == auth[r]
    IN  /\ stage[r] = "stray"
        /\ \/ /\ t.n = server[t.login]
              /\ server' = [server EXCEPT ![t.login] = @ + 1]
              /\ lost' = lost \cup {t.login}
              /\ UNCHANGED spent
           \/ /\ t.n # server[t.login]
              /\ spent' = spent \cup {t.login}
              /\ UNCHANGED <<server, lost>>
           \/ UNCHANGED <<server, lost, spent>>
        /\ stage' = [stage EXCEPT ![r] = "done"]
        /\ auth' = [auth EXCEPT ![r] = Nothing]
        /\ UNCHANGED <<file, logins, kind, attempt, user, others, watch, crashes,
                       cut, outside, during>>

(* Mutant: the lock is released by a request that never had it.            *)
CancelQueuedReleasing(r) ==
    /\ stage[r] = "queued"
    /\ Over(r)
    /\ UNCHANGED <<file, server, logins, kind, others, watch, crashes, history>>

CancelQueued(r) ==
    /\ stage[r] = "queued"
    /\ Goto(r, "done")
    /\ UNCHANGED <<file, server, logins, kind, attempt, auth, others, watch,
                   crashes, history>>

Work(r) ==
    \/ Enter(r)
    \/ ServerAnswers(r)
    \/ Granted(r) \/ GrantedUnusable(r)
    \/ Refused(r)
    \/ CallEnds(r)
    \/ GiveUp(r) \/ StrayArrives(r)
    \/ CancelQueued(r)

-----------------------------------------------------------------------------
(* Other programs                                                          *)

Create(token) == \E c \in Creations : Replace(c[1], c[2], token)

(* A request with the lock or another program has read the file and may    *)
(* yet write it.                                                           *)
InUse == user # NoOne \/ \E p \in Others : held[p].phase # "none"

(* `codex login` on the host.                                              *)
Login ==
    /\ logins < MaxLogins
    /\ logins' = logins + 1
    /\ Create(Token(logins', 0))
    /\ during' = IF InUse THEN during \cup {logins'} ELSE during
    /\ UNCHANGED <<server, handlers, others, watch, crashes, lost, cut, outside, spent>>

(* The host's CLI, the executor child or the Etsy renderer refreshes: it   *)
(* reads the file, has the token rotated and replaces the file, with or    *)
(* without the sidecar at work between these.                              *)
ReadElsewhere(p) ==
    /\ held[p].phase = "none" /\ meddled < MaxRefreshes
    /\ held' = [held EXCEPT ![p] = Copy("read", file.token)]
    /\ meddled' = meddled + 1
    /\ UNCHANGED <<file, server, logins, handlers, watch, crashes, history>>

RotateElsewhere(p) ==
    LET t == held[p].token
    IN  /\ held[p].phase = "read"
        /\ t.n = server[t.login]
        /\ server' = [server EXCEPT ![t.login] = @ + 1]
        /\ held' = [held EXCEPT ![p] = Copy("rotated", Token(t.login, t.n + 1))]
        /\ outside' = outside \cup {t.login}
        /\ UNCHANGED <<file, logins, handlers, meddled, watch, crashes, lost, cut,
                       spent, during>>

StoreElsewhere(p) ==
    /\ held[p].phase = "rotated"
    /\ Create(held[p].token)
    /\ held' = [held EXCEPT ![p] = NoCopy]
    /\ UNCHANGED <<server, logins, handlers, meddled, watch, crashes, history>>

(* It is refused, fails or ends.                                           *)
FailElsewhere(p) ==
    /\ held[p].phase # "none"
    /\ lost' = IF held[p].phase = "rotated" THEN lost \cup {held[p].token.login}
               ELSE lost
    /\ held' = [held EXCEPT ![p] = NoCopy]
    /\ UNCHANGED <<file, server, logins, handlers, meddled, watch, crashes, cut,
                   outside, spent, during>>

RefreshElsewhere(p) ==
    ReadElsewhere(p) \/ RotateElsewhere(p) \/ StoreElsewhere(p) \/ FailElsewhere(p)

-----------------------------------------------------------------------------
(* The supervisor, which works on the file by its name: between its steps  *)
(* the file may be replaced                                                *)

(* Mutant: only a wrong mode is noticed.                                   *)
LookAtMode ==
    /\ watch = "sleep"
    /\ file.mode # "0660"
    /\ watch' = "chown"
    /\ UNCHANGED <<file, server, logins, handlers, others, crashes, history>>

Look ==
    /\ watch = "sleep"
    /\ ~ Canonical(file)
    /\ watch' = "chown"
    /\ UNCHANGED <<file, server, logins, handlers, others, crashes, history>>

Chown ==
    /\ watch = "chown"
    /\ file' = [file EXCEPT !.owner = "root:shared"]
    /\ watch' = "chmod"
    /\ UNCHANGED <<server, logins, handlers, others, crashes, history>>

Chmod ==
    /\ watch = "chmod"
    /\ file' = [file EXCEPT !.mode = "0660"]
    /\ watch' = "sleep"
    /\ UNCHANGED <<server, logins, handlers, others, crashes, history>>

Supervise == Look \/ Chown \/ Chmod

(* The container dies with all its processes.                              *)
Crash ==
    LET at(where) == {auth[r].login : r \in {q \in Requests : stage[q] = where}}
    IN  /\ crashes < MaxCrashes /\ watch # "down"
        /\ crashes' = crashes + 1
        /\ watch' = "down"
        /\ user' = NoOne
        /\ lost' = lost \cup at("granted")
        /\ cut' = cut \cup at("refresh")
        /\ stage' = [r \in Requests |->
                        CASE stage[r] = "idle" -> "idle"
                          [] stage[r] \in {"refresh", "stray"} -> "stray"
                          [] OTHER -> "done"]
        /\ attempt' = [r \in Requests |-> 0]
        /\ auth' = [r \in Requests |->
                       IF stage[r] \in {"refresh", "stray"} THEN auth[r] ELSE Nothing]
        /\ UNCHANGED <<file, server, logins, kind, others, outside, spent, during>>

(* runtime-entrypoint.sh normalizes the file, then starts the supervisor   *)
(* and the sidecar.                                                        *)
Restart ==
    /\ watch = "down"
    /\ file' = Normal(file)
    /\ watch' = "sleep"
    /\ UNCHANGED <<server, logins, handlers, others, crashes, history>>

Next ==
    \/ \E r \in Requests : Work(r)
    \/ Login
    \/ \E p \in Others : RefreshElsewhere(p)
    \/ Supervise
    \/ Crash \/ Restart

(* The supervisor wakes every two seconds, and the container is restarted. *)
Fairness == WF_vars(Supervise) /\ WF_vars(Restart)

Spec == Init /\ [][Next]_vars /\ Fairness

-----------------------------------------------------------------------------

(* Type: what each variable may hold.                                      *)
AuthTypeOK ==
    /\ file \in Files
    /\ server \in [0..MaxLogins -> Nat]
    /\ logins \in 0..MaxLogins
    /\ kind \in [Requests -> Kinds]
    /\ stage \in [Requests -> Stages]
    /\ attempt \in [Requests -> {0, 1}]
    /\ auth \in [Requests -> Tokens]
    /\ user \in Requests \cup {NoOne}
    /\ \A r \in Requests : (user = r) <=> (stage[r] \in Holding)
    /\ held \in [Others -> Copies]
    /\ watch \in {"sleep", "chown", "chmod", "down"}
    /\ meddled \in 0..MaxRefreshes /\ crashes \in 0..MaxCrashes
    /\ lost \cup cut \cup outside \cup spent \cup during \subseteq 0..MaxLogins

(* The file always has the latest refresh token of its login, or whoever   *)
(* has that is about to store it, or it was lost with the answer that      *)
(* brought it.  However late other programs and stray refreshes are,       *)
(* nobody stores a token that a later one has replaced.                    *)
FileHoldsLatest ==
    LET t == file.token
    IN  \/ t.n = server[t.login]
        \/ t.login \in lost
        \/ \E r \in Requests : stage[r] = "granted" /\ auth[r].login = t.login
        \/ \E p \in Others : held[p].phase = "rotated" /\ held[p].token.login = t.login

(* The comment at AUTH_SYNC_LOCK: users of the sidecar do not race one     *)
(* another's rotation.  As long as a login's refreshes are waited for,     *)
(* their answers are usable, and other programs leave it alone, none of    *)
(* its spent tokens is presented.  (A refresh whose sender went away, by a *)
(* timeout, a cancellation or a crash, may be overtaken by the next        *)
(* holder's, and that is presented in vain then.)                          *)
NoRaceForRotation == spent \subseteq lost \cup cut \cup outside

(* What was read from the file is not written back later than the          *)
(* reader's turn: a login on the host is undone only if, when it was made, *)
(* a request with the lock or another program was between reading the file *)
(* and replacing it.                                                       *)
LoginsUndoneOnlyMidUse ==
    \A l \in 1..logins : l \notin during => file.token.login >= l

(* Whoever replaces the file, with whatever owner and mode, and however    *)
(* that falls between the supervisor's steps, once the replacing stops     *)
(* every consumer has access again.                                        *)
AccessRestored == <>[]Canonical(file)
=============================================================================

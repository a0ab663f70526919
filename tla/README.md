# A formal model of the Windmill Luna gateway

TLA+ modules, TLC configurations and TLAPS proofs for the two Python services
of this repository: the **gateway** (`app/main.py`, wrapped by
`app/runtime_app.py`) and the **Codex sidecar** (`app/codex_upstream.py`,
`app/codex_image.py`, `app/outbound_url.py`).  Line numbers below refer to the
sources; `PROJECT.json` maps each definition to its lines.

## 1. The system

A caller (Windmill) sends OpenAI-style requests to the gateway.  The gateway
asks Codex first, through the sidecar, for the one text model Codex serves and
for images, and pays for the OpenAI API only when Codex's subscription quota is
confirmed exhausted; requests Codex cannot serve go to OpenAI directly.  Each
service is a single asyncio event loop, so a handler is atomic between two
awaits that really suspend it.

```
 caller ──> gateway ──(HTTP, 210 s)──> sidecar ──> codex CLI (process group)
              │ text circuit              │ SEMAPHORE (4)      │
              │ image circuit             │ AUTH_SYNC_LOCK ────┴── auth.json
              │ semaphore (4)             └──> Codex image endpoint
              └──(HTTP)──> OpenAI API
```

| Component | State | Operations | Interacts with | What is hard |
|---|---|---|---|---|
| Circuit breaker (`main.py:190`) | open-until time, reason, deque of recent failures | `should_skip`, `success`, `failure`, `snapshot` | called by every handler before and after a Codex call | lazily closed and pruned; reports of overlapping calls arrive in any order; boundaries of window and threshold |
| Gateway request handling (`main.py:429`, `runtime_app.py:39`) | two circuits, a semaphore, the handlers' local decisions | text requests, API-only and passthrough requests, image requests with a paid wrapper | sidecar, OpenAI | a decision read before an await and used after it; five returns inside one `async with`; a call outside the semaphore |
| asyncio.Semaphore / Lock (standard library) | permits, deque of waiters | acquire, release, cancellation of a waiter | gateway and sidecar | the wake-up in two steps, cancellation after it |
| Sidecar request handling (`codex_upstream.py:564-1000`) | SEMAPHORE, AUTH_SYNC_LOCK, each handler's position | completions with a JSON repair run, image generation | CLI, image endpoint | two resources taken in turn, a second run that takes the lock again, cancellation at every await |
| Process cleanup (`codex_upstream.py:597-710`) | the run's process group, its pipes and deadlines | communicate, SIGTERM, SIGKILL, bounded waits | the kernel | descendants that fork, hold pipes, outlive the child or are stuck |
| Shared credential file (`auth.json`) | content, owner, mode | read, validate, mode repair, token refresh, the root supervisor | CLI, image client, outside writers | checks that are stale when used, writers that know nothing of the lock, tokens lost between rotation and storage |
| Guarded image fetch (`outbound_url.py`) | the hop, its URL and the addresses it was resolved to | validate, resolve, pin, redirect, limit | sidecar, DNS | names that resolve differently at each hop; budgets that multiply with images and repair |
| Model routing and reasoning policy (`main.py`, `luna_model.py`) | none | payload normalisation, alias and effort rules | gateway, sidecar | rules in two programs that have to fit, names compared in three ways |
| Deadlines (`main.py:153`, `codex_upstream.py:56`) | the gateway's open calls, the sidecar's handlers | post, abandon, time out | gateway and sidecar | an abandoned call goes on in the sidecar; waits are not part of any deadline of the sidecar |
| Candidate validation, discovery, health | none of their own | read-only reports, fixed sequences of calls | sidecar, OpenAI | little |
| Deployment files, CI scripts | – | – | – | configuration; fixes the constants |

What makes each correct:

- *breakers*: being lazy changes no decision; the deque is bounded; an open
  breaker has a reason and no longer to run than that reason's period;
- *gateway*: paid calls only for confirmed quota exhaustion (or kinds of
  request Codex does not serve); no path leaks or doubles a permit; the quota
  circuit reports what Codex reported; everybody is answered;
- *sidecar*: neither permits nor the lock leak under cancellation, the
  credential has one user at a time, no deadlock, everybody ends unless a
  preparation or an image call lasts for ever;
- *cleanup*: nobody in the group escapes the escalation, it ends in a bounded
  time, and it always ends;
- *credential file*: it holds the latest token of its login, or whoever has that
  is about to store it, or it was lost with the answer that brought it; users of
  the sidecar that wait for their refreshes do not present one another's spent
  tokens; a login on the host is undone at most by a request or a program that was
  using the file when it was made; the owner and mode that every consumer needs
  come back;
- *deadlines*: a completion that met no queue is answered in time, and waiting
  for the lock is bounded;
- *fetch and routing*: only public addresses, as of their own hop; boundedly
  many requests; every run of the CLI has all images, the model and the effort
  that were asked for.

The hazards themselves, each at its line and with the properties that watch it,
are listed in `PROJECT.json`.

## 2. Modules

| Module | Models | Kind |
|---|---|---|
| `Circuit` | the value of a `CircuitBreaker` and its methods, as operators | data |
| `CircuitBreaker` | one breaker under any order of calls | state machine |
| `EagerBreaker` | what a breaker promises: nothing forgotten, closed on time | abstract |
| `AsyncSemaphore` | the value of an `asyncio.Semaphore` (CPython 3.11) and its methods | external data |
| `Gateway` | the gateway's handlers over two `Circuit`s and one `AsyncSemaphore` | state machine |
| `QuotaOnlyFallback` | the billing promise: what may be paid for | abstract |
| `MCGateway` | symmetry and sets of configurations for TLC | model checking |
| `Sidecar` | the sidecar's handlers over a semaphore and a lock | state machine |
| `ProcessCleanup` | one run of the CLI and the taking down of its group | state machine |
| `Deadlines` | `Sidecar` and the gateway's calls of it, composed in time | composition |
| `AuthFile` | the credential file, its users, other programs, the supervisor, crashes | state machine |
| `ModelRouting` | settings, aliases, allowlist and efforts, as operators | data |
| `RequestPath` | one request from routing through its image fetches to the CLI, repair and fallback | state machine |
| `MCDeadlines`, `MCAuthFile`, `MCRequestPath` | symmetry, where it is sound; requests, settings and addresses for TLC | model checking |
| `CircuitTheorems`, `SemaphoreTheorems` | lemmas about the two data modules | proofs |
| `CircuitBreakerProofs`, `GatewayProofs`, `ProcessCleanupProofs`, `AuthFileProofs`, `RequestPathProofs` | theorems of the state machines of these names | proofs |
| `SidecarProofs` | theorems of `Sidecar` and of `Deadlines` | proofs |

### How state and actions correspond to the code

*Circuit.*  Each method holds the breaker's own lock and awaits nothing inside,
so each is one step: `AfterShouldSkip`, `AfterSuccess` and `AfterFailure` are
operators from a breaker's value (`openUntil`, `reason`, `failures`) to the
next, with the time a whole number of ticks.  Two instances exist in the
gateway, which is why the module has no variables.

*AsyncSemaphore.*  A record of free permits, the queue of waiting tasks and the
set of *woken* ones, to whom `release()` has given a permit but whose task has
not run since.  `CanTake` is false while anybody is queued or woken, which is
the fast path's condition `locked()`.  `CancelWaiting` and `CancelWoken` are
the two branches of `acquire()` for a cancelled waiter.  A lock is the same with
one permit.

*Gateway.*  A request is at a stage (`queued` for a permit, in a call of
`codex` or `openai` with one, in the wrapper's `paid` call without one).  Each
action is a whole stretch of the handler between two suspensions:

| Action | Code |
|---|---|
| `Arrive` | from the start of the handler, with its early refusals, through `should_skip()` to the semaphore, or through it to the first provider call |
| `Resumed` | from the permit to the first provider call or the answer, with the skip reason read *before* the wait |
| `CodexAnswers` | every outcome of the Codex call (success, each classified failure), what it does to the circuit, then the answer, the fallback or the wrapper's paid call |
| `OpenAIAnswers`, `PaidAnswers` | the end of the paid call with, respectively without, a permit |
| `Tick` | the clock |

`confirmed` and `justified` are history variables, read by no guard: when Codex
last reported exhausted quota per channel, and the requests that the report
entitles to a paid call.

*Sidecar.*  Stages are the awaits: for the semaphore, for the lock, for input
images and spawning, in `communicate()`, in the cleanup, in the image call.
`Cancel` ends each of them the way the `except`/`finally` clauses and the
`async with` exits do; the cleanup absorbs cancellation and so has none.  A JSON
completion whose output does not parse gives the lock back, keeps its permit
and asks for the lock again (`Repair`).  A handler that is cancelled while it
spawns the CLI has not entered the block that escalates: asyncio kills the
process it started and nobody its descendants, so `CancelPreparing` ends with no
group or with one that is `left`.

*ProcessCleanup.*  The sidecar's side is the chain of awaits with their
deadlines (`communicate`, `grace`, `kill`, `reap`); the kernel's side is a group
whose members fork, exit, enter and leave uninterruptible sleep.  A process
killed while stuck dies when it wakes.  SIGTERM changes no state, because any
member may exit at any time or ignore it.

*Deadlines.*  A handler takes the steps of `Sidecar` and stays at a stage for a
number of ticks.  `Post` is the gateway's `client.post` under one of its own
permits, `Abandon` its timeout, which leaves the sidecar's variables alone:
nothing tells the sidecar.  `Work(r)` is a step of the handler; if that ends it
while the call is open, the gateway has its answer.  `Tick` may not pass over a
timer that is due or a woken task.  `Sidecar`'s cancellation does not occur here,
since the gateway's giving up does not cancel the handler.

*AuthFile.*  The file is its owner and group, its mode and its refresh token; a
token is the login it stems from and the number of refreshes since, and `server`
knows the current number.  A request holds the lock from `Begin`, which reads
the file, to `Over` or `Astray`.  A refresh is three steps: it is sent, the server
rotates the token (`ServerAnswers`), and the answer is stored (`Granted`), is
unusable, or is never seen (`GiveUp`, `Crash`).  A refresh whose sender gave up or
died before the server had answered is *stray*: it reaches the server at any later
time or never (`StrayArrives`), when the lock has long been released.  `CheckImage` is the validation that
`image_generations` makes before it asks for the lock, `Repaired` the chmod in
`_shared_auth_status()`.  The supervisor's `lstat`, `chown` and `chmod` are steps of
their own, because the file may be replaced between them.  The programs that
refresh without the lock (the CLI on the host, the executor child, the renderer's
sync; `Others`) read the file, have the token rotated, and store it or fail to, in
steps between which anything may happen (`ReadElsewhere` to `FailElsewhere`).
`Login` and these are external.  `lost`, `cut`, `outside`, `spent` and `during` are
history: logins with an answer that nobody stored, with a refresh whose sender
went away first, refreshed by another program, of which a spent token was
presented, and made while the file was in use.

*RequestPath.*  One request and one DNS that answers as it likes at every look.
`Reject`, `RouteToOpenAI` and `RouteToCodex` are `normalize_payload()` and the
beginning of `Gateway.request`; `RouteCandidate` the completion of a candidate's
validation, which bypasses both.  `Validate` and `Get` are one pass through the
loop of `fetch_outbound`: the first ends at the addresses, the second at the
answer, a redirect or a refusal.  `Start` builds the command, where the sidecar
checks the effort, `Repair` throws the images away and begins again.  `gets`,
`contacted` and `calls` are history.

Operators named in a comment as *Mutant* are deliberately wrong variants of the
definition that follows; no specification uses them.  They document which change
of the code each property would notice.

## 3. What is checked

| Run | Instance | Shows |
|---|---|---|
| `circuit_breaker` | periods 4/2/3, window 2, threshold 3, times 0..8 | `DequeBounded`, `OpenIsExplained`, and that the lazy breaker implements `EagerBreaker` (`LazyImplementsEager`) |
| `gateway` | 3 requests of all five kinds, 2 permits, every configuration, times 0..4 | `PermitsConserved`, `CircuitsFollowReports`, and that the gateway implements `QuotaOnlyFallback` (`PaidOnlyForQuota`) |
| `gateway_live` | 4 requests for text or images, 2 permits, the paid image fallback, no clock | `NoLostWakeup`, `EveryRequestAnswered` |
| `gateway_stale_skip` | 2 requests, 1 permit | a violation, see below |
| `gateway_late_success` | 3 requests, 2 permits | a violation, see below |
| `sidecar` | 3 requests of all kinds, 2 permits, 1 lock | `NothingLeaks`, `CredentialSerialized`, `NobodyForgotten`, `EveryRequestEnds` |
| `process_cleanup` | the CLI and two descendants, deadlines 1, 2, 1 | `SurvivorsWereKilled`, `CleanupWithinBudget`, `EveryRunEnds` |
| `process_cleanup_stuck` | the CLI and one descendant | a violation, see below |
| `deadlines` | 3 requests, 2 permits on either side, in ticks: see `MCDeadlines.cfg` | `UndelayedIsAnswered`, `LockWaitBounded` |
| `deadlines_missed` | 2 requests, no input images | a violation, see below |
| `auth_file` | 2 requests of both kinds, one other program with one refresh, one login, one crash | `FileHoldsLatest`, `NoRaceForRotation`, `LoginsUndoneOnlyMidUse`, `AccessRestored` |
| `request_path` | 2 public addresses and a private one, 2 redirects, 2 images; 50 accepted settings, 115 requests | `ImagesComeFromPublic`, `FetchesBounded`, `EveryRunSeesAllImages`, `EffortKept`, `LunaAsConfigured`, `CalledModelsListed` |

Every module with variables has its type invariant checked by one of these runs.

**Bounds, and why they are enough.**
`MaxTime` only stops the clock.  In `circuit_breaker` it lets an opening of the
longest period begin, end and be followed by another, and the window of two
ticks pass four times; threshold 3 lets failures leave the window between two
that count.  In `gateway` three requests over two permits are the least with two
overlapping calls *and* a third that waits for one of them; quota period 2 within
4 ticks lets a window open, expire and open again.  All five kinds and all eight
configurations are explored, so every pair of handlers overlaps.
`gateway_live` has four requests because a lost wake-up needs two waiters and
two releases before the first of them runs; it is limited to time zero, because
the circuit's expiry makes nobody wait, and to two kinds: Codex's text, which
with an open circuit waits and calls as the other kinds for OpenAI do, and images,
with the call outside the semaphore.  It uses no symmetry, which would be unsound
for liveness.  In `sidecar` the
third request waits for the permit while the first two contend for the lock;
there is no clock, every deadline may strike at any moment.  In
`process_cleanup` a second descendant can outlive the first and fork from it;
grace is longer than the kill wait so that the two cannot be mistaken for each
other.

In `deadlines` the cleanup takes one tick and the gateway's deadline exceeds run
and cleanup by one, as 210 exceeds 180 + 20; three requests are the least
with a repair run, a second completion and an image generation in one queue.
In `auth_file` two users of the sidecar suffice for a race between them, or between
one and what the other left behind, and the steps of another program, one login
and one crash fall at every point of theirs.  There is no symmetry set, for
`AccessRestored`; instead `MCSpec` begins with one of the two assignments of mixed
kinds, which differ in names only.  `SomeCreations` are the files that the CLI or
another program may leave: unreadable to the sidecar, readable but not canonical,
and as the sidecar's own user creates it; the supervisor's steps, disturbed by
these, reach all other combinations of owner and mode that matter.  In `request_path`
two addresses tell the first of an answer from the others; an answer may
mix public and private ones in any order; the second hop may redirect again and
the third may not.

`CHECK_DEADLOCK FALSE` stands where the system ends: each request or run is
served once, and then nothing is left to do.

**Fairness.**  Callers never owe a request and cancellation never owes to
happen.  `FairSpec` of `Gateway` asks for weak fairness of `Serve(r)` for each
request: a woken task is in the event loop's ready queue and will run, and a
provider call ends by httpx's timeout (`main.py:153` and after).  That timeout is
for each operation of a connection, so it is an assumption here that no provider
sends its answer byte by byte for ever.  `FairSpec` of `Sidecar` asks less, weak
fairness of `Due(r)`: woken tasks, runs of the CLI, which end by
`CODEX_TIMEOUT_SECONDS`, and the cleanup, which ends by its own bounds, as
`ProcessCleanup` establishes.  It says nothing of preparations and of image calls:
the timeouts of `fetch_outbound` and of the image client are for each operation
too, and looking up a name and spawning have none, so a server that sends slowly
enough keeps the lock and a permit.  `EveryRequestEnds` has as its condition that
no request stays in either for ever; what it shows is that nothing else, no queue,
no repair run and no cancellation, keeps anybody from ending.  In
`ProcessCleanup` the loop and the clock are fair and a process that was sent
SIGKILL and is not stuck for ever exits; nothing obliges any other process to
exit, to close a pipe or to wake.  In `AuthFile` only the supervisor, which
wakes every two seconds (`runtime-entrypoint.sh:61`), and the restart of the
container (`restart: unless-stopped`, `docker-compose.yaml`) are fair; no request
has to come, to go on or to end for `AccessRestored`.

### Disagreements between documentation and code

1. `gateway_stale_skip`.  README.md:10 says that the quota circuit "prevents
   repeated Codex attempts during a confirmed quota-exhaustion window".
   `should_skip()` is read before the semaphore is awaited and used after, so
   requests that queued before the confirmation still call Codex, one after the
   other, while the circuit is open.
2. `gateway_late_success`.  The same line says that subsequent Luna text
   requests use the fallback "until that circuit expires".  A call that began
   earlier and succeeds after the confirmation calls `success()`, which closes
   the circuit whatever opened it; the next request goes to Codex.
3. `process_cleanup_stuck`.  The docstring of `_communicate_with_timeout`
   (codex_upstream.py:695) says that the 504 is raised "only after the whole
   process group is gone".  The result of the wait after SIGKILL is ignored, so
   a member in uninterruptible sleep outlives it.  That the waits are bounded is
   deliberate (`CleanupWithinBudget`); the sentence promises more.
4. `deadlines_missed`.  README.md:17 says that the gateway's deadline is longer
   "so the sidecar's typed HTTP 504 ... reaches the caller before the gateway
   abandons the request"; the comment at main.py:150 says the same.  The 180 s
   begin when the CLI starts, the 210 s when the call is posted.  A run that
   waited for the lock behind another, or the repair run of a JSON request,
   times out after the gateway has gone.  Without a wait and a repair the margin
   suffices (`UndelayedIsAnswered`).

Met while modelling, and stated as the condition of a property instead of a run:

- README.md:80-83 says that a request is rejected if the model its alias
  resolves to is not listed, and that aliases "cannot introduce a new model".  The
  code rejects only if neither name is listed (main.py:413) and does not ask that
  targets be, so an allowlist that names an alias admits its target:
  `AliasesIntroduceNothing`, which says what README.md does, fails for such an
  allowlist in two steps.  `CalledModelsListed` is the same for allowlists that
  name all targets.
- main.py:118 says that every concrete Luna alias target must match
  `LUNA_AUTO_MODEL`.  A target written with blanks around it is not recognised,
  and the sidecar strips it (`LunaAsConfigured` excepts it).
- The comment at codex_upstream.py:368-371 keeps `minimal` "so existing callers
  keep working".  The gateway refuses `minimal` for every model it sends to
  Codex (main.py:306); `CliEffort` translates what no caller of the gateway can
  send.

Neither of the first two makes the gateway pay without a reason:
`PaidOnlyForQuota` holds.

### What some properties leave open

- `PaidOnlyForQuota` asks that the quota window was open when the request was
  decided on.  A request that waits long enough may pay after it has ended
  (main.py:744); no document says otherwise.
- `LockWaitBounded` is a bound in terms of `FetchTime`, the longest preparation,
  which the code does not bound, and time spent on images counts as a delay for
  `UndelayedIsAnswered`.
- `CredentialSerialized` counts the groups of runs that are under way, not those
  that a run left behind.
- `NoRaceForRotation` excepts logins of which a refresh was given up before its
  answer was stored, since such a refresh and the next holder's may overtake one
  another, and logins that another program refreshed.
- `AccessRestored` speaks of the file when nobody replaces it any more, not of
  what a request validated before it waited for the lock.
- `EffortKept` is about an effort that the caller gave.  For an absent one the
  gateway chooses by the prompt, as tests/test_gateway.py:260-326 asks;
  README.md:76-78 ("never rewrites, infers, or normalizes the caller's reasoning
  effort") is read as being about the alias `luna-auto`.

## 4. What is proved

Every safety property that a passing run checks, and both refinements, are
theorems.  They hold for every value of the constants that satisfies the
assumptions the modules name; `MaxTime` may be any value, and there may be
infinitely many requests, since those that hold or want something are finitely
many by the invariants themselves.  The assumptions are

- the clamps and limits of the code (`max(1, int(...))` and the like):
  `CircuitAssumption`, `GatewayAssumption`, `SidecarAssumption`,
  `CleanupAssumption`;
- `DeadlinesAssumption`: the gateway's deadline exceeds a run and its cleanup
  (210 against 180 + 20), which is what `docker-compose.yaml` and the caps in the
  code arrange, and nothing about the time of image fetches;
- `RequestPathAssumption` and `ModelRoutingAssumption`: what a request looks like
  once it is parsed, alias tables that map names to names, finitely many
  addresses, none of which is a word the model uses for something else
  (`Reserved`);
- `AuthFileAssumption`: numbers of logins, refreshes and crashes, and that no
  request is called `NoOne`; other programs may be any, and leave the file with any
  owner and mode.

### The data

`CircuitTheorems`: each method of a breaker keeps it *sound* (of its type, its
deque below the threshold and in the past, and, if open, with a reason and no
longer to run than that reason's period).  What `popleft()` removes is a prefix of
the deque, and all that is older than the cutoff (`StaleIsPrefix`, which rests on
`InitialSegment`).

`SemaphoreTheorems`: how each operation changes the permits that no running task
holds (`Spare`) and the tasks inside `acquire()` (`Members`); that no task is there
twice; that a free permit with somebody queued comes with a woken task.
`Balanced` puts it together for a resource with its holders and its waiters, and
one lemma for each operation, both cancellations included, says where it takes
one task.

### The state machines

- **`CircuitBreakerProofs`**: `BreakerTypeCorrect`, `DequeStaysBounded`,
  `OpenStaysExplained`, from soundness.  For the refinement `LazinessIsInvisible`
  the invariant is `Abridges`: the deque is the end of the complete record of
  failures, and what it lacks is older than the window and, since the record is
  in the order of time, stays so.  Hence the length of the pruned deque is the
  number of failures that count for the eager breaker.

- **`ProcessCleanupProofs`**: `CleanupTypeCorrect`, `EscalationMissesNobody`,
  `CleanupKeepsBudget`.  The budget is inductive only with a bound on the
  deadline of each phase: by `grace` it is at most `began + Grace`, by `kill`
  one `KillWait` later, and so on, together with `now <= deadline`.

- **`GatewayProofs`**: the inductive invariant is

      Inv == TypeInv /\ SemInv /\ CircuitInv /\ RequestInv

  `SemInv` says whose the permits are: calling requests, woken ones and free
  permits add up, queued and woken requests are exactly those at stage `queued`,
  nobody is queued twice.  Type correctness alone is not inductive because
  `Release` would leave `0..MaxConcurrency` without the sum.  `CircuitInv` ties an
  open quota circuit to the last report of its channel.  `RequestInv` says that a
  queued request whose remembered skip reason allows a paid call is in
  `justified`; without it a request resumed from the queue could pay on a reason
  nobody gave.  From it follow `GatewayTypeCorrect`, `PermitsAddUp`,
  `NobodyWaitsIdly`, `CircuitsAreTruthful` and `PayingIsJustified`.  The last is
  the refinement: for each action one lemma proves `Inv'` and that the step is a
  step or a stutter of `QuotaOnlyFallback`.

- **`SidecarProofs`**, the sidecar by itself: `Inv` is the types, what kind of
  request can be at which stage and have a live group (`RequestInv`), and both
  books balanced (`ResourceInv`).  The stages say who holds and who wants what, so
  a step of a handler is proved by moving one request in two books: every
  ending of every stretch (`Go`, `Finish`, `Leaving`, `AskLock`) has a lemma, and
  each action is one of them.  It gives `SidecarTypeCorrect`,
  `PermitsAndLockConserved`, `NobodyIsForgotten`, and `CredentialHasOneUser`
  because whoever uses the credential holds the lock.

- **`SidecarProofs`**, in time: `TimedInv` adds that nobody outstays a stage that
  is bounded and, for a completion that was not delayed, that the age of its call
  is what it spent in its run, or `CodexTimeout` and what it spent in the cleanup
  (`OnTime`).  The gateway gives up at `ProviderTimeout`, beyond both:
  `MarginSuffices`.  `LockWaitIsBounded` needs more, `LockTimes`: what the i-th in
  the queue has waited, plus what the holder may still take (`Rest`, or a whole
  `Tenure` if the next holder is only woken), plus a tenure for each of those in
  between, is at most one tenure of each contender.  A tick moves one unit from the
  second term to the first; a hand-over turns one tenure of the third into the
  second; whoever joins, a repair run too, joins at the end of a queue that is
  shorter than the contenders, because everybody in it and the holder have
  different permits or are image generations (`QueueFits`).  `TimeAddsNoSteps` says
  that `Deadlines` implements `Sidecar`, so that the theorems above hold behind the
  gateway as well.

- **`AuthFileProofs`**: besides the properties themselves the invariant says that
  tokens stem from logins that were made (`LoginsKnown`), and how the copies of a
  login's tokens are ordered (`NewestInv`): no copy that may still be presented or
  stored is newer than the server's, and while a new one is on its way to the file
  every copy is older than it.  Hence whoever presents a token that the server
  accepts presents one of which none is on its way (`CurrentIsIdle`), so that at
  most one ever is and the file never goes back.  `HolderInv` and `OtherInv` say what
  a request and another program have in memory: a token of the newest login but
  for those made meanwhile, current unless that is excused, and of a stray refresh
  that its sender was cut off.  One lemma for each way of moving copies (taken of
  the file, rotated, stored) keeps `NewestInv`.  It gives `AuthTypeCorrect`,
  `FileStaysLatest`, `RotationIsNotRaced`, `LoginsSurvive`.

- **`RequestPathProofs`**: `RouteInv` says what routing established and nothing
  undoes (whoever is with the sidecar has an effort that it accepts and passes on
  as it is, and a completion a model some alias resolves to); `ImageInv` that the
  images written so far match the request's from the front; `FetchInv` that `gets`
  is within the budget of the run before and of the images written in this one,
  and exceeds it by at most `hop` during a fetch.  The bound alone is not inductive:
  without the count of images written, a fetch could begin at the limit.  It gives
  `PathTypeCorrect`, `NoPrivateFetch`, `FetchesAreBounded`, `NoRunWithoutImages`,
  `EffortReachesProviders`, `OnlyConfiguredLuna`, `OnlyListedModels`.

Each inductive invariant was model-checked on the instance of its run before it
was proved.  Two attempts showed mistakes that TLC could not see on those
instances.  `UndelayedIsAnswered` was false for image fetches longer than the
gateway's deadline, because a handler counted as delayed only once it left the
stage; it counts now from the first tick spent there.  A conjunct of `PathTypeOK`
was bound to the wrong side of an implication and said nothing at most stages.

**Only model-checked**, on the instances above: the liveness properties
(`EveryRequestAnswered`, `EveryRequestEnds`, `EveryRunEnds`, `AccessRestored`), because
fairness and ENABLED are out of the prover's reach.  Induction over data is too, so
the operators are written without recursion: what `popleft()` removes in a loop is
`Stale`, a set, and what it leaves a `SubSeq`.

## 5. What is not modelled

- What a valid payload or usable answer is: `validate_success` and the
  classifiers' text matching appear as the outcomes of a call.
- Wording, headers, logging, prompts, command lines and output parsing.
- Clocks that step back: `time.time()` is used for openings and the window, and
  the models take it as non-decreasing.
- Descendants that leave the process group with `setsid`; the code signals its
  group and cannot see them.
- Cancellation of gateway handlers: no code in the gateway cancels a handler,
  and a caller that disconnects does not.
- Descendants left running by a CLI that ends by itself, or by one whose spawning
  was cancelled: `Sidecar` records such a group as `left`, and
  `CredentialSerialized` does not count it.
- CPython versions from 3.12 on, whose semaphore wakes several waiters at once;
  the difference needs at least three permits to be seen.
- A credential file that is missing, a symbolic link or not JSON; what an access
  token is worth; temporary files that a crash leaves.  Programs that write the
  file back without having refreshed it: each could put any old content there at any
  time, and nothing could be said of the file.
- Which addresses are public, how URLs and host names are spelled, how bytes are
  counted: `Public` is a constant, the others are outcomes.  An image part
  without a usable URL, which the sidecar leaves out of prompt and command alike.
- The marker words of the adaptive effort (an input, `weight`), and the further
  refusals of a payload (streaming, storing, continuing a response).
- Cancellation in `RequestPath` and `Deadlines`; it is the subject of `Sidecar`.
- The loop over a candidate's efforts, which takes no permit and only collects
  results; discovery; health endpoints; deployment files; CI.

## 6. Plan

Written, in this order: `Circuit`, `CircuitBreaker` with `EagerBreaker`;
`AsyncSemaphore`; `Gateway` with `QuotaOnlyFallback`; `ProcessCleanup`;
`Sidecar`; the theorems of the breaker, the semaphore, the cleanup and the
gateway; `Deadlines`; `AuthFile`; `ModelRouting` and `RequestPath`;
`SidecarProofs`, for both of its parts; `AuthFileProofs`; `RequestPathProofs`; the
refinement of `EagerBreaker` as a theorem.

What is left is to say more, not to prove what is said:

1. A bound on the wait for the semaphores, as there is one for the lock: those
   ahead in the queue at the moment of queueing.
2. Action properties: a settled request stays settled, a woken task never loses
   its turn to a newcomer.

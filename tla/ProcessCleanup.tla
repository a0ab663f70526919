--------------------------- MODULE ProcessCleanup ---------------------------
(***************************************************************************)
(* One run of the Codex CLI in the sidecar, from the moment the process    *)
(* exists: _communicate_with_timeout() and, when that times out or is      *)
(* cancelled, _terminate_process_group() (app/codex_upstream.py).          *)
(*                                                                         *)
(* The CLI leads a process group of its own and may fork descendants,      *)
(* which inherit the pipes, may outlive it, and may be stuck in the kernel *)
(* for a while, where even SIGKILL waits.  Any of them may exit or ignore  *)
(* SIGTERM, so that signal itself changes no state.                        *)
(*                                                                         *)
(* Time is in ticks.  The event loop is assumed to be on time: no tick     *)
(* passes over a deadline that is due.                                     *)
(***************************************************************************)
EXTENDS Integers, FiniteSets

CONSTANTS
    Leader,        \* the direct child
    Descendants,   \* processes it may fork
    Timeout,       \* CODEX_TIMEOUT_SECONDS
    Grace,         \* PROCESS_TERMINATE_GRACE_SECONDS
    KillWait       \* PROCESS_KILL_WAIT_SECONDS

(* The settings are clamped to at least 0.5 seconds, half a tick or more.  *)
ASSUME CleanupAssumption ==
    /\ Leader \notin Descendants
    /\ Timeout \in Nat \ {0}
    /\ Grace \in Nat \ {0}
    /\ KillWait \in Nat \ {0}

Processes == {Leader} \cup Descendants

Phases == {
    "communicate",   \* wait_for(process.communicate(), timeout)
    "grace",         \* _wait_bounded() after SIGTERM
    "kill",          \* _wait_bounded() after SIGKILL
    "reap",          \* wait_for(process.wait())
    "over"}

VARIABLES
    now,
    phase,
    deadline,     \* of the await of this phase
    outcome,      \* what the run raises or returns; fixed when it leaves
                  \* "communicate"
    returncode,   \* the loop has reaped the direct child
    alive,        \* the members of the group that run
    pipes,        \* the processes that hold stdout or stderr open
    stuck,        \* those in uninterruptible sleep
    killed,       \* those that were sent SIGKILL
    began         \* history: when the cleanup began

os == <<alive, pipes, stuck, killed>>
vars == <<now, phase, deadline, outcome, returncode, os, began>>

Init ==
    /\ now = 0
    /\ phase = "communicate"
    /\ deadline = Timeout
    /\ outcome = "none"
    /\ returncode = FALSE
    /\ alive = {Leader}
    /\ pipes = {Leader}
    /\ stuck = {}
    /\ killed = {}
    /\ began = 0

-----------------------------------------------------------------------------
(* The operating system                                                    *)

loop == <<phase, deadline, outcome, began>>

(* A member that is not dying forks; the child keeps the pipes or not.     *)
Fork(d) ==
    /\ d \in Descendants \ (alive \cup killed)
    /\ alive \ (stuck \cup killed) # {}
    /\ alive' = alive \cup {d}
    /\ pipes' \in {pipes, pipes \cup {d}}
    /\ UNCHANGED <<now, loop, returncode, stuck, killed>>

Exit(p) ==
    /\ p \in alive \ stuck
    /\ alive' = alive \ {p}
    /\ pipes' = pipes \ {p}
    /\ UNCHANGED <<now, loop, returncode, stuck, killed>>

(* Uninterruptible sleep begins and ends.                                  *)
Sleep(p) ==
    /\ p \in alive \ (stuck \cup killed)
    /\ stuck' = stuck \cup {p}
    /\ UNCHANGED <<now, loop, returncode, alive, pipes, killed>>

Wake(p) ==
    /\ p \in stuck
    /\ stuck' = stuck \ {p}
    /\ UNCHANGED <<now, loop, returncode, alive, pipes, killed>>

(* The loop's child watcher notices that the child is dead.                *)
Reap ==
    /\ Leader \notin alive
    /\ ~ returncode
    /\ returncode' = TRUE
    /\ UNCHANGED <<now, loop, os>>

-----------------------------------------------------------------------------
(* The sidecar                                                             *)

(* Mutant: only the direct child is killed.                                *)
KillChild ==
    killed' = killed \cup ({Leader} \cap alive)

(* killpg(SIGKILL): every member, at once.                                 *)
KillGroup ==
    killed' = killed \cup alive

Await(where, limit) ==
    /\ phase' = where
    /\ deadline' = now + limit

(* communicate() returns once the pipes are closed and the child reaped.   *)
Returns ==
    /\ phase = "communicate"
    /\ pipes = {} /\ returncode
    /\ phase' = "over"
    /\ outcome' = "result"
    /\ UNCHANGED <<now, deadline, returncode, os, began>>

BeginCleanup(why) ==
    /\ phase = "communicate"
    /\ outcome' = why
    /\ began' = now
    /\ Await("grace", Grace)
    /\ UNCHANGED <<now, returncode, os>>

TimesOut == now >= deadline /\ BeginCleanup("timeout504")

(* The first cancellation of the task; a later one is absorbed by the      *)
(* waits below, except that it ends the last of them early.                *)
Cancelled == BeginCleanup("cancelled")

(* _wait_bounded() sees the child reaped and nobody left in the group.     *)
GroupGone == returncode /\ alive = {}

(* Mutant: communicate() is called again for what was written meanwhile.   *)
AfterWaitsCommunicating ==
    IF returncode
    THEN phase' = "communicate" /\ UNCHANGED deadline
    ELSE Await("reap", KillWait)

(* After the waits only the child's own reaping may still be missing.      *)
AfterWaits ==
    IF returncode
    THEN phase' = "over" /\ UNCHANGED deadline
    ELSE Await("reap", KillWait)

SeenGone ==
    /\ phase \in {"grace", "kill"}
    /\ GroupGone
    /\ AfterWaits
    /\ UNCHANGED <<now, outcome, returncode, os, began>>

(* Mutant: the wait after SIGKILL is given the grace period once more.     *)
EscalateGraceAgain ==
    /\ phase = "grace"
    /\ now >= deadline /\ ~ GroupGone
    /\ KillGroup
    /\ Await("kill", Grace)
    /\ UNCHANGED <<now, outcome, returncode, alive, pipes, stuck, began>>

Escalate ==
    /\ phase = "grace"
    /\ now >= deadline /\ ~ GroupGone
    /\ KillGroup
    /\ Await("kill", KillWait)
    /\ UNCHANGED <<now, outcome, returncode, alive, pipes, stuck, began>>

GiveUp ==
    /\ phase = "kill"
    /\ now >= deadline /\ ~ GroupGone
    /\ AfterWaits
    /\ UNCHANGED <<now, outcome, returncode, os, began>>

(* Mutant: process.wait() is awaited without a bound.                      *)
ReapUnbounded ==
    /\ phase = "reap"
    /\ returncode
    /\ phase' = "over"
    /\ UNCHANGED <<now, deadline, outcome, returncode, os, began>>

(* wait_for(process.wait()) ends: reaped, timed out or cancelled.          *)
ReapOver ==
    /\ phase = "reap"
    /\ phase' = "over"
    /\ UNCHANGED <<now, deadline, outcome, returncode, os, began>>

(* No deadline is passed over; SIGKILL is obeyed at once unless stuck.     *)
Tick ==
    /\ phase # "over"
    /\ now < deadline
    /\ killed \cap alive \subseteq stuck
    /\ now' = now + 1
    /\ UNCHANGED <<loop, returncode, os>>

Loop == Returns \/ TimesOut \/ SeenGone \/ Escalate \/ GiveUp \/ ReapOver

Kernel ==
    \/ \E d \in Descendants : Fork(d)
    \/ \E p \in Processes : Exit(p) \/ Sleep(p) \/ Wake(p)
    \/ Reap

Next == Loop \/ Cancelled \/ Kernel \/ Tick

(* The loop runs, SIGKILL works, and time passes; processes owe nothing    *)
(* else, neither to exit nor to wake.                                      *)
Spec ==
    /\ Init /\ [][Next]_vars
    /\ WF_vars(Loop)
    /\ WF_vars(Tick)
    /\ \A p \in Processes : WF_vars(p \in killed /\ Exit(p))

-----------------------------------------------------------------------------

(* Type: what each variable may hold; only a run that is still in its one  *)
(* communicate() call has no outcome.                                      *)
CleanupTypeOK ==
    /\ now \in Nat
    /\ phase \in Phases
    /\ deadline \in Nat
    /\ outcome \in {"none", "result", "timeout504", "cancelled"}
    /\ (outcome = "none") <=> (phase = "communicate")
    /\ returncode \in BOOLEAN
    /\ alive \subseteq Processes
    /\ pipes \subseteq alive
    /\ stuck \subseteq alive
    /\ killed \subseteq Processes
    /\ began \in Nat

(* No member of the group slips through the escalation: whoever is left    *)
(* when a timed-out or cancelled run is over, however late it was forked,  *)
(* was sent SIGKILL.                                                       *)
SurvivorsWereKilled ==
    phase = "over" /\ outcome \in {"timeout504", "cancelled"} => alive \subseteq killed

(* The worst-case cleanup budget: however processes, cancellations and     *)
(* deadlines fall, the lock and the permit of the run are free again no    *)
(* later than this after the cleanup began.                                *)
CleanupWithinBudget ==
    outcome \in {"timeout504", "cancelled"} => now - began <= Grace + KillWait + KillWait

(* A run always ends, even with a child stuck in the kernel for good and   *)
(* survivors that hold the pipes.                                          *)
EveryRunEnds == <>(phase = "over")

-----------------------------------------------------------------------------

(* The docstring of _communicate_with_timeout: "On timeout the typed HTTP  *)
(* 504 is raised only after the whole process group is gone."              *)
TimeoutAfterGroupGone ==
    phase = "over" /\ outcome = "timeout504" => alive = {}
=============================================================================

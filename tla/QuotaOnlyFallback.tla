-------------------------- MODULE QuotaOnlyFallback --------------------------
(***************************************************************************)
(* The gateway's promise about money, with no trace of circuits,           *)
(* semaphores or providers: a request that Codex should serve reaches the  *)
(* paid API only if quota exhaustion was confirmed on its own channel, by  *)
(* its own call or less than QuotaOpen ticks before it was taken up, and   *)
(* every request is settled once and for all.                              *)
(***************************************************************************)
EXTENDS Integers

CONSTANTS
    Requests,
    QuotaOpen   \* how long one confirmation justifies paying

Channels == {"text", "image"}   \* where Codex can run out of quota, separately
Never == -1

VARIABLES
    now,
    confirmed,  \* per channel, when exhaustion was last confirmed, or Never
    channel,    \* per request: "none" until taken up, then a channel, or "api"
                \* for what only the paid API serves
    justified,  \* the requests that may be paid for
    verdict     \* per request: "open", then "free" or "paid"

vars == <<now, confirmed, channel, justified, verdict>>

Recent(c) ==
    \/ c = "api"
    \/ c \in Channels /\ confirmed[c] # Never /\ now - confirmed[c] < QuotaOpen

Init ==
    /\ now = 0
    /\ confirmed = [c \in Channels |-> Never]
    /\ channel = [r \in Requests |-> "none"]
    /\ justified = {}
    /\ verdict = [r \in Requests |-> "open"]

(* The request is taken up, if it was not, for channel c.                  *)
OnChannel(r, c) ==
    /\ channel[r] \in {"none", c}
    /\ channel' = [channel EXCEPT ![r] = c]

(* Exhaustion of c is confirmed for r itself.                              *)
Confirm(r, c) ==
    /\ c \in Channels
    /\ confirmed' = [confirmed EXCEPT ![c] = now]
    /\ justified' = justified \cup {r}

(* r has what was known when it was taken up, or does not use it.          *)
Rely(r, c) ==
    /\ UNCHANGED confirmed
    /\ \/ UNCHANGED justified
       \/ /\ channel[r] = "none"
          /\ Recent(c)
          /\ justified' = justified \cup {r}

(* One step of a request, which may settle it.                             *)
Serve(r) ==
    /\ verdict[r] = "open"
    /\ \E c \in Channels \cup {"api"} :
         /\ OnChannel(r, c)
         /\ Confirm(r, c) \/ Rely(r, c)
    /\ \E v \in {"open", "free", "paid"} :
         /\ v = "paid" => r \in justified'
         /\ verdict' = [verdict EXCEPT ![r] = v]
    /\ UNCHANGED now

Tick ==
    /\ now' = now + 1
    /\ UNCHANGED <<confirmed, channel, justified, verdict>>

Next == Tick \/ \E r \in Requests : Serve(r)

Spec == Init /\ [][Next]_vars
=============================================================================

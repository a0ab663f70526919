---------------------------- MODULE ModelRouting ----------------------------
(***************************************************************************)
(* Which model and which reasoning effort a request is given: the pure     *)
(* functions of Settings, Gateway and the reasoning policy in app/main.py, *)
(* and of the sidecar's command line in app/codex_upstream.py.             *)
(*                                                                         *)
(* A name is written plainly, in other letters, or with blanks around it:  *)
(* the code compares names exactly in some places, and regardless of case  *)
(* or of blanks in others.                                                 *)
(***************************************************************************)
EXTENDS Naturals, Functions

CONSTANT LunaAutoModel   \* LUNA_AUTO_MODEL

Lunas  == {"gpt-5-luna", "gpt-9-luna"}    \* what LUNA_MODEL_PATTERN matches
Bases  == Lunas \cup {"luna-auto", "other alias", "gpt-4o"}

(* configured_luna_model() strips it, lowers it, and insists on the pattern.*)
ASSUME ModelRoutingAssumption == LunaAutoModel \in Lunas

Names == [base : Bases, written : {"plain", "upper", "padded"}]

Plain(b)  == [base |-> b, written |-> "plain"]
Upper(b)  == [base |-> b, written |-> "upper"]
Padded(b) == [base |-> b, written |-> "padded"]

Strip(n) == IF n.written = "padded" THEN Plain(n.base) ELSE n

-----------------------------------------------------------------------------
(* Settings.from_env().  `s.aliases` maps names to names, `s.allowed` is   *)
(* the allowlist; an empty one is no allowlist.                            *)

(* fullmatch() ignores case but not blanks.                                *)
LooksLikeLuna(n) == n.base \in Lunas /\ n.written # "padded"

(* Mutant: only the target of luna-auto is checked.                        *)
AcceptedAutoOnly(s) ==
    /\ Plain("luna-auto") \in DOMAIN s.aliases
    /\ s.aliases[Plain("luna-auto")].base = LunaAutoModel

(* The settings the gateway starts with: anything else is a RuntimeError.  *)
Accepted(s) ==
    /\ Plain("luna-auto") \in DOMAIN s.aliases
    /\ s.aliases[Plain("luna-auto")].base = LunaAutoModel
    /\ \A n \in Range(s.aliases) : LooksLikeLuna(n) => n.base = LunaAutoModel

(* normalize_payload(); `n` is stripped.  Aliases are not followed twice.  *)
Resolved(s, n) == IF n \in DOMAIN s.aliases THEN s.aliases[n] ELSE n

(* Mutant: the allowlist is compared regardless of case.                   *)
ListedAnyCase(s, n) ==
    \/ s.allowed = {}
    \/ \E m \in s.allowed : m.base \in {n.base, Resolved(s, n).base}

(* Either name on the list is enough.                                      *)
Listed(s, n) ==
    \/ s.allowed = {}
    \/ n \in s.allowed
    \/ Resolved(s, n) \in s.allowed

(* Everything else goes to OpenAI without asking Codex.                    *)
ForCodex(s, n) == Resolved(s, n) \in Range(s.aliases)

-----------------------------------------------------------------------------
(* The reasoning policy                                                    *)

GatewayEfforts   == {"none", "low", "medium", "high"}
CandidateEfforts == GatewayEfforts \cup {"default", "xhigh", "max"}
SidecarEfforts   == GatewayEfforts \cup {"xhigh", "max"}

(* "absent" is no effort at all.                                           *)
Efforts == CandidateEfforts \cup {"minimal", "absent"}

(* What the prompt's markers, its length, its messages and its tools call  *)
(* for; an explicit effort is not compared with it.                        *)
Weights == {"high", "medium", "low"}

ValidEffort(e) == e \in GatewayEfforts \cup {"absent"}

SelectedEffort(e, weight) == IF e = "absent" THEN weight ELSE e

(* Mutant: `none` is translated back to the old name.                      *)
CliEffortRenaming(e) == IF e = "none" THEN "minimal" ELSE e

(* _codex_reasoning_effort(): the old name of `none` is understood.        *)
CliEffort(e) == IF e = "minimal" THEN "none" ELSE e

CliAccepts(e) == e = "absent" \/ CliEffort(e) \in SidecarEfforts
=============================================================================

---------------------------- MODULE MCRequestPath ----------------------------
(* Requests, settings and addresses for RequestPath.                        *)
EXTENDS RequestPath, TLC

Auto == Plain("luna-auto")
Other == Plain("other alias")

(* luna-auto written in each way, with and without a second alias, and the  *)
(* allowlist off, naming aliases only, targets only, or both.               *)
Aliases ==
    {Auto :> [base |-> b, written |-> w] :
        b \in Lunas, w \in {"plain", "upper", "padded"}}
    \cup {(Auto :> Plain("gpt-5-luna")) @@ (Other :> [base |-> b, written |-> w]) :
        b \in Lunas \cup {"gpt-4o"}, w \in {"plain", "upper", "padded"}}

Allowlists ==
    {{}, {Auto}, {Auto, Other}, {Auto, Plain("gpt-5-luna")},
     {Auto, Other, Plain("gpt-5-luna"), Plain("gpt-4o")}}

MCConfigurations == [aliases : Aliases, allowed : Allowlists]

Ask(m, e, images, json) ==
    [kind |-> "completion", model |-> m, effort |-> e, weight |-> "low",
     tools |-> "known", json |-> json, images |-> images]

(* Every name and every effort.                                             *)
ForRouting ==
    {Ask([base |-> b, written |-> w], e, <<>>, TRUE) :
        b \in Bases, w \in {"plain", "upper"}, e \in Efforts}
    \cup {[Ask(Auto, "absent", <<>>, FALSE) EXCEPT !.weight = w] : w \in Weights}
    \cup {[Ask(Auto, "none", <<>>, FALSE) EXCEPT !.tools = "unknown"]}
    \cup {[Ask(Plain(b), e, <<>>, FALSE) EXCEPT !.kind = "candidate"] :
            b \in Lunas, e \in CandidateEfforts}

(* One or two images of every kind, and too many, for a model that only a   *)
(* few of the settings send to Codex.                                       *)
ForFetching ==
    {Ask(Plain("gpt-4o"), "high", s, TRUE) :
        s \in {<<"named">>, <<"named", "data">>, <<"data", "named">>,
               <<"bad data", "data">>, <<"private", "data">>, <<"refused">>,
               <<"data", "data", "data">>}}

MCAsks == ForRouting \cup ForFetching
=============================================================================

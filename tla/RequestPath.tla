---------------------------- MODULE RequestPath -----------------------------
(***************************************************************************)
(* One request on its whole way: the gateway routes it and settles the     *)
(* effort (app/main.py); the sidecar checks it, fetches its input images   *)
(* through the outbound policy of app/outbound_url.py, and starts the CLI  *)
(* with them, a second time if the output has to be repaired.  Names are   *)
(* resolved anew at every hop of every fetch, and may resolve differently  *)
(* each time.  Queues and circuits are the modules Gateway and Sidecar.    *)
(***************************************************************************)
EXTENDS ModelRouting, Integers, Sequences, SequencesExt

CONSTANTS
    Configurations,   \* candidates for Settings
    Asks,             \* the requests
    Addresses, Public,
    MaxRedirects,     \* IMAGE_MAX_REDIRECTS
    MaxImageInputs    \* MAX_IMAGE_INPUTS

(* URLs: "refused" stands for those validate_outbound_url() refuses by     *)
(* their form (scheme, credentials, local names, port, ...), an address    *)
(* for a literal.                                                          *)
Urls == {"refused", "named"} \cup Addresses

(* An image is also given as a data URL, good or bad.                      *)
Sources == Urls \cup {"data", "bad data"}

(* A candidate is the completion of validate_candidate_model() for one     *)
(* effort, or its smoke test.                                              *)
Requests == [kind : {"completion", "candidate"}, model : Names,
             effort : Efforts, weight : Weights, tools : {"known", "unknown"},
             json : BOOLEAN, images : Seq(Sources)]

Reserved == {"refused", "named", "data", "bad data", "untold"}

(* Aliases are a mapping of names to names.  There are only so many        *)
(* addresses.                                                              *)
(* IMAGE_MAX_REDIRECTS lies within 0..10, MAX_IMAGE_INPUTS within 1..8.    *)
ASSUME RequestPathAssumption ==
    /\ \A s \in Configurations : s.aliases \in [DOMAIN s.aliases -> Names]
    /\ IsFiniteSet(Addresses)
    /\ Reserved \cap Addresses = {}
    /\ Asks \subseteq Requests
    /\ \A q \in Asks : q.model.written # "padded"
    /\ \A q \in Asks : q.kind = "candidate" =>
            q.effort \in CandidateEfforts /\ q.tools = "known" /\ q.images = <<>>
    /\ Public \subseteq Addresses
    /\ MaxRedirects \in 0..10
    /\ MaxImageInputs \in 1..8

VARIABLES
    settings, ask,
    stage,      \* "gateway", "sidecar", "images", "resolve", "get", "run", "done"
    reply,      \* the sidecar's or the gateway's answer, once known
    model, effort,    \* as forwarded by the gateway
    attempt,    \* the run of the CLI: 1, or 2 for the repair
    paths,      \* the images written so far: where each came from
    hop, url,   \* of the fetch under way
    target,     \* the addresses its URL was resolved to, at this hop
    gets,       \* history: requests sent to fetch images
    contacted,  \* history: the addresses they were sent to
    calls       \* history: the calls of the CLI and of OpenAI

fetch == <<hop, url, target>>
history == <<gets, contacted, calls>>
vars == <<settings, ask, stage, reply, model, effort, attempt, paths, fetch, history>>

Init ==
    /\ settings \in {s \in Configurations : Accepted(s)}
    /\ ask \in Asks
    /\ stage = "gateway" /\ reply = "none"
    /\ model = ask.model /\ effort = ask.effort
    /\ attempt = 1 /\ paths = <<>>
    /\ hop = 0 /\ url = "none" /\ target = <<>>
    /\ gets = 0 /\ contacted = {} /\ calls = {}

Answer(how) == stage' = "done" /\ reply' = how

Goto(where) == stage' = where /\ UNCHANGED reply

Call(provider, m, e) ==
    calls' = calls \cup {[provider |-> provider, model |-> m, effort |-> e,
                          images |-> paths, attempt |-> attempt]}

-----------------------------------------------------------------------------
(* The gateway                                                             *)

(* normalize_payload() and _explicit_reasoning_effort() raise.  (Requests  *)
(* to stream, to store or to continue are refused like an unlisted model   *)
(* and are left out.)                                                      *)
Reject ==
    /\ stage = "gateway" /\ ask.kind = "completion"
    /\ \/ ~ Listed(settings, ask.model) /\ Answer("model_not_allowed")
       \/ /\ Listed(settings, ask.model) /\ ForCodex(settings, ask.model)
          /\ ~ ValidEffort(ask.effort)
          /\ Answer("invalid_reasoning_effort")
    /\ UNCHANGED <<settings, ask, model, effort, attempt, paths, fetch, history>>

(* A model of no alias: the payload goes to OpenAI as it came.             *)
RouteToOpenAI ==
    /\ stage = "gateway" /\ ask.kind = "completion"
    /\ Listed(settings, ask.model) /\ ~ ForCodex(settings, ask.model)
    /\ Call("openai", ask.model, ask.effort)
    /\ Answer("openai")
    /\ UNCHANGED <<settings, ask, model, effort, attempt, paths, fetch, gets, contacted>>

(* To the sidecar, or while the circuit is open to OpenAI.                 *)
RouteToCodex ==
    /\ stage = "gateway" /\ ask.kind = "completion"
    /\ Listed(settings, ask.model) /\ ForCodex(settings, ask.model)
    /\ ValidEffort(ask.effort)
    /\ model' = Resolved(settings, ask.model)
    /\ effort' = SelectedEffort(ask.effort, ask.weight)
    /\ \/ Goto("sidecar") /\ UNCHANGED calls
       \/ Call("openai", model', effort') /\ Answer("openai")
    /\ UNCHANGED <<settings, ask, attempt, paths, fetch, gets, contacted>>

(* Past routing, allowlist and policy; "default" is no effort.             *)
RouteCandidate ==
    /\ stage = "gateway" /\ ask.kind = "candidate"
    /\ effort' = IF ask.effort = "default" THEN "absent" ELSE ask.effort
    /\ Goto("sidecar")
    /\ UNCHANGED <<settings, ask, model, attempt, paths, fetch, history>>

(* Quota is exhausted: the same payload goes to OpenAI.                    *)
FallBack ==
    /\ stage = "done" /\ reply = "quota" /\ ask.kind = "completion"
    /\ Call("openai", model, effort)
    /\ Answer("openai")
    /\ UNCHANGED <<settings, ask, model, effort, attempt, paths, fetch, gets, contacted>>

-----------------------------------------------------------------------------
(* The sidecar                                                             *)

(* Mutant: nobody counts the images.                                       *)
CheckUncounted ==
    /\ stage = "sidecar"
    /\ IF ask.tools = "unknown" THEN Answer("unsupported_tool") ELSE Goto("images")
    /\ UNCHANGED <<settings, ask, model, effort, attempt, paths, fetch, history>>

(* _web_search_requested() and the building of the prompt.                 *)
Check ==
    /\ stage = "sidecar"
    /\ \/ ask.tools = "unknown" /\ Answer("unsupported_tool")
       \/ /\ ask.tools = "known" /\ Len(ask.images) > MaxImageInputs
          /\ Answer("too_many_image_inputs")
       \/ /\ ask.tools = "known" /\ Len(ask.images) <= MaxImageInputs
          /\ Goto("images")
    /\ UNCHANGED <<settings, ask, model, effort, attempt, paths, fetch, history>>

Source == ask.images[Len(paths) + 1]

Written(from) ==
    /\ paths' = Append(paths, from)
    /\ Goto("images")

(* The next of _materialize_image_inputs(), in order; the first that fails *)
(* fails the request.                                                      *)
NextImage ==
    /\ stage = "images" /\ Len(paths) < Len(ask.images)
    /\ \/ Source = "data" /\ Written("data") /\ UNCHANGED fetch
       \/ /\ Source \in {"data", "bad data"}
          /\ \E how \in IF Source = "data" THEN {"image_input_too_large"}
                        ELSE {"invalid_data_image_input", "unsupported_image_type"} :
                Answer(how)
          /\ UNCHANGED <<paths, fetch>>
       \/ /\ Source \in Urls
          /\ url' = Source /\ hop' = 0 /\ target' = <<>>
          /\ Goto("resolve")
          /\ UNCHANGED paths
    /\ UNCHANGED <<settings, ask, model, effort, attempt, history>>

-----------------------------------------------------------------------------
(* fetch_outbound(): one hop is one pass through its loop                  *)

(* _resolve_host(): DNS answers with any addresses, in any order, or fails.*)
Lookups(u) ==
    IF u \in Addresses THEN {<<u>>}
    ELSE UNION {[1..n -> Addresses] : n \in 0..Cardinality(Addresses)}

(* Mutant: one public address is enough.                                   *)
ValidateAny ==
    /\ stage = "resolve"
    /\ \/ url = "refused" /\ Answer("unsupported_image_url") /\ UNCHANGED target
       \/ \E found \in Lookups(url) :
            /\ url # "refused"
            /\ IF Range(found) \cap Public # {}
               THEN target' = found /\ Goto("get")
               ELSE Answer("image_url_blocked") /\ UNCHANGED target
    /\ UNCHANGED <<settings, ask, model, effort, attempt, paths, hop, url, history>>

(* validate_outbound_url(): all addresses have to be public.               *)
Validate ==
    /\ stage = "resolve"
    /\ \/ url = "refused" /\ Answer("unsupported_image_url") /\ UNCHANGED target
       \/ /\ url # "refused"
          /\ \E found \in Lookups(url) :
               \/ found = <<>> /\ Answer("image_url_fetch_failed") /\ UNCHANGED target
               \/ ~ (Range(found) \subseteq Public)
                  /\ Answer("image_url_blocked") /\ UNCHANGED target
               \/ /\ found # <<>> /\ Range(found) \subseteq Public
                  /\ target' = found /\ Goto("get")
    /\ UNCHANGED <<settings, ask, model, effort, attempt, paths, hop, url, history>>

(* Mutant: one hop too many.                                               *)
RedirectOnceMore ==
    \/ hop > MaxRedirects /\ Answer("image_url_redirect_blocked") /\ UNCHANGED fetch
    \/ /\ hop <= MaxRedirects
       /\ hop' = hop + 1
       /\ url' \in Urls
       /\ target' = <<>>
       /\ Goto("resolve")

(* A redirect: to another URL, to none, or beyond the budget.  What        *)
(* urljoin() cannot parse raises an error that nobody expects.             *)
Redirect ==
    \/ Answer("image_url_fetch_failed") /\ UNCHANGED fetch
    \/ hop >= MaxRedirects /\ Answer("image_url_redirect_blocked") /\ UNCHANGED fetch
    \/ hop < MaxRedirects /\ Answer("500") /\ UNCHANGED fetch
    \/ /\ hop < MaxRedirects
       /\ hop' = hop + 1
       /\ url' \in Urls
       /\ target' = <<>>
       /\ Goto("resolve")

(* An answer that is no redirect: an image, or not a usable one.           *)
Final(from) ==
    \/ Written(from)
    \/ /\ \E how \in {"image_url_fetch_failed", "image_input_too_large",
                      "unsupported_image_type"} : Answer(how)
       /\ UNCHANGED paths

(* The peer, if the transport tells, has to be one of the addresses.       *)
Verified(peer) == peer = "untold" \/ peer \in Range(target)

(* The request goes to the first of the addresses.                         *)
Get ==
    /\ stage = "get"
    /\ gets' = gets + 1
    /\ contacted' = contacted \cup {target[1]}
    /\ \/ Answer("image_url_fetch_failed") /\ UNCHANGED <<paths, fetch>>
       \/ \E peer \in Addresses \cup {"untold"} :
            \/ /\ ~ Verified(peer)
               /\ Answer("image_url_blocked")
               /\ UNCHANGED <<paths, fetch>>
            \/ /\ Verified(peer)
               /\ \/ Redirect /\ UNCHANGED paths
                  \/ /\ Final(IF peer = "untold" THEN target[1] ELSE peer)
                     /\ UNCHANGED fetch
    /\ UNCHANGED <<settings, ask, model, effort, attempt, calls>>

-----------------------------------------------------------------------------
(* The CLI                                                                 *)

(* _build_codex_command() checks the effort only now, with the images here.*)
(* (EffortKept says that it finds no fault in what the gateway sends.)     *)
Start ==
    /\ stage = "images" /\ Len(paths) = Len(ask.images)
    /\ IF CliAccepts(effort)
       THEN Call("cli", Strip(model), CliEffort(effort)) /\ Goto("run")
       ELSE Answer("invalid_reasoning_effort") /\ UNCHANGED calls
    /\ UNCHANGED <<settings, ask, model, effort, attempt, paths, fetch, gets, contacted>>

(* Mutant: the repair run is not given the images.                         *)
RepairTextOnly ==
    /\ attempt' = 2 /\ paths' = <<>>
    /\ calls' = calls \cup {[provider |-> "cli", model |-> Strip(model),
                             effort |-> CliEffort(effort), images |-> <<>>,
                             attempt |-> 2]}
    /\ Goto("run")

(* The images of the first run are gone with its directory.                *)
Repair ==
    /\ attempt' = 2 /\ paths' = <<>>
    /\ Goto("images")
    /\ UNCHANGED calls

(* An answer, an error, exhausted quota, or JSON that needs repair.        *)
RunEnds ==
    /\ stage = "run"
    /\ \/ /\ \E how \in {"ok", "502", "504", "quota"} : Answer(how)
          /\ UNCHANGED <<attempt, paths, calls>>
       \/ ask.json /\ attempt = 1 /\ Repair
    /\ UNCHANGED <<settings, ask, model, effort, fetch, gets, contacted>>

Next ==
    \/ Reject \/ RouteToOpenAI \/ RouteToCodex \/ RouteCandidate \/ FallBack
    \/ Check \/ NextImage \/ Validate \/ Get
    \/ Start \/ RunEnds

Spec == Init /\ [][Next]_vars

-----------------------------------------------------------------------------

Runs == {c \in calls : c.provider = "cli"}

Replies == {
    "none", "ok", "quota", "openai", "500", "502", "504", "model_not_allowed",
    "invalid_reasoning_effort", "unsupported_tool", "too_many_image_inputs",
    "invalid_data_image_input", "unsupported_image_type", "image_input_too_large",
    "unsupported_image_url", "image_url_blocked", "image_url_fetch_failed",
    "image_url_redirect_blocked"}

(* Type: what each variable may hold.                                      *)
PathTypeOK ==
    /\ settings \in Configurations /\ ask \in Asks
    /\ stage \in {"gateway", "sidecar", "images", "resolve", "get", "run", "done"}
    /\ reply \in Replies
    /\ model \in Names /\ effort \in Efforts
    /\ attempt \in {1, 2}
    /\ paths \in Seq(Addresses \cup {"data"}) /\ Len(paths) <= MaxImageInputs
    /\ hop \in 0..MaxRedirects /\ url \in Urls \cup {"none"}
    /\ target \in Seq(Addresses)
    /\ stage = "get" => target # <<>>
    /\ gets \in Nat /\ contacted \subseteq Addresses

(* Redirects, names that resolve differently at each hop and in each run,  *)
(* mixed answers, peers that are not the ones asked for: an image only     *)
(* comes from an address that was public when its own hop was resolved,    *)
(* and no other address is sent a request.                                 *)
ImagesComeFromPublic ==
    /\ contacted \subseteq Public
    /\ Range(paths) \subseteq Public \cup {"data"}

(* However the servers redirect, and although a repair fetches everything  *)
(* again, the requests that one completion sends out are bounded.          *)
FetchesBounded ==
    gets <= attempt * Len(ask.images) * (MaxRedirects + 1)

(* README.md: "Image inputs are never reduced to text-only placeholders."  *)
(* Every run of the CLI, the repair run too, is given all images in their  *)
(* order, although each may fail on its own.                               *)
EveryRunSeesAllImages ==
    \A c \in Runs :
        /\ Len(c.images) = Len(ask.images)
        /\ \A i \in DOMAIN ask.images :
             (c.images[i] = "data") <=> (ask.images[i] = "data")

(* README.md: luna-auto "never rewrites, infers, or normalizes the         *)
(* caller's reasoning effort".  Through gateway, policy, sidecar, repair   *)
(* and fallback an effort that the caller gave stays as it is, and the     *)
(* sidecar refuses none that the gateway let pass.                         *)
EffortKept ==
    /\ ask.effort \notin {"absent", "default"} =>
          \A c \in calls : c.effort = ask.effort
    /\ reply = "invalid_reasoning_effort" => ~ ValidEffort(ask.effort)

(* Settings: "Every concrete Luna alias target must match                  *)
(* LUNA_AUTO_MODEL".  Whatever the caller names, only the validation of a  *)
(* candidate runs another Luna; unless an alias target was written with    *)
(* blanks, which the check does not recognise and the sidecar strips.      *)
LunaAsConfigured ==
    \A c \in Runs :
        /\ c.model.base \in Lunas
        /\ ask.kind = "completion"
        /\ model.written # "padded"
        => c.model.base = LunaAutoModel

(* README.md: "Aliases can therefore only route between allowlisted names; *)
(* they cannot introduce a new model": whatever is called is listed.       *)
AliasesIntroduceNothing ==
    settings.allowed # {} /\ ask.kind = "completion"
    => \A c \in calls : Strip(c.model) \in settings.allowed

(* That is so if the aliases' targets are listed, which Settings does not  *)
(* ask for: whatever the caller's spelling, alias or fallback.             *)
CalledModelsListed ==
    (\A n \in Range(settings.aliases) : Strip(n) \in settings.allowed)
    => AliasesIntroduceNothing
=============================================================================

-------------------------- MODULE RequestPathProofs --------------------------
(***************************************************************************)
(* One request on its way, for any settings, any requests, any addresses   *)
(* and any answers of name servers, peers and servers.                     *)
(***************************************************************************)
EXTENDS RequestPath, FiniteSetTheorems, TLAPS

AtSidecar == {"sidecar", "images", "resolve", "get", "run"}

(* The sidecar has or had the request, or quota sends it on to OpenAI.     *)
Admitted == stage \in AtSidecar \/ reply = "quota" \/ Runs # {}

(* The inductive invariant, besides the types, in four parts.              *)
BeforeRouting ==
    stage = "gateway" =>
        /\ model = ask.model /\ effort = ask.effort
        /\ attempt = 1 /\ gets = 0 /\ calls = {}
        /\ reply = "none"

RouteInv ==
    /\ Accepted(settings)
    /\ BeforeRouting
    /\ Admitted =>
        /\ CliAccepts(effort) /\ CliEffort(effort) = effort
        /\ ask.kind = "completion" => model \in Range(settings.aliases)
    /\ ask.effort \notin {"absent", "default"} => effort = ask.effort
    /\ EffortKept
    /\ \A c \in Runs : c.model = Strip(model)
    /\ CalledModelsListed

(* The images that are written, in the order of the request's.             *)
Corresponding ==
    /\ Len(paths) <= Len(ask.images)
    /\ \A i \in 1..Len(paths) : (paths[i] = "data") <=> (ask.images[i] = "data")

ImageInv ==
    /\ Corresponding
    /\ stage \in {"gateway", "sidecar"} => paths = <<>>
    /\ stage \in {"images", "resolve", "get", "run"} =>
            Len(ask.images) <= MaxImageInputs
    /\ stage \in {"resolve", "get"} =>
            Len(paths) < Len(ask.images) /\ Source # "data"
    /\ stage = "get" => Range(target) \subseteq Public
    /\ ImagesComeFromPublic
    /\ EveryRunSeesAllImages

(* What n images may have cost in this run and the one before.             *)
Budget(n) == ((attempt - 1) * Len(ask.images) + n) * (MaxRedirects + 1)

FetchInv ==
    /\ stage \in {"gateway", "sidecar", "images"} => gets <= Budget(Len(paths))
    /\ stage \in {"resolve", "get"} => gets <= Budget(Len(paths)) + hop
    /\ FetchesBounded

Inv == PathTypeOK /\ RouteInv /\ ImageInv /\ FetchInv

-----------------------------------------------------------------------------
(* The data                                                                *)

LEMMA AskIsTyped ==
    ASSUME RequestPathAssumption, ask \in Asks
    PROVE  /\ ask.kind \in {"completion", "candidate"}
           /\ ask.model \in Names /\ ask.model.written # "padded"
           /\ ask.effort \in Efforts /\ ask.weight \in Weights
           /\ ask.images \in Seq(Sources)
           /\ ask.kind = "candidate" =>
                ask.effort \in CandidateEfforts /\ ask.images = <<>>
BY DEF RequestPathAssumption, Requests

(* No address is one of the other words of the module.                     *)
LEMMA AddressesAreAddresses ==
    ASSUME RequestPathAssumption
    PROVE  "data" \notin Addresses /\ "bad data" \notin Addresses
BY DEF RequestPathAssumption, Reserved

LEMMA ResolvedIsName ==
    ASSUME RequestPathAssumption, settings \in Configurations, NEW n \in Names
    PROVE  Resolved(settings, n) \in Names
BY DEF RequestPathAssumption, Resolved

LEMMA EffortsAreEfforts ==
    ASSUME NEW e \in Efforts, NEW w \in Weights
    PROVE  SelectedEffort(e, w) \in Efforts
BY DEF SelectedEffort, Efforts, Weights, CandidateEfforts, GatewayEfforts

(* Whatever DNS answers is a sequence of addresses.                        *)
LEMMA LookupsAreAddresses ==
    ASSUME RequestPathAssumption, NEW u, NEW found \in Lookups(u)
    PROVE  found \in Seq(Addresses)
<1>1. CASE u \in Addresses
  <2>1. found = <<u>>
    BY <1>1 DEF Lookups
  <2> QED
    BY <1>1, <2>1
<1>2. CASE u \notin Addresses
  <2>1. Cardinality(Addresses) \in Nat
    BY FS_CardinalityType DEF RequestPathAssumption
  <2>2. PICK n \in 0..Cardinality(Addresses) : found \in [1..n -> Addresses]
    BY <1>2 DEF Lookups
  <2>3. n \in Nat
    BY <2>1, <2>2
  <2> QED
    BY <2>2, <2>3
<1> QED
  BY <1>1, <1>2

LEMMA FirstIsInRange ==
    ASSUME NEW S, NEW s \in Seq(S), s # <<>>
    PROVE  s[1] \in Range(s) /\ Range(s) \subseteq S
BY DEF Range

LEMMA NextSource ==
    ASSUME RequestPathAssumption, PathTypeOK, Len(paths) < Len(ask.images)
    PROVE  Source \in Sources /\ Len(paths) + 1 \in 1..Len(ask.images)
<1>1. ask.images \in Seq(Sources) /\ Len(paths) \in Nat
  BY AskIsTyped DEF PathTypeOK
<1> QED
  BY <1>1 DEF Source

-----------------------------------------------------------------------------
(* Types                                                                   *)

LEMMA InitTypes ==
    ASSUME RequestPathAssumption, Init
    PROVE  PathTypeOK
<1>1. ask.model \in Names /\ ask.effort \in Efforts
  BY AskIsTyped DEF Init
<1> QED
  BY <1>1 DEF Init, PathTypeOK, Replies, RequestPathAssumption

LEMMA GatewayTypes ==
    ASSUME RequestPathAssumption, Inv,
           Reject \/ RouteToOpenAI \/ RouteToCodex \/ RouteCandidate \/ FallBack
    PROVE  PathTypeOK'
<1> USE DEF Inv, PathTypeOK, Replies, Answer, Goto, fetch, history
<1>1. CASE Reject
  BY <1>1 DEF Reject
<1>2. CASE RouteToOpenAI
  BY <1>2 DEF RouteToOpenAI
<1>3. CASE RouteToCodex
  <2>1. model' \in Names /\ effort' \in Efforts
    BY <1>3, AskIsTyped, ResolvedIsName, EffortsAreEfforts DEF RouteToCodex
  <2> QED
    BY <1>3, <2>1 DEF RouteToCodex
<1>4. CASE RouteCandidate
  <2>1. effort' \in Efforts
    BY <1>4, AskIsTyped DEF RouteCandidate, Efforts
  <2> QED
    BY <1>4, <2>1 DEF RouteCandidate
<1>5. CASE FallBack
  BY <1>5 DEF FallBack
<1> QED
  BY <1>1, <1>2, <1>3, <1>4, <1>5

LEMMA WrittenTypes ==
    ASSUME Inv, NEW from \in Addresses \cup {"data"}, Written(from),
           Len(paths) < Len(ask.images), Len(ask.images) <= MaxImageInputs,
           RequestPathAssumption
    PROVE  /\ paths' \in Seq(Addresses \cup {"data"}) /\ Len(paths') <= MaxImageInputs
           /\ stage' = "images" /\ reply' = reply
<1>1. /\ paths \in Seq(Addresses \cup {"data"}) /\ paths' = Append(paths, from)
      /\ stage' = "images" /\ reply' = reply
      /\ MaxImageInputs \in Nat
  BY DEF Inv, PathTypeOK, Written, Goto, RequestPathAssumption
<1>2. Len(ask.images) \in Nat
  BY AskIsTyped DEF Inv, PathTypeOK
<1> QED
  BY <1>1, <1>2

LEMMA SidecarTypes ==
    ASSUME RequestPathAssumption, Inv,
           Check \/ NextImage \/ Validate \/ Start \/ RunEnds
    PROVE  PathTypeOK'
<1> USE DEF Inv, PathTypeOK, Replies, Answer, Goto, fetch, history
<1>1. CASE Check
  BY <1>1 DEF Check
<1>2. CASE NextImage
  <2>1. /\ stage = "images" /\ Len(paths) < Len(ask.images)
        /\ Len(ask.images) <= MaxImageInputs
        /\ UNCHANGED <<settings, ask, model, effort, attempt, history>>
    BY <1>2 DEF NextImage, ImageInv
  <2>2. CASE Written("data") /\ UNCHANGED fetch
    BY <2>1, <2>2, WrittenTypes
  <2>3. CASE /\ \E how \in {"image_input_too_large", "invalid_data_image_input",
                            "unsupported_image_type"} : Answer(how)
             /\ UNCHANGED <<paths, fetch>>
    BY <2>1, <2>3
  <2>4. CASE /\ Source \in Urls /\ url' = Source /\ hop' = 0 /\ target' = <<>>
             /\ Goto("resolve") /\ UNCHANGED paths
    BY <2>1, <2>4 DEF RequestPathAssumption
  <2> QED
    BY <1>2, <2>1, <2>2, <2>3, <2>4 DEF NextImage
<1>3. CASE Validate
  <2>1. /\ stage = "resolve"
        /\ UNCHANGED <<settings, ask, model, effort, attempt, paths, hop, url, history>>
    BY <1>3 DEF Validate
  <2>2. CASE /\ \E how \in {"unsupported_image_url", "image_url_fetch_failed",
                            "image_url_blocked"} : Answer(how)
             /\ UNCHANGED target
    BY <2>1, <2>2
  <2>3. CASE \E found \in Lookups(url) : found # <<>> /\ target' = found /\ Goto("get")
    BY <2>1, <2>3, LookupsAreAddresses
  <2> QED
    BY <1>3, <2>2, <2>3 DEF Validate
<1>4. CASE Start
  BY <1>4 DEF Start
<1>5. CASE RunEnds
  <2>1. CASE UNCHANGED <<attempt, paths>> /\ stage' = "done"
    BY <1>5, <2>1 DEF RunEnds, Repair
  <2>2. CASE Repair
    BY <1>5, <2>2 DEF RunEnds, Repair, RequestPathAssumption
  <2> QED
    BY <1>5, <2>1, <2>2 DEF RunEnds
<1> QED
  BY <1>1, <1>2, <1>3, <1>4, <1>5

-----------------------------------------------------------------------------
(* Models and efforts                                                      *)

(* What the gateway selects or lets pass, the sidecar's command line takes *)
(* as it is.                                                               *)
LEMMA SelectedFits ==
    ASSUME NEW e \in Efforts, NEW w \in Weights, ValidEffort(e)
    PROVE  LET f == SelectedEffort(e, w)
           IN  /\ CliAccepts(f) /\ CliEffort(f) = f
               /\ e # "absent" => f = e
BY DEF SelectedEffort, ValidEffort, CliAccepts, CliEffort, SidecarEfforts,
       GatewayEfforts, Weights

LEMMA CandidateFits ==
    ASSUME NEW e \in CandidateEfforts
    PROVE  LET f == IF e = "default" THEN "absent" ELSE e
           IN  /\ CliAccepts(f) /\ CliEffort(f) = f
               /\ e # "default" => f = e
BY DEF CliAccepts, CliEffort, SidecarEfforts, CandidateEfforts, GatewayEfforts

LEMMA StripOnce ==
    ASSUME NEW n \in Names
    PROVE  /\ Strip(n) \in Names
           /\ Strip(Strip(n)) = Strip(n)
           /\ Strip(n).base = n.base
           /\ n.written # "padded" => Strip(n) = n
BY DEF Strip, Plain, Names

(* A request for Codex goes to the target of an alias.                     *)
LEMMA ForCodexIsTarget ==
    ASSUME ForCodex(settings, ask.model)
    PROVE  Resolved(settings, ask.model) \in Range(settings.aliases)
BY DEF ForCodex

(* A request for OpenAI names a model that is on the list itself.          *)
LEMMA ForOpenAIIsListed ==
    ASSUME settings.allowed # {}, Listed(settings, ask.model),
           ~ ForCodex(settings, ask.model)
    PROVE  ask.model \in settings.allowed
BY DEF Listed, ForCodex, Resolved, Range

LEMMA InitRoute ==
    ASSUME RequestPathAssumption, Init
    PROVE  RouteInv
BY DEF Init, RouteInv, BeforeRouting, Admitted, AtSidecar, Runs, EffortKept,
       CalledModelsListed, AliasesIntroduceNothing

(* A step that calls nobody and leaves the route as it is.                 *)
LEMMA RouteKept ==
    ASSUME RouteInv, UNCHANGED <<settings, ask, model, effort, calls>>,
           stage' # "gateway", Admitted' => Admitted,
           reply' = "invalid_reasoning_effort" => ~ ValidEffort(ask.effort)
    PROVE  RouteInv'
BY DEF RouteInv, BeforeRouting, Runs, EffortKept, CalledModelsListed,
       AliasesIntroduceNothing

(* A step that calls somebody.                                             *)
LEMMA RouteCalls ==
    ASSUME RouteInv, UNCHANGED <<settings, ask>>, stage' # "gateway",
           reply' = "invalid_reasoning_effort" => ~ ValidEffort(ask.effort),
           NEW p, NEW m, NEW e, Call(p, m, e),
           p = "cli" => m = Strip(model'),
           calls = {} \/ UNCHANGED model,
           ask.effort \notin {"absent", "default"} =>
                effort' = ask.effort /\ e = ask.effort,
           Admitted' =>
                /\ CliAccepts(effort') /\ CliEffort(effort') = effort'
                /\ ask.kind = "completion" => model' \in Range(settings.aliases),
           /\ settings.allowed # {}
           /\ \A n \in Range(settings.aliases) : Strip(n) \in settings.allowed
           /\ ask.kind = "completion"
           => Strip(m) \in settings.allowed
    PROVE  RouteInv'
<1> DEFINE c == [provider |-> p, model |-> m, effort |-> e, images |-> paths,
                 attempt |-> attempt]
<1>1. /\ calls' = calls \cup {c}
      /\ c.provider = p /\ c.model = m /\ c.effort = e
  BY DEF Call
<1> HIDE DEF c
<1>2. (\A d \in Runs : d.model = Strip(model))'
  BY <1>1 DEF RouteInv, Runs
<1>3. EffortKept'
  BY <1>1 DEF RouteInv, EffortKept
<1>4. CalledModelsListed'
  BY <1>1 DEF RouteInv, CalledModelsListed, AliasesIntroduceNothing
<1> QED
  BY <1>2, <1>3, <1>4 DEF RouteInv, BeforeRouting

LEMMA GatewayRoute ==
    ASSUME RequestPathAssumption, Inv,
           Reject \/ RouteToOpenAI \/ RouteToCodex \/ RouteCandidate
    PROVE  RouteInv'
<1>1. /\ RouteInv /\ BeforeRouting
      /\ stage = "gateway" /\ reply = "none" /\ calls = {} /\ Runs = {}
      /\ UNCHANGED <<settings, ask>>
      /\ model = ask.model /\ effort = ask.effort
  BY DEF Inv, RouteInv, BeforeRouting, Runs, Reject, RouteToOpenAI, RouteToCodex,
         RouteCandidate
<1>2. /\ ask \in Asks /\ ask.model \in Names /\ ask.model.written # "padded"
      /\ ask.effort \in Efforts /\ ask.weight \in Weights
  BY AskIsTyped DEF Inv, PathTypeOK
<1>3. CASE Reject
  <2>1. /\ UNCHANGED <<settings, ask, model, effort, calls>> /\ stage' # "gateway"
        /\ reply' = "invalid_reasoning_effort" => ~ ValidEffort(ask.effort)
        /\ stage' = "done" /\ reply' # "quota" /\ Runs' = {}
    BY <1>1, <1>3 DEF Reject, Answer, history, Runs
  <2> QED
    BY <1>1, <2>1, RouteKept DEF Admitted, AtSidecar
<1>4. CASE RouteToOpenAI
  <2>1. /\ UNCHANGED <<model, effort>> /\ stage' = "done" /\ reply' = "openai"
        /\ Call("openai", ask.model, ask.effort)
        /\ Listed(settings, ask.model) /\ ~ ForCodex(settings, ask.model)
    BY <1>4 DEF RouteToOpenAI, Answer
  <2>2. /\ stage' # "gateway" /\ reply' # "invalid_reasoning_effort"
        /\ Runs' = {} /\ ~ Admitted'
    BY <1>1, <2>1 DEF Runs, Call, Admitted, AtSidecar
  <2>3. settings.allowed # {} => Strip(ask.model) \in settings.allowed
    BY <1>2, <2>1, ForOpenAIIsListed, StripOnce
  <2> QED
    BY <1>1, <2>1, <2>2, <2>3, RouteCalls
<1>5. CASE RouteToCodex
  <2>1. /\ model' = Resolved(settings, ask.model)
        /\ effort' = SelectedEffort(ask.effort, ask.weight)
        /\ ValidEffort(ask.effort) /\ stage' # "gateway"
        /\ reply' \in {"none", "openai"}
    BY <1>1, <1>5 DEF RouteToCodex, Answer, Goto
  <2>2. model' \in Range(settings.aliases)
    BY <1>5, <2>1, ForCodexIsTarget DEF RouteToCodex
  <2>3. /\ CliAccepts(effort') /\ CliEffort(effort') = effort'
        /\ ask.effort # "absent" => effort' = ask.effort
    BY <1>2, <2>1, SelectedFits
  <2>4. CASE Call("openai", model', effort')
    BY <1>1, <2>1, <2>2, <2>3, <2>4, RouteCalls
  <2>5. CASE UNCHANGED calls
    <3>1. Runs' = {} /\ calls' = {}
      BY <1>1, <2>5 DEF Runs
    <3> QED
      BY <1>1, <2>1, <2>2, <2>3, <3>1
      DEF RouteInv, BeforeRouting, EffortKept, CalledModelsListed,
      AliasesIntroduceNothing
  <2> QED
    BY <1>5, <2>4, <2>5 DEF RouteToCodex
<1>6. CASE RouteCandidate
  <2>1. /\ effort' = IF ask.effort = "default" THEN "absent" ELSE ask.effort
        /\ ask.kind = "candidate" /\ stage' # "gateway" /\ reply' = "none"
        /\ model' = model /\ calls' = {} /\ Runs' = {}
    BY <1>1, <1>6 DEF RouteCandidate, Goto, history, Runs
  <2>2. ask.effort \in CandidateEfforts
    BY <1>2, <2>1, AskIsTyped
  <2>3. /\ CliAccepts(effort') /\ CliEffort(effort') = effort'
        /\ ask.effort # "default" => effort' = ask.effort
    BY <2>1, <2>2, CandidateFits
  <2> QED
    BY <1>1, <2>1, <2>3 DEF RouteInv, BeforeRouting, EffortKept, CalledModelsListed,
                        AliasesIntroduceNothing
<1> QED
  BY <1>3, <1>4, <1>5, <1>6

LEMMA FallBackRoute ==
    ASSUME RequestPathAssumption, Inv, FallBack
    PROVE  RouteInv'
<1>1. /\ UNCHANGED <<settings, ask, model, effort>> /\ stage' = "done"
      /\ reply = "quota" /\ reply' = "openai" /\ ask.kind = "completion"
      /\ Call("openai", model, effort)
  BY DEF FallBack, Answer
<1>2. /\ RouteInv /\ CliAccepts(effort) /\ CliEffort(effort) = effort
      /\ model \in Range(settings.aliases)
      /\ ask.effort \notin {"absent", "default"} => effort = ask.effort
  BY <1>1 DEF Inv, RouteInv, Admitted
<1> QED
  BY <1>1, <1>2, RouteCalls

LEMMA SidecarRoute ==
    ASSUME RequestPathAssumption, Inv, stage \in AtSidecar, stage' # "gateway",
           UNCHANGED <<settings, ask, model, effort, calls>>,
           reply' = reply \/ reply' # "invalid_reasoning_effort"
    PROVE  RouteInv'
<1>1. RouteInv /\ Admitted
  BY DEF Inv, Admitted
<1>2. reply = "invalid_reasoning_effort" => ~ ValidEffort(ask.effort)
  BY <1>1 DEF RouteInv, EffortKept
<1> QED
  BY <1>1, <1>2, RouteKept

LEMMA StartRoute ==
    ASSUME RequestPathAssumption, Inv, Start
    PROVE  RouteInv'
<1>1. /\ RouteInv /\ CliAccepts(effort) /\ CliEffort(effort) = effort
      /\ ask.kind = "completion" => model \in Range(settings.aliases)
      /\ ask.effort \notin {"absent", "default"} => effort = ask.effort
  BY DEF Inv, RouteInv, Admitted, AtSidecar, Start
<1>2. /\ Call("cli", Strip(model), effort) /\ stage' = "run" /\ reply' = reply
      /\ UNCHANGED <<settings, ask, model, effort>>
  BY <1>1 DEF Start, Goto
<1>3. Strip(Strip(model)) = Strip(model)
  BY StripOnce DEF Inv, PathTypeOK
<1>4. reply' = "invalid_reasoning_effort" => ~ ValidEffort(ask.effort)
  BY <1>1, <1>2 DEF RouteInv, EffortKept
<1> QED
  BY <1>1, <1>2, <1>3, <1>4, RouteCalls

-----------------------------------------------------------------------------
(* Images                                                                  *)

(* An image that is written is the next, and comes from a public address   *)
(* unless it was in the request.                                           *)
LEMMA WrittenImages ==
    ASSUME RequestPathAssumption, Inv, UNCHANGED ask,
           NEW from \in Addresses \cup {"data"}, Written(from),
           stage \in {"images", "resolve", "get"}, Len(paths) < Len(ask.images),
           (from = "data") <=> (Source = "data")
    PROVE  /\ Corresponding'
           /\ Range(paths') = Range(paths) \cup {from}
           /\ stage' = "images" /\ reply' = reply
           /\ Len(paths') = Len(paths) + 1
<1>1. /\ paths \in Seq(Addresses \cup {"data"}) /\ paths' = Append(paths, from)
      /\ stage' = "images" /\ reply' = reply
  BY DEF Inv, PathTypeOK, Written, Goto
<1>2. Len(ask.images) \in Nat /\ Len(paths) \in Nat
  BY <1>1, AskIsTyped DEF Inv, PathTypeOK
<1>3. /\ Len(paths') = Len(paths) + 1
      /\ \A i \in 1..Len(paths) : paths'[i] = paths[i]
      /\ paths'[Len(paths) + 1] = from
  BY <1>1
<1>4. Corresponding'
  BY <1>2, <1>3 DEF Inv, ImageInv, Corresponding, Source
<1>5. Range(paths') = Range(paths) \cup {from}
  <2>1. DOMAIN paths = 1..Len(paths) /\ DOMAIN paths' = 1..(Len(paths) + 1)
    BY <1>1
  <2> QED
    BY <1>2, <1>3, <2>1 DEF Range
<1> QED
  BY <1>1, <1>3, <1>4, <1>5

(* What a step leaves alone, and what it has to keep.                      *)
LEMMA ImagesKept ==
    ASSUME ImageInv, UNCHANGED <<ask, paths, contacted>>,
           Runs' \subseteq Runs,
           stage' \in {"gateway", "sidecar"} => stage \in {"gateway", "sidecar"},
           stage' \in {"images", "resolve", "get", "run"} =>
                Len(ask.images) <= MaxImageInputs,
           stage' \in {"resolve", "get"} =>
                Len(paths) < Len(ask.images) /\ Source # "data",
           stage' = "get" => Range(target') \subseteq Public
    PROVE  ImageInv'
<1>1. Corresponding' /\ Source' = Source
  BY DEF ImageInv, Corresponding, Source
<1>2. EveryRunSeesAllImages'
  BY DEF ImageInv, EveryRunSeesAllImages
<1>3. ImagesComeFromPublic'
  BY DEF ImageInv, ImagesComeFromPublic
<1> QED
  BY <1>1, <1>2, <1>3 DEF ImageInv

LEMMA InitImages ==
    ASSUME RequestPathAssumption, Init
    PROVE  ImageInv
<1>1. ask.images \in Seq(Sources)
  BY AskIsTyped DEF Init
<1> QED
  BY <1>1 DEF Init, ImageInv, Corresponding, ImagesComeFromPublic,
     EveryRunSeesAllImages, Runs, Range

LEMMA GatewayImages ==
    ASSUME RequestPathAssumption, Inv,
           Reject \/ RouteToOpenAI \/ RouteToCodex \/ RouteCandidate \/ FallBack \/ Check
    PROVE  ImageInv'
<1>1. /\ ImageInv /\ UNCHANGED <<ask, paths, contacted>>
      /\ stage' \in {"gateway", "sidecar"} => stage \in {"gateway", "sidecar"}
      /\ stage' \notin {"resolve", "get", "run"}
      /\ stage' = "images" => Len(ask.images) <= MaxImageInputs
  BY DEF Inv, Reject, RouteToOpenAI, RouteToCodex, RouteCandidate, FallBack, Check,
         Answer, Goto, fetch, history
<1>2. Runs' \subseteq Runs
  BY DEF Reject, RouteToOpenAI, RouteToCodex, RouteCandidate, FallBack, Check,
         Call, Runs, history
<1> QED
  BY <1>1, <1>2, ImagesKept

LEMMA NextImageImages ==
    ASSUME RequestPathAssumption, Inv, NextImage
    PROVE  ImageInv'
<1>1. /\ ImageInv /\ stage = "images" /\ Len(paths) < Len(ask.images)
      /\ Len(ask.images) <= MaxImageInputs
      /\ UNCHANGED <<ask, contacted, calls>> /\ Runs' = Runs
  BY DEF Inv, ImageInv, NextImage, history, Runs
<1>2. CASE Source = "data" /\ Written("data")
  <2>1. /\ Corresponding' /\ Range(paths') = Range(paths) \cup {"data"}
        /\ stage' = "images"
    BY <1>1, <1>2, WrittenImages
  <2> QED
    BY <1>1, <2>1 DEF ImageInv, ImagesComeFromPublic, EveryRunSeesAllImages
<1>3. CASE stage' = "done" /\ UNCHANGED paths
  BY <1>1, <1>3, ImagesKept
<1>4. CASE Source \in Urls /\ stage' = "resolve" /\ UNCHANGED paths
  <2>1. Source # "data"
    BY <1>4, AddressesAreAddresses DEF Urls
  <2> QED
    BY <1>1, <1>4, <2>1, ImagesKept
<1> QED
  BY <1>2, <1>3, <1>4 DEF NextImage, Answer, Goto

LEMMA ValidateImages ==
    ASSUME RequestPathAssumption, Inv, Validate
    PROVE  ImageInv'
<1>1. /\ ImageInv /\ stage = "resolve"
      /\ Len(paths) < Len(ask.images) /\ Source # "data"
      /\ Len(ask.images) <= MaxImageInputs
      /\ UNCHANGED <<ask, paths, contacted, calls>> /\ Runs' = Runs
  BY DEF Inv, ImageInv, Validate, history, Runs
<1>2. \/ stage' = "done"
      \/ stage' = "get" /\ Range(target') \subseteq Public
  BY DEF Validate, Answer, Goto
<1> QED
  BY <1>1, <1>2, ImagesKept

LEMMA GetImages ==
    ASSUME RequestPathAssumption, Inv, Get
    PROVE  ImageInv'
<1>1. /\ ImageInv /\ stage = "get"
      /\ Len(paths) < Len(ask.images) /\ Source # "data"
      /\ Len(ask.images) <= MaxImageInputs
      /\ Range(target) \subseteq Public
      /\ UNCHANGED <<ask, calls>> /\ Runs' = Runs
  BY DEF Inv, ImageInv, Get, Runs
<1>2. /\ target[1] \in Public /\ contacted \subseteq Public
      /\ contacted' \subseteq Public
      /\ Public \subseteq Addresses
  <2>1. target \in Seq(Addresses) /\ target # <<>>
    BY <1>1 DEF Inv, PathTypeOK
  <2> QED
    BY <1>1, <2>1, FirstIsInRange
    DEF Get, ImageInv, ImagesComeFromPublic, RequestPathAssumption
<1>3. CASE UNCHANGED paths /\ stage' \in {"resolve", "done"}
  BY <1>1, <1>2, <1>3 DEF ImageInv, Corresponding, Source, ImagesComeFromPublic,
     EveryRunSeesAllImages
<1>4. CASE \E from \in Public : Written(from)
  <2>1. PICK from \in Public : Written(from)
    BY <1>4
  <2>2. from \in Addresses /\ from # "data"
    BY <1>2, AddressesAreAddresses
  <2>3. /\ Corresponding' /\ Range(paths') = Range(paths) \cup {from}
        /\ stage' = "images"
    BY <1>1, <2>1, <2>2, WrittenImages
  <2> QED
    BY <1>1, <1>2, <2>1, <2>3 DEF ImageInv, ImagesComeFromPublic, EveryRunSeesAllImages
<1>5. ASSUME NEW peer \in Addresses \cup {"untold"}, Verified(peer)
      PROVE  (IF peer = "untold" THEN target[1] ELSE peer) \in Public
  BY <1>1, <1>2, <1>5 DEF Verified
<1> QED
  BY <1>3, <1>4, <1>5 DEF Get, Final, Redirect, Answer, Goto

LEMMA RunImages ==
    ASSUME RequestPathAssumption, Inv, Start \/ RunEnds
    PROVE  ImageInv'
<1>1. /\ ImageInv /\ UNCHANGED <<ask, contacted>>
      /\ stage \in {"images", "run"} /\ Len(ask.images) <= MaxImageInputs
  BY DEF Inv, ImageInv, Start, RunEnds
<1>2. CASE Start
  <2>1. /\ UNCHANGED paths /\ Len(paths) = Len(ask.images)
        /\ stage' \in {"run", "done"}
    BY <1>2 DEF Start, Answer, Goto
  <2>2. EveryRunSeesAllImages'
    <3>1. CASE UNCHANGED calls
      BY <1>1, <3>1 DEF ImageInv, EveryRunSeesAllImages, Runs
    <3>2. CASE Call("cli", Strip(model), CliEffort(effort))
      <4> DEFINE c == [provider |-> "cli", model |-> Strip(model),
                       effort |-> CliEffort(effort), images |-> paths,
                       attempt |-> attempt]
      <4>1. calls' = calls \cup {c} /\ c.images = paths
        BY <3>2 DEF Call
      <4>2. DOMAIN ask.images = 1..Len(ask.images)
        BY AskIsTyped DEF Inv, PathTypeOK
      <4> HIDE DEF c
      <4> QED
        BY <1>1, <2>1, <4>1, <4>2
        DEF ImageInv, Corresponding, EveryRunSeesAllImages, Runs
    <3> QED
      BY <1>2, <3>1, <3>2 DEF Start
  <2> QED
    BY <1>1, <2>1, <2>2 DEF ImageInv, Corresponding, ImagesComeFromPublic
<1>3. CASE RunEnds
  <2>1. UNCHANGED calls /\ Runs' = Runs
    BY <1>3 DEF RunEnds, Repair, Runs
  <2>2. CASE UNCHANGED paths /\ stage' = "done"
    BY <1>1, <2>1, <2>2, ImagesKept
  <2>3. CASE paths' = <<>> /\ stage' = "images"
    <3>1. Len(ask.images) \in Nat
      BY AskIsTyped DEF Inv, PathTypeOK
    <3> QED
      BY <1>1, <2>1, <2>3, <3>1
      DEF ImageInv, Corresponding, ImagesComeFromPublic, EveryRunSeesAllImages, Range
  <2> QED
    BY <1>3, <2>2, <2>3 DEF RunEnds, Repair, Answer, Goto
<1> QED
  BY <1>2, <1>3

-----------------------------------------------------------------------------
(* Fetches                                                                 *)

LEMMA TimesOneMore ==
    ASSUME NEW a \in Nat, NEW m \in Nat
    PROVE  (a + 1) * m = a * m + m /\ a * m \in Nat
OBVIOUS

LEMMA TimesKeepsOrder ==
    ASSUME NEW a \in Nat, NEW b \in Nat, a <= b, NEW m \in Nat
    PROVE  a * m <= b * m
OBVIOUS

(* One image more is worth the requests of all its hops, and in one run no *)
(* more than all images can be written.                                    *)
LEMMA BudgetGrows ==
    ASSUME RequestPathAssumption, PathTypeOK
    PROVE  /\ \A n \in Nat : Budget(n) \in Nat
           /\ \A n \in Nat : Budget(n + 1) = Budget(n) + (MaxRedirects + 1)
           /\ \A n \in 0..Len(ask.images) : Budget(n) <= Budget(Len(ask.images))
           /\ Budget(Len(ask.images)) = attempt * Len(ask.images) * (MaxRedirects + 1)
           /\ Len(ask.images) \in Nat /\ Len(paths) \in Nat
<1>1. Len(ask.images) \in Nat /\ Len(paths) \in Nat
  BY AskIsTyped DEF PathTypeOK
<1>2. MaxRedirects + 1 \in Nat /\ attempt \in {1, 2}
  BY DEF PathTypeOK, RequestPathAssumption
<1> DEFINE m == MaxRedirects + 1
           L == Len(ask.images)
           done == (attempt - 1) * L
<1>3. done \in Nat /\ done + L = attempt * L
  <2>1. CASE attempt = 1
    BY <1>1, <2>1
  <2>2. CASE attempt = 2
    BY <1>1, <2>2
  <2> QED
    BY <1>2, <2>1, <2>2
<1> SUFFICES /\ \A n \in Nat : (done + n) * m \in Nat
             /\ \A n \in Nat : (done + (n + 1)) * m = (done + n) * m + m
             /\ \A n \in 0..L : (done + n) * m <= (done + L) * m
  BY <1>1, <1>3 DEF Budget
<1>4. m \in Nat /\ L \in Nat
  BY <1>1, <1>2
<1> HIDE DEF m, L, done
<1>5. ASSUME NEW n \in Nat
      PROVE  (done + n) * m \in Nat /\ (done + (n + 1)) * m = (done + n) * m + m
  <2>1. done + n \in Nat /\ done + (n + 1) = (done + n) + 1
    BY <1>3, <1>5
  <2> QED
    BY <1>4, <2>1, TimesOneMore
<1>6. ASSUME NEW n \in 0..L
      PROVE  (done + n) * m <= (done + L) * m
  <2>1. done + n \in Nat /\ done + L \in Nat /\ done + n <= done + L
    BY <1>3, <1>4, <1>6
  <2> QED
    BY <1>4, <2>1, TimesKeepsOrder
<1> QED
  BY <1>5, <1>6

LEMMA InitFetches ==
    ASSUME RequestPathAssumption, Init
    PROVE  FetchInv
<1>1. PathTypeOK
  BY InitTypes
<1>2. gets = 0 /\ Len(paths) = 0 /\ stage = "gateway"
  BY DEF Init
<1> QED
  BY <1>1, <1>2, BudgetGrows DEF FetchInv, FetchesBounded

(* A step that sends no request and stays with its image, or ends.         *)
LEMMA NothingFetched ==
    ASSUME RequestPathAssumption, Inv, UNCHANGED <<ask, attempt, paths, gets>>,
           stage' \in {"gateway", "sidecar", "images"} =>
                stage \in {"gateway", "sidecar", "images"},
           stage' \in {"resolve", "get"} =>
                \/ stage \in {"resolve", "get"} /\ UNCHANGED hop
                \/ stage = "images" /\ hop' = 0
    PROVE  FetchInv'
<1>1. Budget(Len(paths))' = Budget(Len(paths))
  BY DEF Budget
<1>2. FetchInv /\ gets \in Nat /\ (stage = "images" => gets <= Budget(Len(paths)))
  BY DEF Inv, FetchInv, PathTypeOK
<1>3. FetchesBounded'
  BY <1>2 DEF FetchInv, FetchesBounded
<1>4. stage' \in {"resolve", "get"} => gets' <= Budget(Len(paths))' + hop'
  <2>1. CASE stage = "images" /\ hop' = 0
    <3>1. Budget(Len(paths)) \in Nat
      BY BudgetGrows DEF Inv
    <3> QED
      BY <1>1, <1>2, <2>1, <3>1
  <2>2. CASE stage \in {"resolve", "get"} /\ UNCHANGED hop
    BY <1>1, <1>2, <2>2 DEF FetchInv
  <2> QED
    BY <2>1, <2>2
<1> QED
  BY <1>1, <1>2, <1>3, <1>4 DEF FetchInv

(* An image that was in the request costs nothing.                         *)
LEMMA WrittenFetches ==
    ASSUME RequestPathAssumption, Inv, UNCHANGED <<ask, attempt, gets>>,
           stage = "images", Len(paths) < Len(ask.images),
           stage' = "images", Len(paths') = Len(paths) + 1
    PROVE  FetchInv'
<1>1. /\ Budget(Len(paths) + 1) = Budget(Len(paths)) + (MaxRedirects + 1)
      /\ Budget(Len(paths)) \in Nat /\ MaxRedirects \in Nat
  BY BudgetGrows DEF Inv, RequestPathAssumption
<1>2. gets \in Nat /\ gets <= Budget(Len(paths))
  BY DEF Inv, PathTypeOK, FetchInv
<1>3. gets <= Budget(Len(paths) + 1)
  BY <1>1, <1>2
<1>4. Budget(Len(paths) + 1) = Budget(Len(paths))'
  BY DEF Budget
<1>5. FetchesBounded'
  BY DEF Inv, FetchInv, FetchesBounded
<1> QED
  BY <1>3, <1>4, <1>5 DEF FetchInv

LEMMA GetFetches ==
    ASSUME RequestPathAssumption, Inv, Get
    PROVE  FetchInv'
<1>1. /\ stage = "get" /\ Len(paths) < Len(ask.images)
      /\ gets \in Nat /\ gets <= Budget(Len(paths)) + hop
      /\ gets' = gets + 1 /\ UNCHANGED <<ask, attempt>>
      /\ hop \in 0..MaxRedirects /\ MaxRedirects \in Nat
  BY DEF Inv, PathTypeOK, FetchInv, ImageInv, Get, RequestPathAssumption
<1>2. /\ Budget(Len(paths)) \in Nat
      /\ Budget(Len(paths) + 1) = Budget(Len(paths)) + (MaxRedirects + 1)
      /\ Budget(Len(paths) + 1) <= Budget(Len(ask.images))
      /\ Budget(Len(ask.images)) = attempt * Len(ask.images) * (MaxRedirects + 1)
      /\ Budget(Len(ask.images)) \in Nat
  <2>1. Len(paths) \in Nat /\ Len(ask.images) \in Nat
    BY BudgetGrows DEF Inv
  <2>2. Len(paths) + 1 \in 0..Len(ask.images)
    BY <1>1, <2>1
  <2> QED
    BY <2>1, <2>2, BudgetGrows DEF Inv
<1>3. /\ gets' <= Budget(Len(paths)) + hop + 1
      /\ gets' <= Budget(Len(paths) + 1)
      /\ gets' <= Budget(Len(ask.images))
  BY <1>1, <1>2
<1>4. FetchesBounded'
  BY <1>1, <1>2, <1>3 DEF FetchesBounded
<1>5. CASE stage' = "done"
  BY <1>4, <1>5 DEF FetchInv
<1>6. CASE stage' = "resolve" /\ hop' = hop + 1 /\ UNCHANGED paths
  <2>1. Budget(Len(paths))' = Budget(Len(paths))
    BY <1>1, <1>6 DEF Budget
  <2>2. gets' <= Budget(Len(paths))' + hop'
    BY <1>1, <1>2, <1>3, <1>6, <2>1
  <2> QED
    BY <1>4, <1>6, <2>2 DEF FetchInv
<1>7. CASE \E from \in Addresses : Written(from)
  <2>1. PICK from \in Addresses : Written(from)
    BY <1>7
  <2>2. paths \in Seq(Addresses \cup {"data"}) /\ paths' = Append(paths, from)
    BY <2>1 DEF Inv, PathTypeOK, Written
  <2>3. Len(paths') = Len(paths) + 1 /\ stage' = "images"
    BY <2>1, <2>2 DEF Written, Goto
  <2>4. Budget(Len(paths))' = Budget(Len(paths) + 1)
    BY <1>1, <2>3 DEF Budget
  <2> QED
    BY <1>3, <1>4, <2>3, <2>4 DEF FetchInv
<1>8. target[1] \in Addresses
  <2>1. target \in Seq(Addresses) /\ target # <<>>
    BY <1>1 DEF Inv, PathTypeOK
  <2> QED
    BY <2>1, FirstIsInRange
<1> QED
  BY <1>5, <1>6, <1>7, <1>8 DEF Get, Final, Redirect, Answer, Goto

LEMMA RepairFetches ==
    ASSUME RequestPathAssumption, Inv, Repair, attempt = 1, UNCHANGED <<ask, gets>>
    PROVE  FetchInv'
<1> DEFINE L == Len(ask.images)
           m == MaxRedirects + 1
<1>1. attempt' = 2 /\ paths' = <<>> /\ stage' = "images"
  BY DEF Repair, Goto
<1>2. /\ L \in Nat /\ m \in Nat /\ gets \in Nat
      /\ gets <= 1 * L * m
  <2>1. L \in Nat
    BY BudgetGrows DEF Inv
  <2>2. gets \in Nat /\ m \in Nat
    BY DEF Inv, PathTypeOK, RequestPathAssumption
  <2>3. gets <= attempt * L * m
    BY DEF Inv, FetchInv, FetchesBounded
  <2> QED
    BY <2>1, <2>2, <2>3
<1>3. /\ Budget(Len(paths))' = ((2 - 1) * L + 0) * m
      /\ (attempt * Len(ask.images) * (MaxRedirects + 1))' = 2 * L * m
  BY <1>1 DEF Budget
<1> HIDE DEF L, m
<1>4. gets <= L * m
  BY <1>2
<1>5. ((2 - 1) * L + 0) * m = L * m
  BY <1>2
<1>6. L * m <= 2 * L * m /\ L * m \in Nat /\ 2 * L * m \in Nat
  <2>1. 2 * L = L + L /\ L + L \in Nat /\ L <= L + L
    BY <1>2
  <2> QED
    BY <1>2, <2>1, TimesKeepsOrder, TimesOneMore
<1>7. FetchesBounded'
  BY <1>2, <1>3, <1>4, <1>6 DEF FetchesBounded
<1> QED
  BY <1>1, <1>3, <1>4, <1>5, <1>7 DEF FetchInv

LEMMA StepFetches ==
    ASSUME RequestPathAssumption, Inv, Next
    PROVE  FetchInv'
<1>1. CASE Reject \/ RouteToOpenAI \/ RouteToCodex \/ RouteCandidate \/ FallBack \/ Check
  <2>1. /\ UNCHANGED <<ask, attempt, paths, gets>>
        /\ stage' \in {"sidecar", "images"} => stage \in {"gateway", "sidecar"}
        /\ stage' \in {"sidecar", "images", "done"}
    BY <1>1 DEF Reject, RouteToOpenAI, RouteToCodex, RouteCandidate, FallBack, Check,
       Answer, Goto, fetch, history
  <2> QED
    BY <2>1, NothingFetched
<1>2. CASE NextImage
  <2>1. /\ stage = "images" /\ Len(paths) < Len(ask.images)
        /\ UNCHANGED <<ask, attempt, gets>>
    BY <1>2 DEF NextImage, history
  <2>2. CASE Written("data")
    <3>1. paths \in Seq(Addresses \cup {"data"}) /\ paths' = Append(paths, "data")
      BY <2>2 DEF Inv, PathTypeOK, Written
    <3>2. Len(paths') = Len(paths) + 1 /\ stage' = "images"
      BY <2>2, <3>1 DEF Written, Goto
    <3> QED
      BY <2>1, <3>2, WrittenFetches
  <2>3. CASE UNCHANGED paths /\ (stage' = "done" \/ (stage' = "resolve" /\ hop' = 0))
    BY <2>1, <2>3, NothingFetched
  <2> QED
    BY <1>2, <2>2, <2>3 DEF NextImage, Answer, Goto
<1>3. CASE Validate
  <2>1. /\ stage = "resolve" /\ stage' \in {"get", "done"}
        /\ UNCHANGED <<ask, attempt, paths, gets, hop>>
    BY <1>3 DEF Validate, Answer, Goto, history
  <2> QED
    BY <2>1, NothingFetched
<1>4. CASE Get
  BY <1>4, GetFetches
<1>5. CASE Start
  <2>1. UNCHANGED <<ask, attempt, paths, gets>> /\ stage' \in {"run", "done"}
    BY <1>5 DEF Start, Answer, Goto, fetch
  <2> QED
    BY <2>1, NothingFetched
<1>6. CASE RunEnds
  <2>1. UNCHANGED <<ask, gets>>
    BY <1>6 DEF RunEnds
  <2>2. CASE stage' = "done" /\ UNCHANGED <<attempt, paths>>
    BY <2>1, <2>2, NothingFetched
  <2>3. CASE attempt = 1 /\ Repair
    BY <2>1, <2>3, RepairFetches
  <2> QED
    BY <1>6, <2>2, <2>3 DEF RunEnds, Answer
<1> QED
  BY <1>1, <1>2, <1>3, <1>4, <1>5, <1>6 DEF Next

-----------------------------------------------------------------------------
(* The invariant                                                           *)

LEMMA GetTypes ==
    ASSUME RequestPathAssumption, Inv, Get
    PROVE  PathTypeOK'
<1>1. /\ PathTypeOK /\ stage = "get"
      /\ target \in Seq(Addresses) /\ target # <<>> /\ target[1] \in Addresses
      /\ Len(paths) < Len(ask.images) /\ Len(ask.images) <= MaxImageInputs
  BY FirstIsInRange DEF Inv, PathTypeOK, ImageInv, Get
<1>2. /\ UNCHANGED <<settings, ask, model, effort, attempt, calls>>
      /\ gets' \in Nat /\ contacted' \subseteq Addresses
  BY <1>1 DEF PathTypeOK, Get
<1>3. CASE UNCHANGED <<paths, fetch>> /\ stage' = "done" /\ reply' \in Replies
  BY <1>1, <1>2, <1>3 DEF PathTypeOK, fetch
<1>4. CASE Redirect /\ UNCHANGED paths
  <2>1. /\ hop' \in 0..MaxRedirects /\ url' \in Urls \cup {"none"}
        /\ target' \in Seq(Addresses)
        /\ stage' \in {"done", "resolve"} /\ reply' \in Replies
    <3>1. CASE stage' = "done" /\ UNCHANGED fetch
      BY <1>1, <1>4, <3>1 DEF PathTypeOK, Redirect, Answer, Goto, Replies, fetch
    <3>2. CASE /\ hop < MaxRedirects /\ hop' = hop + 1
               /\ url' \in Urls /\ target' = <<>> /\ Goto("resolve")
      BY <1>1, <3>2 DEF PathTypeOK, Goto, RequestPathAssumption
    <3> QED
      BY <1>4, <3>1, <3>2 DEF Redirect, Answer
  <2> QED
    BY <1>1, <1>2, <1>4, <2>1 DEF PathTypeOK
<1>5. CASE \E from \in Addresses : Written(from) /\ UNCHANGED fetch
  BY <1>1, <1>2, <1>5, WrittenTypes DEF PathTypeOK, fetch
<1>6. ASSUME NEW peer \in Addresses \cup {"untold"}
      PROVE  (IF peer = "untold" THEN target[1] ELSE peer) \in Addresses
  BY <1>1
<1> QED
  BY <1>3, <1>4, <1>5, <1>6 DEF Get, Final, Answer, Replies

LEMMA InitInv ==
    ASSUME RequestPathAssumption, Init
    PROVE  Inv
BY InitTypes, InitRoute, InitImages, InitFetches DEF Inv

LEMMA StepRoute ==
    ASSUME RequestPathAssumption, Inv, Next
    PROVE  RouteInv'
<1>1. CASE Reject \/ RouteToOpenAI \/ RouteToCodex \/ RouteCandidate
  BY <1>1, GatewayRoute
<1>2. CASE FallBack
  BY <1>2, FallBackRoute
<1>3. CASE Start
  BY <1>3, StartRoute
<1>4. CASE Check \/ NextImage \/ Validate \/ Get \/ RunEnds
  <2>1. /\ stage \in AtSidecar /\ stage' # "gateway"
        /\ UNCHANGED <<settings, ask, model, effort, calls>>
    BY <1>4 DEF Check, NextImage, Validate, Get, RunEnds, Repair, Final, Redirect,
       Written, Answer, Goto, AtSidecar, history
  <2>2. reply' = reply \/ reply' # "invalid_reasoning_effort"
    BY <1>4 DEF Check, NextImage, Validate, Get, RunEnds, Repair, Final, Redirect,
       Written, Answer, Goto
  <2> QED
    BY <2>1, <2>2, SidecarRoute
<1> QED
  BY <1>1, <1>2, <1>3, <1>4 DEF Next

LEMMA StepInv ==
    ASSUME RequestPathAssumption, Inv, [Next]_vars
    PROVE  Inv'
<1>1. CASE Next
  <2>1. PathTypeOK'
    BY <1>1, GatewayTypes, SidecarTypes, GetTypes DEF Next
  <2>2. RouteInv'
    BY <1>1, StepRoute
  <2>3. ImageInv'
    BY <1>1, GatewayImages, NextImageImages, ValidateImages, GetImages, RunImages
    DEF Next
  <2>4. FetchInv'
    BY <1>1, StepFetches
  <2> QED
    BY <2>1, <2>2, <2>3, <2>4 DEF Inv
<1>2. CASE UNCHANGED vars
  <2> USE <1>2 DEF vars, fetch, history, Inv
  <2>1. PathTypeOK'
    BY DEF PathTypeOK
  <2>2. RouteInv'
    BY RouteKept DEF Admitted, Runs, RouteInv, EffortKept, BeforeRouting,
       CalledModelsListed, AliasesIntroduceNothing
  <2>3. ImageInv'
    BY ImagesKept DEF Runs, ImageInv
  <2>4. FetchInv'
    BY DEF FetchInv, Budget, FetchesBounded
  <2> QED
    BY <2>1, <2>2, <2>3, <2>4
<1> QED
  BY <1>1, <1>2

LEMMA Invariance == Spec => []Inv
<1>1. Init => Inv
  BY InitInv, RequestPathAssumption
<1>2. Inv /\ [Next]_vars => Inv'
  BY StepInv, RequestPathAssumption
<1> QED
  BY <1>1, <1>2, PTL DEF Spec

-----------------------------------------------------------------------------

(* Type correctness, for any settings, requests and addresses.             *)
THEOREM PathTypeCorrect == Spec => []PathTypeOK
<1>1. Inv => PathTypeOK
  BY DEF Inv
<1> QED
  BY <1>1, Invariance, PTL

(* However names resolve at each hop of each run, wherever servers         *)
(* redirect to and whichever peer answers, requests go to public addresses *)
(* only and no image comes from anywhere else (fetch_outbound()).          *)
THEOREM NoPrivateFetch == Spec => []ImagesComeFromPublic
<1>1. Inv => ImagesComeFromPublic
  BY DEF Inv, ImageInv
<1> QED
  BY <1>1, Invariance, PTL

(* One completion never sends more requests than its runs, images and hops *)
(* allow, whatever the budgets.                                            *)
THEOREM FetchesAreBounded == Spec => []FetchesBounded
<1>1. Inv => FetchesBounded
  BY DEF Inv, FetchInv
<1> QED
  BY <1>1, Invariance, PTL

(* Every run of the CLI gets all images of the request, in their order,    *)
(* the repair run too (_materialize_image_inputs()).                       *)
THEOREM NoRunWithoutImages == Spec => []EveryRunSeesAllImages
<1>1. Inv => EveryRunSeesAllImages
  BY DEF Inv, ImageInv
<1> QED
  BY <1>1, Invariance, PTL

(* The caller's effort reaches every provider as it was given, and what    *)
(* the gateway lets pass the sidecar does not refuse.                      *)
THEOREM EffortReachesProviders == Spec => []EffortKept
<1>1. Inv => EffortKept
  BY DEF Inv, RouteInv
<1> QED
  BY <1>1, Invariance, PTL

(* A completion runs no Luna but the configured one, whatever the aliases, *)
(* unless a target is written with blanks (Settings.from_env()).           *)
THEOREM OnlyConfiguredLuna == Spec => []LunaAsConfigured
<1>1. ASSUME Inv
      PROVE  LunaAsConfigured
  <2> SUFFICES ASSUME NEW c \in Runs, c.model.base \in Lunas,
                      ask.kind = "completion", model.written # "padded"
               PROVE  c.model.base = LunaAutoModel
    BY DEF LunaAsConfigured
  <2>1. c.model = Strip(model) /\ Accepted(settings) /\ model \in Range(settings.aliases)
    BY <1>1 DEF Inv, RouteInv, Admitted
  <2>2. c.model.base = model.base
    BY <1>1, <2>1, StripOnce DEF Inv, PathTypeOK
  <2> QED
    BY <2>1, <2>2 DEF Accepted, LooksLikeLuna
<1> QED
  BY <1>1, Invariance, PTL

(* If the targets of the aliases are on the allowlist, no provider is ever *)
(* called with a model that is not (normalize_payload()).                  *)
THEOREM OnlyListedModels == Spec => []CalledModelsListed
<1>1. Inv => CalledModelsListed
  BY DEF Inv, RouteInv
<1> QED
  BY <1>1, Invariance, PTL
=============================================================================

------------------------------ MODULE MCRouting ------------------------------
(***************************************************************************)
(* From the providers' catalogs to the provider a request is sent to, on   *)
(* small instances: catalog synchronisation, provider listings, catalog    *)
(* rows, provider plans, automatic routing, glob patterns and gateway      *)
(* attestation.  They share no state, so a behaviour runs one of them,     *)
(* with the others parked in one initial state; an invariant that only     *)
(* reads one part is evaluated where that part runs.                       *)
(***************************************************************************)
EXTENDS CatalogSync, ProviderListings, Catalog, RoutingPlan, AutoRouting, Glob, Gateway

CONSTANTS x1, x2, x3, y1, y2

\* Automatic requests are alike, and so are the callers of a sync and the
\* clients of the gateway.
RoutingSymmetry == Permutations({x1, x2, x3}) \cup Permutations({y1, y2})

\* Catalog rows: one model in three privacy classes, one of them stored under
\* an id from before the provider's move.
Info(p, t, c, k, pub, ns, x, f) ==
    [provider |-> p, type |-> t, privacy |-> c, canonical |-> k, public |-> pub, ns |-> ns, external |-> x, fixture |-> f]
MCRowInfo == <<Info("venice", "text", "e2ee", "m", "venice/m", "venice", "m-e2ee", FALSE),
               Info("near-ai", "text", "anonymous", "other/m", "other/m", "other", "m", FALSE),
               Info("near-ai", "text", "tee", "m", "near-ai/m", "near-ai", "n", FALSE)>>
MCIdNs == [i \in ModelIds |-> IF i = "near-ai/m" THEN "near-ai" ELSE "m"]
MCGoverned == [p \in {"venice"} |-> "e2ee"]
MCCeiling == [in |-> 3, out |-> 3, unit |-> 3]

\* Plans: five routes; policies in every form, with floors, orders and caps.
Route(p, c, i, o, x, l) ==
    [provider |-> p, type |-> "text", privacy |-> c, in |-> i, out |-> o, unit |-> 0, priced |-> TRUE,
     features |-> {"stream"}, maxOut |-> 2, context |-> x, latency |-> l, tps |-> 1]
MCRouteInfo == <<Route("venice", "tee", 2, 2, 3, 1), Route("near-ai", "tee", 2, 2, 3, 1),
                 Route("deepinfra/turbo", "private", 1, 1, 9, 2), Route("fireworks", "anonymous", 1, 0, 9, 1),
                 Route("venice", "e2ee", 3, 3, 9, 3)>>
AutoInput == [form |-> "auto", order |-> <<>>, only |-> {}, ignore |-> {}, fallbacks |-> TRUE, sort |-> "privacy", floor |-> "none",
              maxIn |-> Unbounded, maxOut |-> Unbounded, params |-> FALSE, attempts |-> MaxProviderAttempts]
Obj == [AutoInput EXCEPT !.form = "object"]
MCInputs ==
    {AutoInput, [AutoInput EXCEPT !.form = "pin", !.order = <<"other">>], [AutoInput EXCEPT !.form = "pin", !.order = <<"near-ai">>]}
    \cup {[Obj EXCEPT !.sort = s, !.floor = f, !.fallbacks = b, !.order = o] :
             s \in {"privacy", "price", "latency"}, f \in {"none", "anonymous", "private"}, b \in BOOLEAN,
             o \in {<<>>, <<"deepinfra", "venice">>}}
    \cup {[Obj EXCEPT !.only = {{"venice", "deepinfra"}}, !.ignore = {"fireworks"}, !.maxIn = 1],
          [Obj EXCEPT !.only = {{"venice"}}, !.order = <<"other">>], [Obj EXCEPT !.params = TRUE, !.attempts = 2]}
MCWorkspaces ==
    {AutoInput, [AutoInput EXCEPT !.sort = "price"], [AutoInput EXCEPT !.only = {{"venice", "other"}}, !.attempts = 1],
     [AutoInput EXCEPT !.floor = "private", !.ignore = {"other"}, !.maxOut = 1], [AutoInput EXCEPT !.fallbacks = FALSE]}
MCFacts ==
    {[operation |-> "chat", e2ee |-> e, needs |-> {"stream", "reasoning"}, output |-> 1, ceiling |-> c] :
        e \in BOOLEAN, c \in {1, 4}}

\* Automatic routing: four rows, one of them the mock provider's.
ARow(p, id, c, pc, fs, ts, x, tier, u, price) ==
    [provider |-> p, pub |-> id, privacy |-> c, providerPrivacy |-> pc, enabled |-> TRUE, features |-> fs, tasks |-> ts,
     maxOut |-> 2, context |-> x, in |-> price, out |-> price, tier |-> tier, uncensored |-> u, latency |-> 1]
AllTasks == {"general", "coding", "research"}
MCAutoInfo == <<ARow("venice", "m1", "private", "private", {"tools", "web"}, AllTasks, 9, 4, FALSE, 2),
                ARow("deepinfra", "m2", "private", "private", {}, {"coding"}, 9, 4, FALSE, 1),
                ARow("venice", "m3", "e2ee", "private", {}, {"general"}, 3, 1, TRUE, 1),
                ARow("mock", "m0", "private", "private", {}, AllTasks, 9, 5, FALSE, 1)>>
MCMatchedNames == [p \in {"venice/*", "m2"} |-> IF p = "m2" THEN {<<"m2">>} ELSE {<<"venice", "m1">>, <<"venice", "m3">>}]
ABody == [pattern |-> {}, allow |-> {}, exclude |-> {}, privacy |-> {}, strategy |-> {},
          text |-> [explicit |-> {}, web |-> FALSE, sensitive |-> FALSE, high |-> FALSE],
          needs |-> {}, input |-> 1, maxOut |-> {}, maxCost |-> {}]
MCAutoBodies ==
    {[ABody EXCEPT !.pattern = {"venice/*"}, !.strategy = {"cost"}, !.text.explicit = {"coding"}, !.needs = {"tools"}, !.maxOut = {2}],
     [ABody EXCEPT !.exclude = {{"m2"}}, !.maxCost = {4}]}
MCPreferences == {[mode |-> "exclude", patterns |-> {"m2"}, strategy |-> "quality", level |-> "balanced"]}
MCVotes == {[task |-> "general", sure |-> FALSE, complexity |-> "high"]}
MCListings == {AutoRows \ {1}}

\* The gateway: a reviewed build, and a stray one that shows the reviewed manifest.
GBuild(h, cl) ==
    [app |-> "app", compose |-> h, release |-> "r1", claims |-> cl, debug |-> FALSE,
     manifest |-> [parses |-> TRUE, hash |-> cl, publicLogs |-> "false", images |-> {[pinned |-> TRUE]}]]
MCBuilds == {GBuild("reviewed", "reviewed"), GBuild("stray", "reviewed")}
MCGatewayPolicy == [apps |-> {"app"}, composes |-> {"reviewed"}, releases |-> {"r1"}, origins |-> {"api", "alias"},
                    keyProvider |-> {}, platforms |-> {}, inTeeTls |-> TRUE, privateLogs |-> TRUE, digests |-> TRUE, hardware |-> TRUE]
MCOrigins == <<"api", "alias">>
MCConnections == {[origin |-> "api", host |-> "elsewhere", sees |-> TRUE], [origin |-> "alias", host |-> "alias", sees |-> TRUE]}

\* Listings: for each provider its reviewed or approved entries and their drifts.
NearEntry(i, o, ps) ==
    [id |-> i, owner |-> o, context |-> 4, maxOut |-> 2, inputs |-> {"text"}, outputs |-> {"text"}, features |-> {"tools"},
     params |-> ps, in |-> 4, out |-> 8, read |-> 1, write |-> 0, long |-> FALSE, threshold |-> 0, ready |-> TRUE]
Claude == NearEntry("claude", "anthropic", {"max_tokens", "stop"})
Gpt == [NearEntry("gpt", "openai", {"max_tokens", "stop", "temperature", "seed"}) EXCEPT !.long = TRUE, !.threshold = 2, !.write = 5]
Gemini == NearEntry("gemini-pro", "google", {"max_tokens", "stop", "temperature", "top_p"})
Glm == [NearEntry("glm", "nearai", {}) EXCEPT !.maxOut = 0]
NearDrifts(e) ==
    {e, [e EXCEPT !.ready = FALSE], [e EXCEPT !.params = {"max_tokens"}], [e EXCEPT !.owner = "nearai"], [e EXCEPT !.owner = "openai"],
     [e EXCEPT !.long = TRUE, !.threshold = 0], [e EXCEPT !.context = 0], [e EXCEPT !.maxOut = 0], [e EXCEPT !.in = 0],
     [e EXCEPT !.inputs = {"text", "image"}], [e EXCEPT !.inputs = {"audio"}], [e EXCEPT !.outputs = {"text", "image"}]}
MCRelayRoutes == [i \in {"claude", "gpt", "gemini-pro"} |->
    CASE i = "claude" -> [owner |-> "anthropic", family |-> "anthropic"] [] i = "gpt" -> [owner |-> "openai", family |-> "openai"]
      [] OTHER -> [owner |-> "google", family |-> "google"]]
MCNearReviewed == [i \in {"claude", "gpt", "gemini-pro"} |-> CASE i = "claude" -> Claude [] i = "gpt" -> Gpt [] OTHER -> Gemini]
MCNearApproved == [i \in {"glm"} |-> "direct-tee"]
DeepEntry(i, p, tags) ==
    [id |-> i, partner |-> p, kind |-> "text-generation", tags |-> tags, priceType |-> "tokens", in |-> 2, out |-> 4, cached |-> 5,
     context |-> 9, maxOut |-> 0, deprecated |-> FALSE]
Qwen == DeepEntry("qwen", "no", {"openai", "tools", "can-disable-reasoning"})
DeepClaude == DeepEntry("claude", "yes", {"openai", "multimodal"})
DeepDrifts(e) ==
    {[e EXCEPT !.partner = p, !.maxOut = x, !.deprecated = d] : p \in {"yes", "no", "missing"}, x \in {0, 2, 3}, d \in BOOLEAN}
    \cup {[e EXCEPT !.in = JsonNull], [e EXCEPT !.context = 0], [e EXCEPT !.tags = {"openai"}], [e EXCEPT !.tags = {"tools"}],
          [e EXCEPT !.kind = "embeddings"], [e EXCEPT !.priceType = "time"]}
MCDeepReviewed == [i \in {"qwen", "claude"} |-> [entry |-> IF i = "qwen" THEN Qwen ELSE DeepClaude, maxOut |-> 3]]
PhalaEntries ==
    [id : {"glm", "gemma"}, upstreams : {{"phala"}, {"phala", "chutes"}, {"chutes"}}, context : {0, 9}, maxOut : {0, 2}, features : {{"reasoning"}},
     params : {{}, {"reasoning"}}, inputs : {{"text"}}, in : {JsonNull, 1}, out : {1}, read : {0}]
MCPhalaHolds == [i \in {"glm", "gemma"} |-> i = "gemma"]
ChutesEntries ==
    [id : {"llm", "embed"}, confidential : BOOLEAN, context : {0, 9}, maxOut : {0, 2}, features : {{}, {"reasoning"}}, inputs : {{"text"}},
     in : {0, 1}, out : {0, 1}, read : {1}]
MCChutesApproved == [i \in {"llm", "embed"} |-> [embedding |-> i = "embed", context |-> 5, disable |-> TRUE]]
MCTinfoilApproved == [i \in {"pro", "flash"} |-> [embedding |-> FALSE, context |-> 9, caps |-> {"tools"}, disable |-> FALSE,
                                                 in |-> IF i = "pro" THEN 2 ELSE Absent, out |-> IF i = "pro" THEN 5 ELSE Absent]]
MCFireworksApproved == [i \in {"kimi"} |-> [in |-> 3, out |-> 15, read |-> 1]]
MCBedrockApproved == [i \in {"oss"} |-> [context |-> 9, maxOut |-> 4, in |-> 1, out |-> 1, caps |-> {}]]
VeniceEntries ==
    LET E == [id |-> "v", type |-> "text", caps |-> {"reasoning", "effort"}, efforts |-> {"low", "none"}, e2ee |-> FALSE, tee |-> FALSE,
              privacy |-> "private", in |-> 1, out |-> 2, read |-> 1, write |-> Absent, units |-> {}, offline |-> FALSE,
              available |-> 9, length |-> 5, maxInput |-> Absent, maxOut |-> 4]
    IN {[E EXCEPT !.e2ee = x, !.tee = t, !.privacy = c, !.in = v] :
            x \in BOOLEAN, t \in BOOLEAN, c \in {"private", "anonymized", "other"}, v \in {Absent, JsonNull, 1}}
       \cup {[E EXCEPT !.type = t, !.units = u, !.maxInput = 5] :
                t \in {"embedding", "image", "inpaint", "tts", "asr"}, u \in {{}, {0, 3}, {3, 4}}}
       \cup {[E EXCEPT !.available = x, !.offline = o] : x \in {Absent, JsonNull}, o \in BOOLEAN}
Single(S) == {<<e>> : e \in S}
MCPublished ==
    [p \in {"near-ai", "deepinfra", "phala-ai", "chutes", "tinfoil", "fireworks", "aws-bedrock", "venice"} |->
        CASE p = "near-ai" -> Single(UNION {NearDrifts(e) : e \in {Claude, Gpt, Gemini, Glm}})
                              \cup {<<d, e>> : d \in NearDrifts(Claude), e \in {Claude, Gpt, Glm}} \cup {<<Glm, [Glm EXCEPT !.context = 9]>>}
          [] p = "deepinfra" -> Single(DeepDrifts(Qwen) \cup DeepDrifts(DeepClaude) \cup {DeepEntry("new", "no", {"openai"})})
          [] p = "phala-ai" -> Single(PhalaEntries)
          [] p = "chutes" -> Single(ChutesEntries)
          [] p = "tinfoil" -> Single([id : {"pro", "flash", "other"}, in : {JsonNull, 1}, out : {Absent, 1}, read : {0}])
          [] p = "fireworks" -> Single([id : {"kimi", "other"}, context : {0, 9}, serverless : BOOLEAN, status : {"OK", "FAILED"},
                                        deprecated : BOOLEAN, tools : {TRUE}, image : BOOLEAN])
          [] p = "aws-bedrock" -> Single([id : {"oss", "other"}, status : {"available", "gone"}, mode : {"none", "default"},
                                          inner : {{}, {{"none"}}, {{"default"}}}, allowed : {{"none"}, {"default"}}])
          [] OTHER -> Single(VeniceEntries)]

VARIABLE part  \* the part that runs

Init ==
    /\ part \in {"sync", "listing", "catalog", "plan", "auto", "glob", "gateway"}
    /\ AutoInit
    /\ CatalogInit /\ controlHold = {"phala-ai"} /\ managed \in {{}, Providers}
    /\ (part # "catalog" => ~enforced /\ managed = {}) /\ (enforced <=> managed = Providers)
    /\ SyncInit /\ (part # "sync" => served = CHOOSE s \in SyncPools : TRUE)
    /\ ListingInit /\ (part # "listing" => source = "venice")
    /\ IF part = "plan" THEN PlanInit
       ELSE asked = [input |-> AutoInput, workspace |-> AutoInput, facts |-> CHOOSE f \in MCFacts : TRUE] /\ PlanInit
    /\ IF part = "glob" THEN GlobInit ELSE glob = <<>> /\ globText = <<>> /\ GlobInit
    /\ GatewayInit /\ (part # "gateway" => build = CHOOSE b \in Builds : TRUE)

parts == <<part, syncVars, listingVars, catalogVars, planVars, autoVars, globVars, gatewayVars>>

RunSync == part = "sync" /\ SyncNext /\ UNCHANGED <<part, listingVars, catalogVars, planVars, autoVars, globVars, gatewayVars>>
RunListing == part = "listing" /\ ListingNext /\ UNCHANGED <<part, syncVars, catalogVars, planVars, autoVars, globVars, gatewayVars>>
RunCatalog == part = "catalog" /\ CatalogNext /\ UNCHANGED <<part, listingVars, syncVars, planVars, autoVars, globVars, gatewayVars>>
RunPlan == part = "plan" /\ PlanNext /\ UNCHANGED <<part, listingVars, syncVars, catalogVars, autoVars, globVars, gatewayVars>>
RunAuto == part = "auto" /\ AutoNext /\ UNCHANGED <<part, listingVars, syncVars, catalogVars, planVars, globVars, gatewayVars>>
RunGlob == part = "glob" /\ GlobNext /\ UNCHANGED <<part, listingVars, syncVars, catalogVars, planVars, autoVars, gatewayVars>>
RunGateway == part = "gateway" /\ GatewayNext /\ UNCHANGED <<part, listingVars, syncVars, catalogVars, planVars, autoVars, globVars>>

Next == RunSync \/ RunListing \/ RunCatalog \/ RunPlan \/ RunAuto \/ RunGlob \/ RunGateway

Spec == Init /\ [][Next]_parts

\* What the catalog serves and offers to Auto, evaluated where it moves.
CatalogServesSoundly == part = "catalog" => ServedIsSound /\ AutoOffersAreAllowed

\* What becomes of a provider's listing and of a request relayed on it.
ListingIsSound == part = "listing" => ClassIsEarned /\ BillCoversCharge /\ BodyIsAccepted
=============================================================================

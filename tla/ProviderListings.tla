-------------------------- MODULE ProviderListings --------------------------
(***************************************************************************)
(* From what a provider publishes about its models to the routes of the    *)
(* catalog, and from a route of NEAR's relay to its bill: the normalizers  *)
(* (src/providers/catalog/...Normalize.ts, nearRelay.ts), the shape of a   *)
(* relayed request and the cost of its usage report.                       *)
(*                                                                         *)
(* A provider may publish anything at each sync.  Names, notes and labels  *)
(* are left out.  Prices are integers, in one unit per million tokens;     *)
(* PerMillion is how many of that unit a price of one per token makes.     *)
(* A hash is injective: a fingerprint is the entry it is made from.        *)
(***************************************************************************)
EXTENDS FiniteSets, Integers, Sequences

CONSTANTS
    Published,       \* Published[p]: the listings provider p may publish, sequences of its entries
    RelayRoutes,     \* NEAR_RELAY_ROUTES: id -> [owner, family]
    NearReviewed,    \* the entry each reviewed relay id had when it was reviewed
    DefaultSampling, \* DEFAULT_SAMPLING_ONLY_ROUTES
    TieredUpstream, UpstreamBase, \* ids whose developer bills long prompts more, and from where
    NearApproved,    \* id -> "direct-tee" or "attested-3p"
    DeepInfraReviewed, \* id -> [entry, maxOut]: its review
    DeepInfraBlocks, IntermittentTools,
    PhalaHolds,      \* approved id -> whether it is held
    ChutesApproved, TinfoilApproved, FireworksApproved, BedrockApproved,
    OutputCeiling, PerMillion, MaxUsage

Absent == -1    \* a field that is missing or malformed, and a null of a route
JsonNull == -2  \* a field that is published as null

\* an entry of NEAR's /v1/models
IsNearEntry(e) ==
    /\ DOMAIN e = {"id", "owner", "context", "maxOut", "inputs", "outputs", "features", "params",
                   "in", "out", "read", "write", "long", "threshold", "ready"}
    /\ \A f \in {"context", "maxOut", "in", "out", "read", "write", "threshold"} : e[f] \in Int
    /\ e.long \in BOOLEAN /\ e.ready \in BOOLEAN

\* The tables: no id is both confidential and relayed, and every relayed route is
\* of a known family, Anthropic's of its own (nearNormalize.ts:78-98,
\* nearRelay.ts:232-279).  What a provider publishes is a sequence.
ASSUME ListingsAssumption ==
    /\ PerMillion \in Nat /\ OutputCeiling \in Nat /\ MaxUsage \in Nat /\ UpstreamBase \in Nat
    /\ DOMAIN NearApproved \cap DOMAIN RelayRoutes = {}
    /\ \A i \in DOMAIN RelayRoutes :
          /\ RelayRoutes[i].family \in {"anthropic", "openai", "google", "x-ai", "deepseek-openrouter", "qwen"}
          /\ RelayRoutes[i].owner = "anthropic" => RelayRoutes[i].family = "anthropic"
    /\ \A i \in DOMAIN NearReviewed : IsNearEntry(NearReviewed[i])
    /\ \A p \in DOMAIN Published : \A l \in Published[p] :
          /\ DOMAIN l = 1..Len(l) /\ Len(l) \in Nat
          /\ p = "near-ai" => \A n \in DOMAIN l : IsNearEntry(l[n])
          /\ p = "deepinfra" => \A n \in DOMAIN l : l[n].partner \in {"yes", "no", "missing"}
          /\ p = "phala-ai" => \A n \in DOMAIN l : IsFiniteSet(l[n].upstreams)

VARIABLES
    source,   \* the provider
    offered,  \* its routes as of the last sync; a route remembers the entry it is `from`
    synced,
    relayed   \* the relayed request: none, one forwarded, or one settled

listingVars == <<source, offered, synced, relayed>>

-----------------------------------------------------------------------------
(* Readers of published values.                                             *)
Or(a, b) == IF a # Absent THEN a ELSE b
Smaller(a, b) == IF a < b THEN a ELSE b

\* integer, positive, positiveNumber: what is not above zero is absent
AboveZero(v) == IF v > 0 THEN v ELSE Absent

\* priceOrNull, intOrNull: Number(null) is 0, so a published null is a zero
NotBelowZero(v) == IF v = JsonNull THEN 0 ELSE IF v >= 0 THEN v ELSE Absent

PerToken(v) == IF v > 0 THEN PerMillion * v ELSE Absent

\* A route of the catalog; `reviewed` is TRUE where there is no review manifest.
Route0(p, e, type, class) ==
    [provider |-> p, id |-> e.id, from |-> e, type |-> type, class |-> class, context |-> Absent, maxOut |-> Absent,
     in |-> Absent, out |-> Absent, read |-> Absent, write |-> Absent, unit |-> Absent,
     online |-> TRUE, reviewed |-> TRUE, caps |-> {}, disable |-> FALSE]

\* the capabilities read from supported_features and input_modalities
FeatureCaps(e, caching) ==
    (e.features \cap {"tools", "reasoning"})
    \cup {x \in {"vision"} : "image" \in e.inputs}
    \cup {x \in {"schema"} : e.features \cap {"structured_outputs", "json_mode"} # {}}
    \cup {x \in {"caching"} : caching}

-----------------------------------------------------------------------------
(* NEAR's relayed routes.                                                   *)
NearRelayOwners == {"anthropic", "openai", "google", "x-ai", "deepseek", "qwen", "typesafe"}

NearRelayFamilies ==
    [f \in {"anthropic", "openai", "google", "x-ai", "deepseek-openrouter", "qwen"} |->
        [class |-> "anonymous", caching |-> IF f \in {"anthropic", "google"} THEN "unavailable" ELSE "automatic"]]

DefaultTier(e) ==
    LET threshold == IF e.long THEN AboveZero(e.threshold) ELSE Absent
    IN [write |-> AboveZero(e.write), threshold |-> threshold, open |-> e.long /\ threshold = Absent]

UpstreamThreshold(i) == IF i \in TieredUpstream THEN UpstreamBase ELSE Absent

\* (mutant) the fingerprint of what is priced alone
PriceFingerprint(e) == [f \in {"id", "owner", "in", "out", "read", "write", "long", "threshold"} |-> e[f]]

\* nearRelayReviewFingerprint: everything but the availability
RelayFingerprint(e) == [f \in DOMAIN e \ {"ready"} |-> e[f]]

\* nearRelayReviewRejection
RelayRejected(e) ==
    \/ e.id \notin DOMAIN RelayRoutes \/ e.owner # RelayRoutes[e.id].owner
    \/ e.outputs # {"text"} \/ "text" \notin e.inputs \/ ~(e.inputs \subseteq {"text", "image"})
    \/ AboveZero(e.in) = Absent \/ AboveZero(e.out) = Absent
    \/ AboveZero(e.context) = Absent \/ AboveZero(e.maxOut) = Absent \/ DefaultTier(e).open
    \/ "max_tokens" \notin e.params

IsReviewedNearRelayEntry(e) ==
    /\ e.id \in DOMAIN NearReviewed
    /\ RelayFingerprint(NearReviewed[e.id]) = RelayFingerprint(e)
    /\ ~RelayRejected(e)

\* what normalizeNearRelayCatalog lets through: chat routes of the reviewed owner
RelayAdmits(e) ==
    /\ e.id \in DOMAIN RelayRoutes /\ e.owner = RelayRoutes[e.id].owner /\ e.owner \in NearRelayOwners
    /\ e.outputs = {"text"} /\ "text" \in e.inputs /\ e.inputs \subseteq {"text", "image"}

\* (mutant) only NEAR's own tier caps the context
NearTierOnly(e) ==
    IF AboveZero(e.context) = Absent \/ DefaultTier(e).open THEN Absent
    ELSE IF DefaultTier(e).threshold = Absent THEN e.context ELSE Smaller(e.context, DefaultTier(e).threshold)

\* the context, capped at the lowest threshold anyone in the chain prices by
RelayContext(e) ==
    LET caps == {DefaultTier(e).threshold, UpstreamThreshold(e.id)} \ {Absent}
    IN IF AboveZero(e.context) = Absent \/ DefaultTier(e).open THEN Absent
       ELSE CHOOSE x \in caps \cup {e.context} : \A c \in caps \cup {e.context} : x <= c

RelayRow(e) ==
    LET family == NearRelayFamilies[RelayRoutes[e.id].family]
        automatic == family.caching = "automatic"
        context == RelayContext(e)
        most == AboveZero(e.maxOut)
        read == IF automatic THEN PerToken(e.read) ELSE Absent
    IN [Route0("near-ai", e, "text", family.class) EXCEPT
           !.context = context,
           !.maxOut = IF most = Absent \/ context = Absent THEN most ELSE Smaller(most, context),
           !.in = AboveZero(e.in), !.out = AboveZero(e.out), !.read = read,
           !.write = IF automatic THEN DefaultTier(e).write ELSE Absent,
           !.reviewed = IsReviewedNearRelayEntry(e),
           !.caps = FeatureCaps(e, read # Absent)]

\* one native id is one route: the first entry that is let through
NormalizeNearRelay(l, excluded) ==
    {RelayRow(l[n]) : n \in {n \in DOMAIN l :
        /\ RelayAdmits(l[n]) /\ l[n].id \notin excluded
        /\ ~\E m \in 1..(n - 1) : RelayAdmits(l[m]) /\ l[m].id = l[n].id}}

NearDirectRow(e) ==
    [Route0("near-ai", e, "text", IF NearApproved[e.id] = "direct-tee" THEN "e2ee" ELSE "tee") EXCEPT
        !.context = AboveZero(e.context),
        !.maxOut = Or(AboveZero(e.maxOut), IF AboveZero(e.context) = Absent THEN Absent ELSE Smaller(e.context, OutputCeiling)),
        !.in = AboveZero(e.in), !.out = AboveZero(e.out), !.read = PerToken(e.read),
        !.online = e.ready, !.caps = FeatureCaps(e, PerToken(e.read) # Absent)]

NormalizeNear(l) ==
    LET direct == {NearDirectRow(l[n]) : n \in {n \in DOMAIN l : l[n].id \in DOMAIN NearApproved /\ l[n].owner \notin NearRelayOwners}}
    IN direct \cup NormalizeNearRelay(l, {r.id : r \in direct})

-----------------------------------------------------------------------------
(* The other providers.                                                     *)
\* DeepInfra, discoveredRoute: only what the adapter can call, and only with
\* its partner flag
Discovered(e) == e.partner # "missing" /\ e.kind = "text-generation" /\ "openai" \in e.tags /\ e.priceType = "tokens"

DeepInfraFingerprint(e) ==
    IF AboveZero(e.in) = Absent \/ AboveZero(e.out) = Absent \/ AboveZero(e.context) = Absent THEN {}
    ELSE {[f \in DOMAIN e \ {"maxOut", "deprecated"} |-> e[f]]}

DeepInfraMatches(e) ==
    /\ e.id \in DOMAIN DeepInfraReviewed
    /\ DeepInfraFingerprint(e) # {} /\ DeepInfraFingerprint(e) = DeepInfraFingerprint(DeepInfraReviewed[e.id].entry)
    /\ AboveZero(e.maxOut) \in {Absent, DeepInfraReviewed[e.id].maxOut}

\* (mutant) a partner's route keeps the host's class
HostClass(e) == "private"

DeepInfraClass(e) == IF e.partner = "yes" THEN "anonymous" ELSE "private"

DeepInfraRow(e) ==
    LET reviewed == DeepInfraMatches(e) /\ e.id \notin DeepInfraBlocks
        context == IF e.context > 0 THEN e.context ELSE 0
        input == PerToken(e.in)
        cached == IF input # Absent /\ e.cached > 0 THEN (input * e.cached) \div 10 ELSE Absent  \* a rate, in tenths
    IN [Route0("deepinfra", e, "text", DeepInfraClass(e)) EXCEPT
           !.context = context,
           !.maxOut = IF reviewed THEN DeepInfraReviewed[e.id].maxOut ELSE Or(AboveZero(e.maxOut), Smaller(context, OutputCeiling)),
           !.in = input, !.out = PerToken(e.out), !.read = cached,
           !.online = ~e.deprecated, !.reviewed = reviewed,
           !.caps = {x \in {"tools"} : "tools" \in e.tags /\ e.id \notin IntermittentTools}
                    \cup {x \in {"vision"} : "multimodal" \in e.tags}
                    \cup {x \in {"reasoning"} : e.tags \cap {"reasoning", "can-disable-reasoning"} # {}},
           !.disable = "can-disable-reasoning" \in e.tags]

NormalizeDeepInfra(l) == {DeepInfraRow(l[n]) : n \in {n \in DOMAIN l : Discovered(l[n])}}

\* Phala: a row it does not serve itself is dropped, one it may not serve is held
PhalaRow(e) ==
    LET context == AboveZero(e.context)
        held == PhalaHolds[e.id] \/ Cardinality(e.upstreams) > 1
    IN [Route0("phala-ai", e, "text", "private") EXCEPT
           !.context = context,
           !.maxOut = Or(AboveZero(e.maxOut), IF context # Absent THEN Smaller(context, OutputCeiling) ELSE Absent),
           !.in = PerToken(e.in), !.out = PerToken(e.out), !.read = PerToken(e.read),
           !.online = ~held,
           !.caps = FeatureCaps(e, PerToken(e.read) # Absent),
           !.disable = "reasoning" \in e.features /\ "reasoning" \in e.params]

NormalizePhala(l) ==
    {PhalaRow(l[n]) : n \in {n \in DOMAIN l : l[n].id \in DOMAIN PhalaHolds /\ "phala" \in l[n].upstreams}}

\* Chutes: the live flag decides the class, never the id
ChutesRow(e) ==
    LET a == ChutesApproved[e.id]
        context == Or(AboveZero(e.context), a.context)
    IN [Route0("chutes", e, IF a.embedding THEN "embedding" ELSE "text",
               IF ~e.confidential THEN "private" ELSE IF a.embedding THEN "tee" ELSE "e2ee") EXCEPT
           !.context = context,
           !.maxOut = IF a.embedding THEN Absent ELSE Or(AboveZero(e.maxOut), Smaller(context, OutputCeiling)),
           !.in = AboveZero(e.in), !.out = IF a.embedding THEN Absent ELSE AboveZero(e.out), !.read = AboveZero(e.read),
           !.caps = IF a.embedding THEN {} ELSE FeatureCaps(e, AboveZero(e.read) # Absent),
           !.disable = ~a.embedding /\ "reasoning" \in e.features /\ a.disable]

NormalizeChutes(l) == {ChutesRow(l[n]) : n \in {n \in DOMAIN l : l[n].id \in DOMAIN ChutesApproved}}

\* Tinfoil: limits and capabilities are the table's, prices live before reviewed
TinfoilRow(e) ==
    LET a == TinfoilApproved[e.id]
    IN [Route0("tinfoil", e, IF a.embedding THEN "embedding" ELSE "text", "tee") EXCEPT
           !.context = a.context,
           !.maxOut = IF a.embedding THEN Absent ELSE Smaller(a.context, OutputCeiling),
           !.in = Or(AboveZero(e.in), AboveZero(a.in)),
           !.out = IF a.embedding THEN Absent ELSE Or(AboveZero(e.out), AboveZero(a.out)),
           !.read = IF a.embedding THEN Absent ELSE AboveZero(e.read),
           !.caps = a.caps, !.disable = "reasoning" \in a.caps /\ a.disable]

NormalizeTinfoil(l) == {TinfoilRow(l[n]) : n \in {n \in DOMAIN l : l[n].id \in DOMAIN TinfoilApproved}}

\* Fireworks: prices are the table's; a serverless, healthy, current route is online
FireworksRow(e) ==
    LET a == FireworksApproved[e.id]
        context == AboveZero(e.context)
    IN [Route0("fireworks", e, "text", "private") EXCEPT
           !.context = context,
           !.maxOut = IF context = Absent THEN Absent ELSE Smaller(context, OutputCeiling),
           !.in = a.in, !.out = a.out, !.read = a.read,
           !.online = e.serverless /\ e.status = "OK" /\ ~e.deprecated,
           !.caps = {"caching"} \cup {x \in {"tools"} : e.tools} \cup {x \in {"vision"} : e.image}]

NormalizeFireworks(l) == {FireworksRow(l[n]) : n \in {n \in DOMAIN l : l[n].id \in DOMAIN FireworksApproved}}

\* Bedrock: only what the account attests to retain nothing of.  An object's
\* own list of allowed modes comes before the entry's.
IsEffectiveNone(e) ==
    /\ e.status = "available" /\ e.mode = "none"
    /\ \/ e.inner # {} /\ \E s \in e.inner : "none" \in s
       \/ e.inner = {} /\ "none" \in e.allowed

BedrockRow(e) ==
    LET a == BedrockApproved[e.id]
    IN [Route0("aws-bedrock", e, "text", "private") EXCEPT
           !.context = a.context, !.maxOut = a.maxOut, !.in = a.in, !.out = a.out, !.caps = a.caps]

NormalizeBedrock(l) ==
    {BedrockRow(l[n]) : n \in {n \in DOMAIN l : l[n].id \in DOMAIN BedrockApproved /\ IsEffectiveNone(l[n])}}

-----------------------------------------------------------------------------
(* Venice: every type, and every fact read from the entry.                  *)
ClassifyPrivacy(e) ==
    IF e.e2ee THEN "e2ee" ELSE IF e.tee THEN "tee"
    ELSE IF e.privacy = "private" THEN "private" ELSE IF e.privacy = "anonymized" THEN "anonymous" ELSE "unknown"

VeniceContext(e) ==
    CASE e.type = "text" -> Or(NotBelowZero(e.available), NotBelowZero(e.length))
      [] e.type = "embedding" -> NotBelowZero(e.maxInput)
      [] OTHER -> Absent

\* a media route has a price only when one price covers every call
VeniceUnit(e) ==
    CASE e.type \in {"image", "inpaint", "upscale"} ->
            LET prices == {v \in e.units : v > 0} IN IF Cardinality(prices) = 1 THEN CHOOSE v \in prices : TRUE ELSE Absent
      [] e.type = "tts" -> AboveZero(NotBelowZero(e.in))
      [] OTHER -> Absent

VeniceDisable(e) == e.type = "text" /\ {"reasoning", "effort"} \subseteq e.caps /\ "none" \in e.efforts

VeniceRow(e) ==
    LET tokens == e.type \in {"text", "embedding"}
        Priced(v) == IF tokens THEN NotBelowZero(v) ELSE Absent
    IN [Route0("venice", e, e.type, ClassifyPrivacy(e)) EXCEPT
           !.context = VeniceContext(e), !.maxOut = NotBelowZero(e.maxOut),
           !.in = Priced(e.in), !.out = Priced(e.out), !.read = Priced(e.read), !.write = Priced(e.write),
           !.unit = VeniceUnit(e), !.online = ~e.offline,
           !.caps = IF e.type = "text" THEN e.caps \ {"effort"} ELSE {},
           !.disable = VeniceDisable(e)]

NormalizeVenice(l) == {VeniceRow(l[n]) : n \in DOMAIN l}

-----------------------------------------------------------------------------
(* Which routes can be enabled, and the relayed request.                    *)
\* baseEnablement's `callable`, of a route control may enable: one whose traits
\* say provider-discovered waits for a review
CanBeCalled(r) ==
    /\ r.online /\ r.reviewed /\ r.type \in {"text", "embedding", "image", "tts"}
    /\ r.type \in {"text", "embedding"} => r.class # "unknown" /\ r.context > 0 /\ r.in > 0
    /\ r.type = "text" => r.maxOut > 0 /\ r.out > 0
    /\ r.type \in {"image", "tts"} => r.unit > 0

DefaultSamplingFields == {"max_tokens", "seed", "stop"}

\* nearRelayRequestProfile: of the reviewed entry, never of the live one
RequestProfile(i) ==
    IF i \notin DOMAIN NearReviewed THEN {}
    ELSE IF i \in DefaultSampling THEN NearReviewed[i].params \cap DefaultSamplingFields
    ELSE NearReviewed[i].params

\* (mutant) a client's cache breakpoints are left in place
KeepBreakpoints(i, b) == [b EXCEPT !.user = FALSE, !.sampling = @ \cap RequestProfile(i),
                                   !.limits = IF RelayRoutes[i].owner = "openai" THEN {"max_completion_tokens"} ELSE @]

\* shapeNearRelayBody
ShapeNearRelayBody(i, b) ==
    IF i \notin DOMAIN RelayRoutes THEN b
    ELSE [b EXCEPT !.user = FALSE,
                   !.sampling = @ \cap RequestProfile(i),
                   !.limits = IF RelayRoutes[i].owner = "openai" /\ @ # {} THEN {"max_completion_tokens"} ELSE @,
                   !.breakpoints = {}]

\* calculateCostUsd: writes first, then reads, the rest at the input price
CalculateCost(r, prompt, u) ==
    LET write == Smaller(prompt, u.write)
        read == Smaller(prompt - write, u.read)
    IN (prompt - write - read) * r.in + read * (IF r.read >= 0 THEN r.read ELSE r.in)
         + write * (IF r.write >= 0 THEN r.write ELSE r.in) + u.out * r.out

-----------------------------------------------------------------------------
(* What NEAR and the developers behind it do with a relayed request.        *)
LongRate(e, prompt) ==
    \/ e.long /\ (AboveZero(e.threshold) = Absent \/ prompt > e.threshold)
    \/ e.id \in TieredUpstream /\ prompt > UpstreamBase

\* Who caches: OpenAI and the routed hosts by themselves, Anthropic at a
\* breakpoint, where a write costs a quarter more; Gemini's reads go unreported.
MayCache(e, b) ==
    \/ NearRelayFamilies[RelayRoutes[e.id].family].caching = "automatic"
    \/ e.owner = "anthropic" /\ b.breakpoints # {}

ProviderCharge(e, prompt, u) ==
    LET rate == IF LongRate(e, prompt) THEN 2 ELSE 1
        read == IF e.read > 0 THEN PerMillion * e.read ELSE e.in
        write == IF e.owner = "anthropic" THEN (5 * e.in) \div 4 ELSE IF e.write > 0 THEN e.write ELSE e.in
    IN rate * ((prompt - u.read - u.write) * e.in + u.read * read + u.write * write + u.out * e.out)

\* what an upstream takes: fields it lists, default sampling only where it
\* insists, and an OpenAI bridge one output limit
Accepts(e, b) ==
    /\ b.sampling \subseteq e.params
    /\ e.id \in DefaultSampling => b.sampling \subseteq DefaultSamplingFields
    /\ e.owner = "openai" => Cardinality(b.limits) <= 1

-----------------------------------------------------------------------------
Normalize(p, l) ==
    CASE p = "near-ai" -> NormalizeNear(l) [] p = "deepinfra" -> NormalizeDeepInfra(l)
      [] p = "phala-ai" -> NormalizePhala(l) [] p = "chutes" -> NormalizeChutes(l)
      [] p = "tinfoil" -> NormalizeTinfoil(l) [] p = "fireworks" -> NormalizeFireworks(l)
      [] p = "aws-bedrock" -> NormalizeBedrock(l) [] OTHER -> NormalizeVenice(l)

ListingInit ==
    /\ source \in DOMAIN Published
    /\ offered = {} /\ synced = FALSE /\ relayed = <<>>

\* a sync, while no request is out: another listing, the routes it makes
PublishListing ==
    /\ relayed = <<>>
    /\ synced' = TRUE
    /\ \E l \in Published[source] : offered' = Normalize(source, l)
    /\ UNCHANGED <<source, relayed>>

\* A request within the route's context.  The limits a client may set are one
\* bound under either name or both.
ForwardRelayed(r) ==
    /\ relayed = <<>> /\ r.provider = "near-ai" /\ r.id \in DOMAIN RelayRoutes /\ CanBeCalled(r)
    /\ \E prompt \in 1..r.context, b \in [sampling : {{"stop"}, {"temperature", "seed"}, {"top_p"}}, user : {TRUE},
                                          breakpoints : {{}, {"message"}}, limits : {{"max_tokens"}, {"max_tokens", "max_completion_tokens"}}] :
          relayed' = <<[route |-> r, prompt |-> prompt, body |-> ShapeNearRelayBody(r.id, b), bill |-> Absent, charge |-> Absent]>>
    /\ UNCHANGED <<source, offered, synced>>

\* The usage the upstream reports, and what each side makes of it.
SettleRelayed ==
    /\ relayed # <<>> /\ relayed[1].bill = Absent
    /\ \E u \in [read : 0..MaxUsage, write : 0..MaxUsage, out : {0, 1}] :
          LET c == relayed[1] IN
          /\ u.read + u.write <= c.prompt
          /\ u.read + u.write > 0 => MayCache(c.route.from, c.body)
          /\ relayed' = <<[c EXCEPT !.bill = CalculateCost(c.route, c.prompt, u),
                                    !.charge = ProviderCharge(c.route.from, c.prompt, u)]>>
    /\ UNCHANGED <<source, offered, synced>>

ListingNext == PublishListing \/ (\E r \in offered : ForwardRelayed(r)) \/ SettleRelayed

-----------------------------------------------------------------------------
(* Properties.                                                              *)
\* Which entry of a provider backs a confidential class, and a private one.
Attests(r) ==
    LET e == r.from IN
    CASE r.provider = "near-ai" -> e.owner \notin NearRelayOwners
      [] r.provider = "chutes" -> e.confidential
      [] r.provider = "venice" -> e.e2ee \/ e.tee
      [] OTHER -> r.provider = "tinfoil"

NamesOneProcessor(r) ==
    LET e == r.from IN
    CASE r.provider = "deepinfra" -> e.partner = "no"
      [] r.provider = "phala-ai" -> e.upstreams = {"phala"}
      [] r.provider = "aws-bedrock" -> e.mode = "none"
      [] r.provider = "venice" -> e.privacy = "private"
      [] OTHER -> r.provider \in {"chutes", "fireworks"}

\* However a listing is made up or drifts from its review, a route that can be
\* enabled has a class its live entry backs, and a native id that is relayed is
\* one route: no second relayed one, and never a confidential one beside it
\* (nearRelay.ts:676-702, nearNormalize.ts:148-160, deepinfraNormalize.ts:451-470,
\* phalaAiNormalize.ts:318-350).  Of a confidential id listed twice,
\* nearNormalize.ts keeps both rows.
ClassIsEarned ==
    \A r \in offered : CanBeCalled(r) =>
        /\ r.class \in {"tee", "e2ee"} => Attests(r)
        /\ r.class = "private" => NamesOneProcessor(r)
        /\ \A o \in offered :
              r.provider = "near-ai" /\ o.id = r.id /\ "anonymous" \in {r.class, o.class} => o = r

\* "Every admitted request then stays in the tier it is billed at"
\* (nearRelay.ts:706-707), with the caching rules of nearRelay.ts:80-100: from
\* listing to settlement, a relayed request is never billed less than NEAR and
\* the developer behind it charge for it.
BillCoversCharge == \A n \in DOMAIN relayed : relayed[n].bill >= relayed[n].charge

\* What is forwarded for a route that passed its review is what the upstream
\* behind the live entry takes, and names no end user (nearRelay.ts:613-637):
\* the body follows the reviewed entry, so a drifted one must not be callable.
BodyIsAccepted ==
    \A n \in DOMAIN relayed : Accepts(relayed[n].route.from, relayed[n].body) /\ ~relayed[n].body.user
=============================================================================

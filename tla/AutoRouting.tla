---------------------------- MODULE AutoRouting ----------------------------
(***************************************************************************)
(* Automatic model selection in the relay: the bounded queue of the local  *)
(* classifier (src/routing/classifier.ts), the cached catalog              *)
(* (routing/contentPlaneCatalog.ts), the saved preferences                 *)
(* (routing/preferences.ts), the ranking (routing/selector.ts) and the     *)
(* part of routes/chat.ts that strings them together.                      *)
(*                                                                         *)
(* A request waits twice, for the classifier and for the catalog, each     *)
(* time against a timeout of its own; what it waits for is shared with     *)
(* other requests and outlives it.  Vote, similarity and the lexical tests *)
(* are abstracted to their outcome; patterns to the names they match       *)
(* (module Glob has the matcher).                                          *)
(***************************************************************************)
EXTENDS ProviderIdentity, Integers, SequencesExt

CONSTANTS
    AutoRequests,
    AutoBodies,     \* [pattern, allow, exclude, privacy, strategy, text, needs, input, maxOut, maxCost]
    Preferences,    \* [mode, patterns, strategy, level]
    Votes,          \* outcomes of the nearest-neighbour vote: [task, sure, complexity]
    AutoRows,       \* the rows of the catalog, numbered in the order they are listed
    Listings,       \* the sets of rows control may list
    AutoInfo,       \* [provider, pub, privacy, providerPrivacy, enabled, features, tasks, maxOut, context, in, out, tier, uncensored, latency]
    MatchedNames,        \* MatchedNames[pattern]: the names <<id>> and <<slug, id>> a pattern matches
    Held,           \* PROVIDERS_HELD_FROM_AUTO
    MaxQueue, CacheTtl,
    AutoMaxClock, MaxListings

\* A row's tier is between 1 and 5 (normalized.ts:127); sizes and prices are numbers.
ASSUME AutoAssumption ==
    /\ AutoRows \subseteq Nat /\ IsFiniteSet(AutoRows) /\ Listings \subseteq SUBSET AutoRows
    /\ \A m \in AutoRows : LET i == AutoInfo[m]
                         IN i.tier \in Nat \ {0} /\ {i.maxOut, i.context, i.in, i.out, i.latency} \subseteq Int
    /\ \A b \in AutoBodies : {"input", "maxOut"} \subseteq DOMAIN b /\ b.input \in Int /\ b.maxOut \subseteq Int
    /\ MaxQueue \in Nat \ {0} /\ CacheTtl \in Nat

VARIABLES
    step,       \* step[r]: "idle", "classify", "classified", "fetch", "done", "failed" or "aborted"
    sent,       \* sent[r]: the body, preferences applied, once the request runs
    waiting,    \* the classifier's queue
    inferring,  \* the set of the request under inference
    settled,    \* requests whose classification promise is settled
    class,      \* class[r]: the classification
    cached,     \* {} or {[rows, at]}
    inFlight,   \* {} or {r}: the request whose signal the catalog fetch carries
    departed,       \* requests whose client is gone
    chosen,     \* chosen[r]: [rows, model, reason] of the selection
    listed,     \* the rows control lists at present
    autoNow, listings

autoVars == <<step, sent, waiting, inferring, settled, class, cached, inFlight, departed, chosen, listed, autoNow, listings>>

Nothing == [none |-> TRUE]

AutoInit ==
    /\ step = [r \in AutoRequests |-> "idle"]
    /\ sent = [r \in AutoRequests |-> Nothing] /\ class = [r \in AutoRequests |-> Nothing]
    /\ chosen = [r \in AutoRequests |-> Nothing]
    /\ waiting = <<>> /\ inferring = {} /\ settled = {} /\ departed = {}
    /\ cached = {} /\ inFlight = {}
    /\ listed = AutoRows /\ autoNow = 0 /\ listings = 0

-----------------------------------------------------------------------------
(* Preferences under the request.  An optional field is {} or {value}.      *)
PrivacyClassesByLevel(l) ==
    CASE l = "open" -> {"anonymous", "private", "tee", "e2ee"}
      [] l = "balanced" -> {"private", "tee", "e2ee"}
      [] OTHER -> {"tee", "e2ee"}

RoutingConfigFromPreferences(p) ==
    [strategy |-> p.strategy, privacy |-> PrivacyClassesByLevel(p.level),
     allow |-> IF p.mode = "include" THEN {p.patterns} ELSE {},
     exclude |-> IF p.mode = "exclude" /\ p.patterns # {} THEN {p.patterns} ELSE {}]

Given(option, default) == IF option = {} THEN default ELSE CHOOSE v \in option : TRUE

\* a request that names its pool replaces the saved pool, whole
ApplyRoutingPreferences(b, p) ==
    LET saved == RoutingConfigFromPreferences(p)
        pool == b.pattern # {} \/ b.allow # {} \/ b.exclude # {}
    IN [b EXCEPT !.strategy = {Given(b.strategy, saved.strategy)},
                 !.privacy = {Given(b.privacy, saved.privacy)},
                 !.allow = IF pool THEN b.allow ELSE saved.allow,
                 !.exclude = IF pool THEN b.exclude ELSE saved.exclude]

-----------------------------------------------------------------------------
(* The ranking.                                                             *)
Names(m) == LET i == AutoInfo[m] IN {<<i.pub>>, <<PublicProviderSlug(i.provider), i.pub>>}
ModelMatches(pattern, m) == MatchedNames[pattern] \cap Names(m) # {}

PrivacyPolicyAllows(m, classes) ==
    /\ AutoInfo[m].privacy \in classes
    /\ AutoInfo[m].providerPrivacy \in classes \cup {"private", "tee", "e2ee"}

FilterRoutingPolicyModels(rows, b) ==
    {m \in rows :
        /\ AutoInfo[m].enabled /\ AutoInfo[m].provider \notin Held
        /\ \A p \in b.pattern : ModelMatches(p, m)
        /\ \A ps \in b.allow : \E p \in ps : ModelMatches(p, m)
        /\ \A ps \in b.exclude : \A p \in ps : ~ModelMatches(p, m)
        /\ PrivacyPolicyAllows(m, Given(b.privacy, {"private", "tee", "e2ee"}))}

Specialized(task) == task \in {"coding", "math", "research"}

RequiredQualityTier(c, strategy) ==
    CASE strategy = "cost" -> LET t == IF c.complexity = "high" THEN 3 ELSE IF Specialized(c.effective) THEN 2 ELSE 1
                              IN IF c.abstained /\ t < 2 THEN 2 ELSE t
      [] strategy = "quality" -> 5
      [] OTHER -> IF c.complexity = "high" THEN 5 ELSE 4

Room(m, b) == AutoInfo[m].context - b.input
EffectiveMax(m, b) ==
    Given(b.maxOut, IF AutoInfo[m].maxOut < Room(m, b) THEN AutoInfo[m].maxOut ELSE Room(m, b))
EstimatedCost(m, b) == b.input * AutoInfo[m].in + EffectiveMax(m, b) * AutoInfo[m].out

Feasible(rows, b, c, needs) ==
    {m \in FilterRoutingPolicyModels(rows, b) :
        /\ needs \cup (IF c.web THEN {"web"} ELSE {}) \subseteq AutoInfo[m].features
        /\ c.effective \in AutoInfo[m].tasks
        /\ AutoInfo[m].maxOut > 0 /\ Room(m, b) > 0
        /\ \A x \in b.maxOut : x <= AutoInfo[m].maxOut
        /\ EffectiveMax(m, b) <= Room(m, b)
        /\ \A x \in b.maxCost : EstimatedCost(m, b) <= x}

\* a real provider beats the mock fixture
RealFirst(ms) == LET real == {m \in ms : AutoInfo[m].provider # "mock"} IN IF real = {} THEN ms ELSE real

AboveFloor(pool, c, floor) ==
    {m \in pool : AutoInfo[m].tier >= floor \/ (c.sensitive /\ AutoInfo[m].uncensored)}

FloorsStopAtTwo(tier) == 2 .. tier
Floors(tier) == 1 .. tier

\* the floor is relaxed tier by tier, only as far as the pool requires
Relaxed(pool, c, tier) ==
    LET enough == {f \in Floors(tier) : AboveFloor(pool, c, f) # {}}
    IN IF enough = {} THEN {} ELSE AboveFloor(pool, c, Max(enough))

SteerSensitive(ms, c) ==
    LET u == {m \in ms : AutoInfo[m].uncensored} IN IF c.sensitive /\ u # {} THEN u ELSE ms

IsSpecialist(m, task) == task \in AutoInfo[m].tasks /\ Cardinality(AutoInfo[m].tasks) <= 2

\* a sorts before d; the sort is stable, so that the listing order breaks ties
Precedes(a, d, b, c, sensitiveMode) ==
    LET s == Given(b.strategy, "balanced")
        x == AutoInfo[a]  y == AutoInfo[d]
        special(m) == IsSpecialist(m, c.effective)
    IN IF (sensitiveMode \/ s # "cost") /\ x.tier # y.tier THEN x.tier > y.tier
       ELSE IF s # "cost" /\ Specialized(c.effective) /\ special(a) # special(d) THEN special(a)
       ELSE IF EstimatedCost(a, b) # EstimatedCost(d, b) THEN EstimatedCost(a, b) < EstimatedCost(d, b)
       ELSE IF x.tier # y.tier THEN x.tier < y.tier
       ELSE IF x.latency # y.latency THEN x.latency < y.latency
       ELSE a < d

\* the first of the ranked candidates, {} for none
FirstOf(ms, b, c) ==
    LET mode == c.sensitive /\ \E m \in ms : AutoInfo[m].uncensored
    IN {m \in ms : \A d \in ms \ {m} : Precedes(m, d, b, c, mode)}

Best(rows, b, c, needs) ==
    FirstOf(SteerSensitive(Relaxed(RealFirst(Feasible(rows, b, c, needs)), c,
                                   RequiredQualityTier(c, Given(b.strategy, "balanced"))), c), b, c)

\* without a model, the reason is the first need that excluded them all
Decision(rows, best, b, c) ==
    LET without(f) == f \in b.needs /\ Best(rows, b, c, b.needs \ {f}) # {}
    IN [rows |-> rows, model |-> best,
        reason |-> IF best # {} THEN "none" ELSE IF without("tools") THEN "no_tools_capable_model"
                   ELSE IF without("vision") THEN "no_vision_capable_model" ELSE "no_routing_candidate"]

SelectRoutingModel(rows, b, c) == Decision(rows, Best(rows, b, c, b.needs), b, c)

-----------------------------------------------------------------------------
(* The classifier.                                                          *)
\* classifyNow: the text's lexical facts over the vote
Classification(text, vote) ==
    LET task == Given(text.explicit, vote.task)
        abstained == text.explicit = {} /\ ~vote.sure
    IN [task |-> task, effective |-> IF abstained THEN "general" ELSE task, abstained |-> abstained,
        complexity |-> IF text.high THEN "high" ELSE vote.complexity,
        web |-> task = "research" \/ text.web, sensitive |-> text.sensitive]

\* drainQueue: entries that timed out in the queue are skipped
Live(q, done) == {i \in DOMAIN q : q[i] \notin done}
ShiftOne(q, done) == IF q = <<>> THEN 0 ELSE 1
Shifted(q, done) == IF Live(q, done) = {} THEN Len(q) ELSE Min(Live(q, done))
DrainQueue(q, busy, done) ==
    IF busy # {} THEN waiting' = q /\ inferring' = busy
    ELSE LET n == Shifted(q, done)
         IN waiting' = SubSeq(q, n + 1, Len(q)) /\ inferring' = {q[i] : i \in {n} \cap Live(q, done)}

Fail(r, why) == step' = [step EXCEPT ![r] = "failed"] /\ chosen' = [chosen EXCEPT ![r] = [rows |-> {}, model |-> {}, reason |-> why]]

Start(r) ==
    /\ step[r] = "idle"
    /\ \E b \in AutoBodies, p \in Preferences : sent' = [sent EXCEPT ![r] = ApplyRoutingPreferences(b, p)]
    /\ IF Len(waiting) >= MaxQueue
       THEN Fail(r, "router_unavailable") /\ UNCHANGED <<waiting, inferring>>
       ELSE /\ step' = [step EXCEPT ![r] = "classify"]
            /\ DrainQueue(Append(waiting, r), inferring, settled)
            /\ UNCHANGED chosen
    /\ UNCHANGED <<settled, class, cached, inFlight, departed, listed, autoNow, listings>>

\* The queue's timer: it rejects the caller and leaves the entry in the queue.
QueueTimeout(r) ==
    /\ r \in ToSet(waiting) \cup inferring /\ r \notin settled
    /\ settled' = settled \cup {r}
    /\ IF step[r] = "classify" THEN Fail(r, "router_unavailable") ELSE UNCHANGED <<step, chosen>>
    /\ UNCHANGED <<sent, waiting, inferring, class, cached, inFlight, departed, listed, autoNow, listings>>

InferenceEnds(r) ==
    /\ inferring = {r}
    /\ settled' = settled \cup {r}
    /\ DrainQueue(waiting, {}, settled \cup {r})
    /\ IF r \in settled \/ step[r] # "classify" THEN UNCHANGED <<step, chosen, class>>
       ELSE \/ Fail(r, "router_unavailable") /\ UNCHANGED class
            \/ /\ \E v \in Votes : class' = [class EXCEPT ![r] = Classification(sent[r].text, v)]
               /\ step' = [step EXCEPT ![r] = "classified"] /\ UNCHANGED chosen
    /\ UNCHANGED <<sent, cached, inFlight, departed, listed, autoNow, listings>>

\* withRoutingTimeout: the caller gives up; the work it waited for goes on.
RoutingTimeout(r) ==
    /\ step[r] \in {"classify", "fetch"}
    /\ Fail(r, "router_timeout")
    /\ UNCHANGED <<sent, waiting, inferring, settled, class, cached, inFlight, departed, listed, autoNow, listings>>

-----------------------------------------------------------------------------
(* The catalog.                                                             *)
Fresh == \E c \in cached : autoNow - c.at < CacheTtl

\* what a selection leaves: the abort is looked at only after it
After(r, d) == IF d.model = {} THEN "failed" ELSE IF r \in departed THEN "aborted" ELSE "done"

Choose(d) ==
    /\ step' = [r \in AutoRequests |-> IF r \in DOMAIN d THEN After(r, d[r]) ELSE step[r]]
    /\ chosen' = [r \in AutoRequests |-> IF r \in DOMAIN d THEN d[r] ELSE chosen[r]]

SelectAll(rs, rows) == Choose([r \in rs |-> SelectRoutingModel(rows, sent[r], class[r])])

Candidates(r) ==
    /\ step[r] = "classified"
    /\ IF Fresh
       THEN SelectAll({r}, UNION {c.rows : c \in cached}) /\ UNCHANGED inFlight
       ELSE /\ step' = [step EXCEPT ![r] = "fetch"]
            /\ inFlight' = IF inFlight = {} THEN {r} ELSE inFlight
            /\ UNCHANGED chosen
    /\ UNCHANGED <<sent, waiting, inferring, settled, class, cached, departed, listed, autoNow, listings>>

Fetchers == {r \in AutoRequests : step[r] = "fetch"}

FetchArrives ==
    /\ inFlight # {}
    /\ inFlight' = {}
    /\ cached' = {[rows |-> listed, at |-> autoNow]}
    /\ SelectAll(Fetchers, listed)
    /\ UNCHANGED <<sent, waiting, inferring, settled, class, departed, listed, autoNow, listings>>

\* every request that joined the fetch falls back on the stale copy, or fails
FallBack ==
    /\ inFlight' = {}
    /\ IF cached # {} THEN SelectAll(Fetchers, UNION {c.rows : c \in cached})
       ELSE /\ step' = [r \in AutoRequests |-> IF r \in Fetchers THEN "failed" ELSE step[r]]
            /\ chosen' = [r \in AutoRequests |-> IF r \in Fetchers THEN [rows |-> {}, model |-> {}, reason |-> "router_unavailable"]
                                                 ELSE chosen[r]]

FetchFails ==
    /\ inFlight # {}
    /\ FallBack
    /\ UNCHANGED <<sent, waiting, inferring, settled, class, cached, departed, listed, autoNow, listings>>

\* The client goes away.  Its signal is the fetch's when it was the first to ask.
AutoAbort(r) ==
    /\ step[r] \in {"classify", "classified", "fetch"} /\ r \notin departed
    /\ departed' = departed \cup {r}
    /\ IF inFlight = {r} THEN FallBack ELSE UNCHANGED <<step, chosen, inFlight>>
    /\ UNCHANGED <<sent, waiting, inferring, settled, class, cached, listed, autoNow, listings>>

Relist ==
    /\ listings < MaxListings
    /\ listings' = listings + 1
    /\ listed' \in Listings \ {listed}
    /\ UNCHANGED <<step, sent, waiting, inferring, settled, class, cached, inFlight, departed, chosen, autoNow>>

AutoTick ==
    /\ autoNow < AutoMaxClock
    /\ autoNow' = autoNow + 1
    /\ UNCHANGED <<step, sent, waiting, inferring, settled, class, cached, inFlight, departed, chosen, listed, listings>>

AutoNext ==
    \/ \E r \in AutoRequests : Start(r) \/ QueueTimeout(r) \/ InferenceEnds(r) \/ RoutingTimeout(r) \/ Candidates(r) \/ AutoAbort(r)
    \/ FetchArrives \/ FetchFails \/ Relist \/ AutoTick

-----------------------------------------------------------------------------
(***************************************************************************)
(* The classifier's queue is never stranded: while an entry waits, an      *)
(* inference is running whose end drains the queue, and a request that     *)
(* still waits for its classification is queued or under inference.        *)
(***************************************************************************)
QueueIsServed ==
    /\ waiting # <<>> => inferring # {}
    /\ \A r \in AutoRequests : step[r] = "classify" => r \in ToSet(waiting) \cup inferring

(***************************************************************************)
(* Relaxing the floor and sorting lose nothing: automatic routing reports  *)
(* that no model fits only when none does, and outside the cost strategy a *)
(* request that is not sensitive gets no model of a lower tier than        *)
(* another real one that could have served it.                             *)
(***************************************************************************)
SelectionIsComplete ==
    \A r \in AutoRequests : step[r] \in {"done", "aborted", "failed"} /\ class[r] # Nothing =>
        LET d == chosen[r]
            fits == Feasible(d.rows, sent[r], class[r], sent[r].needs)
        IN /\ d.reason = "no_routing_candidate" => fits = {}
           /\ \A m \in d.model : /\ m \in fits
                                 /\ Given(sent[r].strategy, "balanced") # "cost" /\ ~class[r].sensitive =>
                                        \A o \in fits : AutoInfo[o].provider # "mock" => AutoInfo[o].tier <= AutoInfo[m].tier
=============================================================================

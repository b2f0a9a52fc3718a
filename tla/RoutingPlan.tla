---------------------------- MODULE RoutingPlan ----------------------------
(***************************************************************************)
(* Provider routing for one canonical model: the caller's policy           *)
(* (src/providers/routing/policy.ts), merged with the workspace's defaults,*)
(* and the bounded, ordered plan of attempts (routing/engine.ts).          *)
(*                                                                         *)
(* The plan is built from the routes' health at that moment, and twice for *)
(* a request: when its ticket is issued, before the prompt is measured, and*)
(* when it is authorized, with the size of the prompt.  In between, health *)
(* changes.  The callers are control's; the functions are this repository's.*)
(***************************************************************************)
EXTENDS ProviderIdentity, Integers, SequencesExt

CONSTANTS
    PlanRoutes,    \* the routes of the model, numbered in the order of their stable ids
    RouteInfo,     \* [provider, type, privacy, in, out, unit, priced, features, maxOut, context, latency, tps]
    PolicyInputs,  \* what a caller may send: [form, order, only, ignore, fallbacks, sort, floor, maxIn, maxOut, params, attempts]
    Workspaces,    \* workspace defaults, of the same fields
    RequestFacts,  \* [operation, e2ee, needs, output, ceiling]
    MaxProviderAttempts,
    MaxHealthChanges

Unbounded == 1000    \* no price cap, no latency or throughput known, no output limit

\* parsed numbers of a policy: a count of attempts, price caps
ASSUME PlanAssumption ==
    /\ PlanRoutes \subseteq Nat /\ IsFiniteSet(PlanRoutes) /\ MaxProviderAttempts \in Nat \ {0}
    /\ \A r \in PlanRoutes : \A f \in {"in", "out", "unit", "latency", "tps"} : RouteInfo[r][f] \in Int
    /\ \A w \in PolicyInputs \cup Workspaces :
          /\ w.attempts \in Nat \ {0} /\ w.maxIn \in Int /\ w.maxOut \in Int
          /\ w.fallbacks \in BOOLEAN /\ Len(w.order) \in Nat /\ DOMAIN w.order = 1..Len(w.order)
    /\ \A i \in PolicyInputs : i.form \in {"auto", "pin", "object"} /\ (i.form = "pin" => i.order # <<>>)
    /\ \A f \in RequestFacts : f.ceiling \in Int /\ f.output \in Int

VARIABLES
    health,    \* health[r]
    changes,   \* bound on health changes
    asked,     \* [input, workspace, facts] of the request
    plan,      \* the last plan: [ok, reason, attempts, floor, reserved, sized, was]
    attempt    \* the attempt under way

planVars == <<health, changes, asked, plan, attempt>>

-----------------------------------------------------------------------------
(* The policy.                                                              *)
\* `only` is an option: {} for no restriction, {S} for the slugs S.
AutoPolicy == [order |-> <<>>, only |-> {}, ignore |-> {}, fallbacks |-> TRUE, sort |-> "privacy", floor |-> "none",
               maxIn |-> Unbounded, maxOut |-> Unbounded, params |-> FALSE, attempts |-> MaxProviderAttempts, pin |-> FALSE]

PinPolicy(slug) == [AutoPolicy EXCEPT !.order = <<slug>>, !.only = {{slug}}, !.fallbacks = FALSE, !.attempts = 1,
                                      !.pin = TRUE]

\* the conflicts normalizeProviderPolicy refuses
PolicyConflict(i) ==
    /\ i.form = "object"
    /\ \/ \E o \in i.only : o \cap i.ignore # {}
       \/ ToSet(i.order) \cap i.ignore # {}
       \/ \E o \in i.only : ~(ToSet(i.order) \subseteq o)

NormalizeProviderPolicy(i) ==
    CASE i.form = "auto" -> AutoPolicy
      [] i.form = "pin" -> PinPolicy(i.order[1])
      [] OTHER -> [order |-> i.order, only |-> i.only, ignore |-> i.ignore, fallbacks |-> i.fallbacks, sort |-> i.sort,
                   floor |-> i.floor, maxIn |-> i.maxIn, maxOut |-> i.maxOut, params |-> i.params,
                   attempts |-> IF i.fallbacks THEN i.attempts ELSE 1, pin |-> FALSE]

\* the digest of a policy is equal exactly when the policies are
IsAutoProviderPolicy(p) == p = AutoPolicy

LesserOf(a, b) == IF a < b THEN a ELSE b

FloorRank(f) == IF f = "none" THEN -1 ELSE PrivacyRank(f)
StrongerFloor(a, b) == IF FloorRank(a) >= FloorRank(b) THEN a ELSE b

IntersectOnly(a, b) == IF a = {} THEN b ELSE IF b = {} THEN a ELSE {x \cap y : x \in a, y \in b}

\* (mutant) the request's limits replace the workspace's
RequestWins(p, w) == p

MergeWorkspaceProviderPolicy(p, w) ==
    LET fallbacks == p.fallbacks /\ w.fallbacks
    IN [order |-> p.order, only |-> IntersectOnly(p.only, w.only), ignore |-> p.ignore \cup w.ignore,
        fallbacks |-> fallbacks, sort |-> IF IsAutoProviderPolicy(p) THEN w.sort ELSE p.sort,
        floor |-> StrongerFloor(p.floor, w.floor),
        maxIn |-> LesserOf(p.maxIn, w.maxIn), maxOut |-> LesserOf(p.maxOut, w.maxOut),
        params |-> p.params \/ w.params,
        attempts |-> LesserOf(LesserOf(p.attempts, w.attempts), IF fallbacks THEN MaxProviderAttempts ELSE 1),
        pin |-> p.pin]

-----------------------------------------------------------------------------
(* The engine.                                                              *)
\* providerHealthFromSignals
HealthFromSignals(s) ==
    CASE s \in {"emergency", "inactive", "not-callable"} -> "disabled"
      [] s \in {"kill-switch", "open"} -> "temporarily_unavailable"
      [] s \in {"half_open", "stale", "failing"} -> "degraded"
      [] OTHER -> "healthy"

Attemptable(r) == health[r] \in {"healthy", "degraded"}

\* the public slugs a policy may name a route by: a base slug names its variants
SlugsOf(r) == LET public == PublicProviderSlug(RouteInfo[r].provider) IN {public} \cup BaseSlugs(public)

\* matchesSlug for some slug of a list
InList(r, slugs) == SlugsOf(r) \cap slugs # {}

OperationModelType(o) ==
    CASE o = "embeddings" -> "embedding" [] o = "image" -> "image" [] o = "speech" -> "tts" [] OTHER -> "text"

\* technicallyEligibleRoutes, health apart
Capable(r, p, f) ==
    LET i == RouteInfo[r] IN
    /\ i.type = OperationModelType(f.operation)
    /\ f.e2ee <=> i.privacy = "e2ee"
    /\ i.priced
    /\ \A o \in p.only : InList(r, o)
    /\ ~InList(r, p.ignore)
    /\ (f.needs \ {"reasoning"}) \subseteq i.features
    /\ p.params /\ "reasoning" \in f.needs => "reasoning" \in i.features
    /\ f.output <= i.maxOut

\* routeFitsRequestContext, once the prompt has been measured
FitsContext(r, f, sized) ==
    sized => CASE RouteInfo[r].type = "text" -> f.ceiling < RouteInfo[r].context /\ f.output <= RouteInfo[r].context - f.ceiling
               [] RouteInfo[r].type = "embedding" -> f.ceiling <= RouteInfo[r].context
               [] OTHER -> TRUE

PassesMaxPrice(r, p) == RouteInfo[r].in <= p.maxIn /\ RouteInfo[r].out <= p.maxOut

PriceKey(r) == IF RouteInfo[r].type \in {"image", "tts"} THEN RouteInfo[r].unit ELSE RouteInfo[r].in + RouteInfo[r].out
HealthKey(r) == IF health[r] = "healthy" THEN 0 ELSE 1
RankOf(r) == PrivacyRank(RouteInfo[r].privacy)

\* comparisonKeys: lower sorts earlier; a route's number stands for its stable id
ComparisonKeys(r, sort) ==
    LET tie == TieBreakRank(RouteInfo[r].provider)
        latency == RouteInfo[r].latency
    IN IF sort = "price" THEN <<PriceKey(r), HealthKey(r), latency, tie, r>>
       ELSE IF sort = "latency" THEN <<latency, HealthKey(r), PriceKey(r), tie, r>>
       ELSE IF sort = "throughput" THEN <<-RouteInfo[r].tps, HealthKey(r), PriceKey(r), tie, r>>
       ELSE <<-RankOf(r), HealthKey(r), PriceKey(r), latency, tie, r>>

CompareRoutes(a, b, sort) ==
    LET x == ComparisonKeys(a, sort)
        y == ComparisonKeys(b, sort)
    IN \E n \in DOMAIN x : x[n] < y[n] /\ \A m \in 1..(n - 1) : x[m] = y[m]

\* The place of a route in the explicit order: its first slug's, or after the last.
SlotOf(r, order) ==
    LET named == {n \in DOMAIN order : InList(r, {order[n]})}
    IN IF named = {} THEN Len(order) + 1 ELSE CHOOSE n \in named : \A m \in named : n <= m

\* Explicit entries beat sorting: which route is tried before which.
TriedBefore(p) ==
    {x \in PlanRoutes \X PlanRoutes :
        \/ SlotOf(x[1], p.order) < SlotOf(x[2], p.order)
        \/ SlotOf(x[1], p.order) = SlotOf(x[2], p.order) /\ CompareRoutes(x[1], x[2], p.sort)}

\* the members of a finite set in a total order: the nth has n - 1 before it
InOrder(S, before) ==
    [n \in 1..Cardinality(S) |-> CHOOSE x \in S : Cardinality({y \in S : <<y, x>> \in before}) = n - 1]

ExplicitRoutes(floored, order) == {r \in floored : SlotOf(r, order) <= Len(order)}

\* the hard floor: the policy's, or "private" for a sort other than privacy
HardFloor(p) == IF p.floor # "none" THEN FloorRank(p.floor) ELSE IF p.sort = "privacy" THEN -1 ELSE PrivacyRank("private")

\* (mutant) the floor is taken from the routes that fit the prompt
FloorOfFitting(ordered, f, sized) == {r \in ordered : FitsContext(r, f, sized)}

\* The no-downgrade floor is taken before the context fit.
FloorPool(ordered, f, sized) == ordered

\* the weakest class named in the order, or the first route's
ConfineFloor(ordered, explicit, p, f, sized) ==
    LET pool == FloorPool(ordered, f, sized)
    IN IF explicit # {} THEN CHOOSE k \in {RankOf(r) : r \in explicit} : \A r \in explicit : k <= RankOf(r)
       ELSE IF pool = {} THEN -1 ELSE RankOf(InOrder(pool, TriedBefore(p))[1])

Confine(ordered, explicit, p, f, sized) ==
    IF p.floor = "none" /\ p.sort = "privacy"
    THEN {r \in ordered : r \in explicit \/ RankOf(r) >= ConfineFloor(ordered, explicit, p, f, sized)}
    ELSE ordered

\* what an attempt may cost at most: prompt and output at the route's prices
ReservationCost(r, f) == RouteInfo[r].in * f.ceiling + RouteInfo[r].out * f.output

Failed(why) == [ok |-> FALSE, reason |-> why, attempts |-> <<>>, floor |-> "none", reserved |-> 0, sized |-> FALSE,
                was |-> health]

\* the bounded plan, its weakest class and what it reserves
Bounded(attempts, f, sized) ==
    LET weakest == CHOOSE r \in ToSet(attempts) : \A o \in ToSet(attempts) : RankOf(r) <= RankOf(o)
        costs == {ReservationCost(r, f) : r \in ToSet(attempts)}
    IN [ok |-> TRUE, reason |-> "none", attempts |-> attempts, floor |-> RouteInfo[weakest].privacy,
        reserved |-> CHOOSE c \in costs : \A d \in costs : d <= c, sized |-> sized, was |-> health]

PlanOfFitting(fitting, p, f, sized) ==
    IF fitting = {} THEN Failed("no_provider_route_fits_context")
    ELSE Bounded(SubSeq(InOrder(fitting, TriedBefore(p)), 1,
                        LesserOf(Cardinality(fitting), IF p.fallbacks THEN p.attempts ELSE 1)), f, sized)

\* the explicit routes, and the others when fallbacks are allowed or none is explicit
Ordered(floored, explicit, p) == IF p.fallbacks \/ explicit = {} THEN floored ELSE explicit

PlanOfOrder(ordered, explicit, p, f, sized) ==
    PlanOfFitting({r \in Confine(ordered, explicit, p, f, sized) : FitsContext(r, f, sized)}, p, f, sized)

PlanOfFloored(floored, explicit, p, f, sized) == PlanOfOrder(Ordered(floored, explicit, p), explicit, p, f, sized)

BuildProviderRoutingPlan(p, f, sized) ==
    LET capable == {r \in PlanRoutes : Attemptable(r) /\ Capable(r, p, f)}
        priced == {r \in capable : PassesMaxPrice(r, p)}
        floored == {r \in priced : RankOf(r) >= HardFloor(p)}
    IN IF capable = {} THEN Failed("no_provider_route")
       ELSE IF priced = {} THEN Failed("no_provider_route_meets_price")
       ELSE IF floored = {} THEN Failed("no_provider_route_meets_privacy")
       ELSE PlanOfFloored(floored, ExplicitRoutes(floored, p.order), p, f, sized)

Policy == MergeWorkspaceProviderPolicy(NormalizeProviderPolicy(asked.input), asked.workspace)

-----------------------------------------------------------------------------
(* The request.                                                             *)
NoPlan == [ok |-> FALSE, reason |-> "not asked", attempts |-> <<>>, floor |-> "none", reserved |-> 0, sized |-> FALSE,
           was |-> <<>>]

PlanInit ==
    /\ health = [r \in PlanRoutes |-> "healthy"]
    /\ changes = 0
    /\ asked \in [input : {i \in PolicyInputs : ~PolicyConflict(i)}, workspace : Workspaces, facts : RequestFacts]
    /\ plan = NoPlan
    /\ attempt = 0

HealthChanges(r) ==
    /\ changes < MaxHealthChanges
    /\ \E s \in {"emergency", "open", "half_open", "none"} :
          /\ HealthFromSignals(s) # health[r]
          /\ health' = [health EXCEPT ![r] = HealthFromSignals(s)]
    /\ changes' = changes + 1
    /\ UNCHANGED <<asked, plan, attempt>>

IssueTicket ==
    /\ plan.reason = "not asked"
    /\ plan' = BuildProviderRoutingPlan(Policy, asked.facts, FALSE)
    /\ UNCHANGED <<health, changes, asked, attempt>>

\* the redeemed request, measured, is planned again from the health of now
Authorize ==
    /\ plan.ok /\ ~plan.sized
    /\ plan' = BuildProviderRoutingPlan(Policy, asked.facts, TRUE)
    /\ attempt' = 1
    /\ UNCHANGED <<health, changes, asked>>

\* selectNextProviderAttempt: the next one, while there is one
NextProviderAttempt ==
    /\ plan.ok /\ plan.sized /\ attempt < Len(plan.attempts)
    /\ attempt' = attempt + 1
    /\ UNCHANGED <<health, changes, asked, plan>>

PlanNext ==
    \/ \E r \in PlanRoutes : HealthChanges(r)
    \/ IssueTicket
    \/ Authorize
    \/ NextProviderAttempt

-----------------------------------------------------------------------------
(* Properties.                                                              *)
\* Every attempt of a plan respects both the caller's and the workspace's
\* limits (providers, prices, privacy floor, number of attempts), was
\* attemptable when it was planned, is of the request's modality, and is
\* covered by the one reservation (mergeWorkspaceProviderPolicy and
\* buildProviderRoutingPlan).
AttemptsAreWithinLimits ==
    plan.ok =>
      LET limits == {NormalizeProviderPolicy(asked.input), asked.workspace} IN
      /\ \A l \in limits : Len(plan.attempts) <= l.attempts /\ (~l.fallbacks => Len(plan.attempts) = 1)
      /\ \A n \in DOMAIN plan.attempts :
           LET r == plan.attempts[n] IN
           /\ \A l \in limits :
                /\ \A o \in l.only : \E s \in SlugsOf(r) : s \in o
                /\ \A s \in SlugsOf(r) : s \notin l.ignore
                /\ RouteInfo[r].in <= l.maxIn /\ RouteInfo[r].out <= l.maxOut
                /\ l.floor # "none" => RankOf(r) >= PrivacyRank(l.floor)
           /\ plan.was[r] \in {"healthy", "degraded"}
           /\ asked.facts.e2ee <=> RouteInfo[r].privacy = "e2ee"
           /\ \A m \in 1..(n - 1) : plan.attempts[m] # r
           /\ ReservationCost(r, asked.facts) <= plan.reserved

\* Auto never moves a request to a weaker privacy class: when neither the
\* caller nor the workspace named a floor or an order and the sort is privacy,
\* every attempt is of the strongest class any attemptable route within the
\* limits had, even when only a weaker one could hold the prompt
\* (engine.ts:425-440).
NoSilentDowngrade ==
    plan.ok /\ Policy.floor = "none" /\ Policy.sort = "privacy" /\ Policy.order = <<>> =>
      \A n \in DOMAIN plan.attempts : \A r \in PlanRoutes :
        /\ plan.was[r] \in {"healthy", "degraded"}
        /\ Capable(r, Policy, asked.facts)
        /\ PassesMaxPrice(r, Policy)
        => RankOf(plan.attempts[n]) >= RankOf(r)

\* policy.ts:314-315: "a request can only make routing MORE constrained" than
\* its workspace's defaults alone.
RequestOnlyConstrains ==
    plan.ok /\ plan.was = health =>
      LET alone == BuildProviderRoutingPlan(MergeWorkspaceProviderPolicy(AutoPolicy, asked.workspace), asked.facts, plan.sized)
      IN alone.ok => \A n \in DOMAIN plan.attempts : RankOf(plan.attempts[n]) >= PrivacyRank(alone.floor)

\* Both: no attempt of a plan leaves what the caller and the workspace allowed.
PlanKeepsPolicy == AttemptsAreWithinLimits /\ NoSilentDowngrade
=============================================================================

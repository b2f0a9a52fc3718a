------------------------------ MODULE Catalog ------------------------------
(***************************************************************************)
(* Which provider routes a customer may be served: the eligibility of a    *)
(* stored row (src/providers/catalog/enablement.ts, freshness.ts), the     *)
(* confidential-route policy (confidentialRoutePolicy.ts) and the three    *)
(* queries every surface goes through (src/providers/registry.ts).         *)
(*                                                                         *)
(* The rows belong to control's apply engine and to operators, which are   *)
(* outside this repository.  What a row is for (its provider, type and     *)
(* ids) stays.  Its availability, review, quarantine, limits and prices    *)
(* change in any way, one at a time; its privacy class changes with a      *)
(* sync, and its `routing` column is written by a sync or an operator with *)
(* the decisions modelled here, by a control release whose hold list may   *)
(* be older than the reader's.  A query reads the rows and the clock once, *)
(* so the queries are operators on the state.                              *)
(***************************************************************************)
EXTENDS ProviderIdentity, Integers

CONSTANTS
    CatalogRows,    \* rows, numbered in the order of their public model ids
    RowInfo,        \* RowInfo[r]: [provider, type, privacy (at first), canonical, public, ns, external, fixture]
    ModelIds,       \* the ids a request may name
    IdNamespace,    \* IdNamespace[i]: what precedes the slash of id i
    GovernedClass,  \* GovernedClass[p]: the privacy class of provider p the policy governs
    VerifiedRoutes, \* <<provider, canonical, privacy>> of the policy's verified list
    StaleAfter, CriticalAfter,
    ListedClasses,  \* the privacy classes a sync may list a route under
    PriceCeiling,   \* ABSOLUTE_PRICE_CEILINGS, one per billed quantity
    CatalogMaxClock, MaxWrites

\* Only a member's own routes ever had its internal namespace: the normalizers
\* write their own provider's, Venice's a developer's (modelSlug.ts:15-58).
ASSUME CatalogAssumption ==
    /\ CatalogRows \subseteq Nat
    /\ StaleAfter \in Int /\ CriticalAfter \in Int /\ StaleAfter <= CriticalAfter
    /\ PriceCeiling \in [{"in", "out", "unit"} -> Int]
    /\ \A r \in CatalogRows : IsMemberInternalRouteId(RowInfo[r].ns) => RowInfo[r].provider = RowInfo[r].ns
    /\ ListedClasses \cup {RowInfo[r].privacy : r \in CatalogRows} \subseteq
         {"anonymous", "private", "tee", "e2ee", "unknown"}

NoPrice == -1

VARIABLES
    row,       \* row[r]: the changing columns of a row
    managed,   \* the providers with a catalog state, so ones that are synchronized
    success,   \* success[p]: time of the provider's last accepted sync; -1: none
    controlHold, \* the providers that control's release holds from Auto
    down,      \* providers that are inactive or under an emergency control: <<p, kind>>
    clockNow,
    enforced,  \* CONFIDENTIAL_ROUTE_POLICY_ENFORCED
    writes     \* bound on changes

settings == <<controlHold, enforced>>
catalogVars == <<row, managed, success, down, clockNow, settings, writes>>

Providers == {RowInfo[r].provider : r \in CatalogRows}

-----------------------------------------------------------------------------
(* The decisions.                                                           *)
HeldFromAuto == {"near-ai", "phala-ai"}

\* The hold lists of the releases control may run: near-ai was added with its
\* relayed routes.
HoldLists == {{"phala-ai"}, HeldFromAuto}
IsAutoRoutablePrivacy(c) == c \in {"anonymous", "private"}

\* (mutant) the hold alone
AutoByHold(r, c) == RowInfo[r].provider \notin controlHold

\* isAutoRoutableRoute, and the same two conditions in routingEligible, as
\* control evaluates them for a row of class c
IsAutoRoutableRoute(r, c) ==
    RowInfo[r].provider \notin controlHold /\ IsAutoRoutablePrivacy(c)

Positive(x) == x > 0

\* Which prices a type is billed by, and so needs and has ceilings for.
BilledBy(type) ==
    CASE type = "text" -> {"in", "out"}
      [] type = "embedding" -> {"in"}
      [] type \in {"image", "tts"} -> {"unit"}
      [] OTHER -> {}

\* findPriceCeilingBreach: a price equal to its ceiling is within it
PriceCeilingBreach(r, w) == \E q \in BilledBy(RowInfo[r].type) : w.price[q] > PriceCeiling[q]

\* protocolSupportsPrivacy
KnownPrivacy(c) == c \in {"anonymous", "private", "tee", "e2ee"}

CallableTypes == {"text", "embedding", "image", "tts"}

\* computeFreshness / the staleness test of evaluateStoredModelEligibility
StaleAt(p, t) == t - success[p] > StaleAfter

\* enablementFrozen: a snapshot arriving after a critical gap enables nothing new
EnablementFrozen(p) == success[p] >= 0 /\ clockNow - success[p] > CriticalAfter

Limits(r, w) ==
    /\ RowInfo[r].type \in {"text", "embedding"} => w.context
    /\ RowInfo[r].type = "text" => w.maxOutput

ReviewResolvable == {"pending_operator_review", "price_change_threshold", "operator_rejected"}

\* evaluateStoredModelEligibility: why a row is not served.  (The code returns
\* the first reason; a row is eligible when there is none.)
Faulty(r, w, reviewing) ==
    LET i == RowInfo[r] IN
    \/ IsLegacyMemberRouteId(i.provider, i.ns)
    \/ w.available # "online" \/ w.missing >= 3
    \/ w.status \in {"retired", "frozen", "offline", "deprecated", "unsupported"}
    \/ i.provider \in managed /\ (success[i.provider] < 0 \/ StaleAt(i.provider, clockNow))
    \/ ~reviewing /\ w.review # "approved"
    \/ i.type \notin CallableTypes \/ ~KnownPrivacy(w.privacy) \/ ~Limits(r, w)
    \/ \E q \in BilledBy(i.type) : ~Positive(w.price[q])
    \/ PriceCeilingBreach(r, w)
    \/ /\ w.status = "quarantined" \/ w.quarantine # "none"
       /\ ~(reviewing /\ w.quarantine \in ReviewResolvable)
    \/ ~w.listed

\* routingEligible of a row that has no fault
RoutingEligible(r) == RowInfo[r].type = "text" /\ IsAutoRoutableRoute(r, row[r].privacy)

\* baseEnablement: the decision of a sync for a row that is present
BaseEnablement(r, w) ==
    LET i == RowInfo[r]
        legacy == IsLegacyMemberRouteId(i.provider, i.ns)
        callable == /\ ~legacy /\ w.available = "online" /\ i.type \in CallableTypes
                    /\ i.type \in {"text", "embedding"} => KnownPrivacy(w.privacy) /\ Limits(r, w)
                    /\ \A q \in BilledBy(i.type) : Positive(w.price[q])
    IN [listed |-> ~legacy /\ w.available = "online",
        status |-> IF callable THEN "available"
                   ELSE IF ~legacy /\ w.available # "online" THEN "offline" ELSE "unsupported",
        routing |-> callable /\ i.type = "text" /\ IsAutoRoutableRoute(r, w.privacy)]

\* isPriceQuarantineTriggered: more than doubled, less than halved, or no longer priced
PriceQuarantineTriggered(previous, next) ==
    Positive(previous) /\ (~Positive(next) \/ next > 2 * previous \/ 2 * next < previous)

\* isConfidentialRouteWithheld: an allowlist inside a governed provider and class
Withheld(r) ==
    LET i == RowInfo[r]
        c == row[r].privacy
    IN  /\ enforced
        /\ i.provider \in DOMAIN GovernedClass /\ GovernedClass[i.provider] = c
        /\ <<i.provider, i.canonical, c>> \notin VerifiedRoutes

\* (mutant) the index of a filter callback taken for includeWithheld
EligibleAnyway(r, includeWithheld) == ~Faulty(r, row[r], FALSE)

\* runtimeEligible: the chokepoint
RuntimeEligible(r, includeWithheld) ==
    /\ ~includeWithheld => ~Withheld(r)
    /\ ~Faulty(r, row[r], FALSE)

-----------------------------------------------------------------------------
(* The queries.                                                             *)
\* m.enabled, an active provider, no emergency control, no fixture
Active(r) == row[r].enabled /\ <<RowInfo[r].provider, "inactive">> \notin down /\ ~RowInfo[r].fixture
Queried(r) == Active(r) /\ <<RowInfo[r].provider, "emergency">> \notin down

Matches(r, id) == id \in {RowInfo[r].public, RowInfo[r].external, RowInfo[r].canonical}

Price(r) == row[r].price["in"] + row[r].price["out"]
Exact(r, id) == IF RowInfo[r].public = id THEN 2 ELSE IF RowInfo[r].external = id THEN 1 ELSE 0

\* The comparison of getEnabledModel as a key: how exactly the id is matched
\* (unless it is canonical), privacy, price, tie-break, row order.
EnabledKey(r, id, canonical) ==
    <<IF canonical THEN 0 ELSE 2 - Exact(r, id), 3 - PrivacyRank(row[r].privacy), Price(r),
      TieBreakRank(RowInfo[r].provider), r>>

Before(a, b) == \E n \in DOMAIN a : a[n] < b[n] /\ \A m \in 1..(n - 1) : a[m] = b[m]

GetEnabledModel(id, p) ==
    IF IsMemberInternalRouteId(IdNamespace[id]) THEN {}
    ELSE LET eligible == {r \in CatalogRows : /\ Queried(r) /\ Matches(r, id)
                                              /\ p \in {"any", RowInfo[r].provider}
                                              /\ RuntimeEligible(r, FALSE)}
             canonical == {r \in eligible : RowInfo[r].canonical = id}
             candidates == IF canonical # {} THEN canonical ELSE eligible
         IN {r \in candidates : \A o \in candidates \ {r} :
                Before(EnabledKey(r, id, canonical # {}), EnabledKey(o, id, canonical # {}))}

\* The row that decides the canonical group: a row whose canonical id is the
\* requested one before one that merely carries it, then public-id order.
RequestedCanonical(id) ==
    LET named == {r \in CatalogRows : Active(r) /\ Matches(r, id)}
        canonical == {r \in named : RowInfo[r].canonical = id}
        pool == IF canonical # {} THEN canonical ELSE named
    IN {RowInfo[r].canonical : r \in {r \in pool : \A o \in pool : r <= o}}

ListProviderRoutesForModel(id, includeWithheld) ==
    IF IsMemberInternalRouteId(IdNamespace[id]) THEN {}
    ELSE LET group == RequestedCanonical(id)
         IN {r \in CatalogRows : Queried(r) /\ RowInfo[r].canonical \in group /\ RuntimeEligible(r, includeWithheld)}

ListEnabledModels == {r \in CatalogRows : Queried(r) /\ RuntimeEligible(r, FALSE)}

\* (mutant) the column is trusted
CandidatesByColumn == {r \in ListEnabledModels : row[r].routing}

\* filterRoutingPolicyModels before a customer's own patterns: the rows Auto may
\* be offered, by the stored column and the reader's own hold list.
AutoCandidates == {r \in ListEnabledModels : row[r].routing /\ RowInfo[r].provider \notin HeldFromAuto}

-----------------------------------------------------------------------------
(* Control and time.                                                        *)
Healthy(r) ==
    [privacy |-> RowInfo[r].privacy, available |-> "online", status |-> "available", listed |-> TRUE, missing |-> 0, review |-> "approved",
     quarantine |-> "none", context |-> TRUE, maxOutput |-> TRUE,
     price |-> [in |-> 1, out |-> 1, unit |-> 1], enabled |-> TRUE, routing |-> FALSE]

CatalogInit ==
    /\ row = [r \in CatalogRows |-> Healthy(r)]
    /\ managed \in SUBSET Providers
    /\ success = [p \in Providers |-> IF p \in managed THEN 0 ELSE -1]
    /\ controlHold \in HoldLists
    /\ down = {}
    /\ clockNow = 0
    /\ enforced \in BOOLEAN
    /\ writes = 0

Write(r, w) ==
    /\ writes < MaxWrites
    /\ writes' = writes + 1
    /\ row' = [row EXCEPT ![r] = w]
    /\ UNCHANGED <<managed, success, down, clockNow, settings>>

\* a column of the row changes
ControlWrites(r) ==
    LET w == row[r] IN
    \/ \E a \in {"online", "offline", "deprecated", "missing"} : Write(r, [w EXCEPT !.available = a])
    \/ \E s \in {"quarantined", "retired", "frozen"} : Write(r, [w EXCEPT !.status = s])
    \/ \E v \in {"pending", "rejected"} : Write(r, [w EXCEPT !.review = v])
    \/ \E q \in BilledBy(RowInfo[r].type), x \in {NoPrice, 2, PriceCeiling["in"] + 1} : Write(r, [w EXCEPT !.price[q] = x])
    \/ Write(r, [w EXCEPT !.quarantine = "pending_operator_review"])
    \/ Write(r, [w EXCEPT !.quarantine = "tampered"])
    \/ Write(r, [w EXCEPT !.missing = 3])
    \/ Write(r, [w EXCEPT !.context = FALSE])
    \/ Write(r, [w EXCEPT !.maxOutput = FALSE])
    \/ Write(r, [w EXCEPT !.listed = FALSE])
    \/ Write(r, [w EXCEPT !.enabled = FALSE])

\* An accepted sync of the row's provider with the row at price x and of class c:
\* a jump in price is quarantined, a change after a critical gap frozen.
SnapshotWrites(r, x, c) ==
    LET p == RowInfo[r].provider
        next == [row[r] EXCEPT !.privacy = c, !.price = [q \in DOMAIN @ |-> x], !.missing = 0]
        base == BaseEnablement(r, next)
        jumped == \E q \in BilledBy(RowInfo[r].type) : PriceQuarantineTriggered(row[r].price[q], x)
    IN /\ writes < MaxWrites
       /\ writes' = writes + 1
       /\ row' = [row EXCEPT ![r] =
             [next EXCEPT !.listed = base.listed,
                          !.status = IF jumped THEN "quarantined"
                                     ELSE IF EnablementFrozen(p) /\ next.price # row[r].price THEN "frozen"
                                     ELSE base.status,
                          !.quarantine = IF jumped THEN "price_change_threshold" ELSE @,
                          !.routing = base.routing /\ ~jumped]]
       /\ success' = [success EXCEPT ![p] = clockNow]
       /\ managed' = managed \cup {p}
       /\ UNCHANGED <<down, clockNow, settings>>

\* A provider gets a catalog state before its first accepted sync.
ManageProvider(p) ==
    /\ writes < MaxWrites /\ p \notin managed
    /\ writes' = writes + 1
    /\ managed' = managed \cup {p}
    /\ UNCHANGED <<row, success, down, clockNow, settings>>

\* Control is rolled out or back to the release with this hold list.
DeployControl(list) ==
    /\ writes < MaxWrites /\ list # controlHold
    /\ writes' = writes + 1
    /\ controlHold' = list
    /\ UNCHANGED <<row, managed, success, down, clockNow, enforced>>

\* An operator approves and enables a row that has no fault but a review's.
EnableRow(r) ==
    /\ ~Faulty(r, row[r], TRUE)
    /\ Write(r, [row[r] EXCEPT !.review = "approved", !.quarantine = "none", !.status = "available",
                               !.enabled = TRUE, !.routing = RoutingEligible(r)])

TakeDown(p, kind) ==
    /\ writes < MaxWrites /\ <<p, kind>> \notin down
    /\ writes' = writes + 1
    /\ down' = down \cup {<<p, kind>>}
    /\ UNCHANGED <<row, managed, success, clockNow, settings>>

CatalogTick ==
    /\ clockNow < CatalogMaxClock
    /\ clockNow' = clockNow + 1
    /\ UNCHANGED <<row, managed, success, down, settings, writes>>

CatalogNext ==
    \/ \E r \in CatalogRows : ControlWrites(r) \/ EnableRow(r)
    \/ \E r \in CatalogRows, x \in {NoPrice, 1, 2, 3}, c \in ListedClasses : SnapshotWrites(r, x, c)
    \/ \E p \in Providers : ManageProvider(p)
    \/ \E list \in HoldLists : DeployControl(list)
    \/ \E p \in Providers, k \in {"inactive", "emergency"} : TakeDown(p, k)
    \/ CatalogTick

-----------------------------------------------------------------------------
(* Properties.                                                              *)
Sound(r) ==
    LET w == row[r]
        i == RowInfo[r]
    IN /\ w.enabled /\ w.listed /\ w.review = "approved" /\ w.available = "online" /\ w.missing < 3
       /\ w.status = "available" /\ w.quarantine = "none"
       /\ i.provider \in managed => success[i.provider] >= 0 /\ clockNow - success[i.provider] <= StaleAfter
       /\ \A q \in BilledBy(i.type) : w.price[q] \in 1..PriceCeiling[q]
       /\ i.ns # "near-ai" /\ ~\E d \in down : d[1] = i.provider

\* Whatever a query answers, whatever the rows went through: the row is
\* approved, its provider present and up and, if the provider is one that is
\* synchronized, its catalog at most StaleAfter old; its prices are positive
\* and within the ceilings, nothing holds it in quarantine, its id is public,
\* and only a probe sees a route the policy withholds (the claim of
\* runtimeEligible, registry.ts:32-49).
ServedIsSound ==
    \A id \in ModelIds :
        /\ \A r \in ListProviderRoutesForModel(id, TRUE) : Sound(r)
        /\ \A r \in ListProviderRoutesForModel(id, FALSE) \cup ListEnabledModels
                     \cup UNION {GetEnabledModel(id, p) : p \in Providers \cup {"any"}} :
              /\ Sound(r)
              /\ enforced /\ RowInfo[r].provider \in DOMAIN GovernedClass
                   /\ row[r].privacy = GovernedClass[RowInfo[r].provider]
                 => <<RowInfo[r].provider, RowInfo[r].canonical, row[r].privacy>> \in VerifiedRoutes

\* Whatever release of control wrote a row's `routing` column, in a sync or for
\* an operator, and however the row's class changed since it was first marked:
\* Auto is offered only sound text rows of providers that are held from it by
\* nothing in force now, and of a class it may pick blindly (enablement.ts:255-296
\* and the filter of selector.ts:97-105).
AutoOffersAreAllowed ==
    \A r \in AutoCandidates :
        /\ Sound(r)
        /\ RowInfo[r].type = "text"
        /\ RowInfo[r].provider \notin {"near-ai", "phala-ai"}
        /\ row[r].privacy \in {"anonymous", "private"}

\* The header of freshness.ts: "While stale the last-known-good catalog keeps
\* serving": a route that was served while fresh, and whose row, provider and
\* policy did not change, is still served while the catalog is stale but not
\* critically stale.
StaleKeepsServing ==
    \A r \in CatalogRows :
        /\ row[r] = Healthy(r) /\ Queried(r) /\ ~Withheld(r)
        /\ ~IsLegacyMemberRouteId(RowInfo[r].provider, RowInfo[r].ns)
        /\ RowInfo[r].provider \in managed /\ success[RowInfo[r].provider] >= 0
        /\ clockNow - success[RowInfo[r].provider] <= CriticalAfter
        => RuntimeEligible(r, FALSE)
=============================================================================

-------------------------- MODULE ProviderIdentity --------------------------
(***************************************************************************)
(* What the catalog and the routing engine share about providers: the      *)
(* public identity of an internal provider (src/providers/publicIdentity.ts)*)
(* the privacy ladder and the tie-break order (src/providers/routing).     *)
(***************************************************************************)
EXTENDS Naturals, Sequences, FiniteSets

\* PUBLIC_PROVIDER_MEMBERS: providers presented under a public group, with the
\* namespace of their public route ids
Members == {"near-ai"}
MemberGroup(p) == "other"
RouteIdNamespace(p) == IF p \in Members THEN "other" ELSE p

\* the provider id a customer sees
PublicProviderSlug(p) == IF p \in Members THEN MemberGroup(p) ELSE p

\* the part of a slug before each of its slashes: of these providers, one has a variant
BaseSlugs(slug) == IF slug = "deepinfra/turbo" THEN {"deepinfra"} ELSE {}

\* a stored public id, of namespace ns, from before the provider moved
IsLegacyMemberRouteId(p, ns) == p \in Members /\ ns # RouteIdNamespace(p)

\* a customer's id in a member's internal namespace
IsMemberInternalRouteId(ns) == ns \in Members /\ RouteIdNamespace(ns) # ns

PrivacyRank(c) ==
    CASE c = "private" -> 1 [] c = "tee" -> 2 [] c = "e2ee" -> 3 [] OTHER -> 0

TieBreakOrder == <<"aws-bedrock", "chutes", "deepinfra", "fireworks", "mock", "phala-ai",
                   "tinfoil", "venice", "near-ai">>

TieBreakRank(p) ==
    IF \E i \in DOMAIN TieBreakOrder : TieBreakOrder[i] = p
    THEN CHOOSE i \in DOMAIN TieBreakOrder : TieBreakOrder[i] = p
    ELSE Len(TieBreakOrder) + 1
=============================================================================

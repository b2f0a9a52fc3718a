-------------------------- MODULE ConcurrencyLeases --------------------------
(***************************************************************************)
(* The concurrency leases of rate-limit/limiter.ts.  A limited key is a    *)
(* Valkey sorted set of lease ids scored by deadline; a request's          *)
(* association is a hash of the leases any control slot must release for   *)
(* it.                                                                     *)
(***************************************************************************)
EXTENDS Integers, FiniteSets, ValkeyClock

CONSTANTS
    Keys,
    Requests,
    NoRequest,  \* the owner of a lease acquired without a requestId
    Leases,     \* lease ids; each is drawn once
    Limit,      \* Limit[k]: leases key k admits
    Lifetimes   \* max(ttlSeconds, absoluteMaxSeconds) of the callers

ASSUME LeaseAssumption ==
    /\ Limit \in [Keys -> Nat \ {0}] /\ Lifetimes \subseteq Nat \ {0}
    /\ Keys # {} /\ NoRequest \notin Requests

VARIABLES
    zset,      \* zset[k]: lease ids of key k, gone once clock reaches expires[k]
    expires,
    assoc,     \* assoc[r]: lease ids of request r, gone once clock reaches assocExpires[r]
    assocExpires,
    lease,     \* lease[l]: [key, owner, deadline] of every granted lease
    granted,   \* leases whose acquire script answered 1
    released   \* leases their holder, or the end of their request, has released

leaseVars == <<clock, zset, expires, assoc, assocExpires, lease, granted, released>>

LeasesInit ==
    /\ clock = 0
    /\ zset = [k \in Keys |-> {}] /\ expires = [k \in Keys |-> 0]
    /\ assoc = [r \in Requests |-> {}] /\ assocExpires = [r \in Requests |-> 0]
    /\ lease = [l \in Leases |-> [key |-> CHOOSE k \in Keys : TRUE, owner |-> NoRequest, deadline |-> 0]]
    /\ granted = {} /\ released = {}

Members(k) == IF clock < expires[k] THEN zset[k] ELSE {}
Associated(r) == IF clock < assocExpires[r] THEN assoc[r] ELSE {}

\* ZREMRANGEBYSCORE key -inf at
Unexpired(k, at) == {l \in Members(k) : lease[l].deadline > at}

AtLeast(n, low) == IF n > low THEN n ELSE low

\* A mutation: the key lives as long as its shortest lease.
ExpireWithEarliestLease(k, deadlines, at) ==
    \/ deadlines = {} /\ expires' = [expires EXCEPT ![k] = 0]
    \/ \E first \in deadlines :
          /\ \A d \in deadlines : d >= first
          /\ expires' = [expires EXCEPT ![k] = clock + AtLeast(first - at, 1)]

\* expire_with_latest_lease: PEXPIRE to the latest deadline; an empty key is deleted.
ExpireWithLatestLease(k, deadlines, at) ==
    \/ deadlines = {} /\ expires' = [expires EXCEPT ![k] = 0]
    \/ \E latest \in deadlines :
          /\ \A d \in deadlines : d <= latest
          /\ expires' = [expires EXCEPT ![k] = clock + AtLeast(latest - at, 1)]

\* A mutation: the association lives as long as the lease that is added.
AssociationExpiryOfNew(r, deadline, at) == clock + AtLeast(deadline - at, 1)

\* PEXPIRE of the association: never shortens it.
AssociationExpiry(r, deadline, at) ==
    AtLeast(clock + AtLeast(deadline - at, 1), IF Associated(r) = {} THEN 0 ELSE assocExpires[r])
----------------------------------------------------------------------------
\* A mutation: the limit is passed rather than met.
AdmitsOneMore(k, at) == Cardinality(Unexpired(k, at)) <= Limit[k]

Admits(k, at) == Cardinality(Unexpired(k, at)) < Limit[k]

\* concurrencyAcquireScript that answers 1, for a lease of the given lifetime.
Acquire(l, k, owner, at, lifetime) ==
    LET deadline == at + lifetime
        members == Unexpired(k, at) \cup {l}
        lease1 == [lease EXCEPT ![l] = [key |-> k, owner |-> owner, deadline |-> deadline]]
    IN /\ l \notin granted
       /\ Admits(k, at)
       /\ lease' = lease1
       /\ granted' = granted \cup {l}
       /\ zset' = [zset EXCEPT ![k] = members]
       /\ ExpireWithLatestLease(k, {lease1[m].deadline : m \in members}, at)
       /\ IF owner = NoRequest THEN UNCHANGED <<assoc, assocExpires>>
          ELSE /\ assoc' = [assoc EXCEPT ![owner] = Associated(owner) \cup {l}]
               /\ assocExpires' = [assocExpires EXCEPT ![owner] = AssociationExpiry(owner, deadline, at)]
       /\ UNCHANGED <<clock, released>>

\* concurrencyAcquireScript that answers 0.
Refuse(l, k, at) ==
    /\ l \notin granted
    /\ ~Admits(k, at)
    /\ zset' = [zset EXCEPT ![k] = Unexpired(k, at)]
    /\ ExpireWithLatestLease(k, {lease[m].deadline : m \in Unexpired(k, at)}, at)
    /\ UNCHANGED <<clock, assoc, assocExpires, lease, granted, released>>

\* The closure acquireConcurrency returns: concurrencyReleaseScript, once.
Release(l, at) ==
    LET k == lease[l].key
        members == Unexpired(k, at) \ {l}
    IN /\ l \in granted \ released
       /\ released' = released \cup {l}
       /\ zset' = [zset EXCEPT ![k] = members]
       /\ ExpireWithLatestLease(k, {lease[m].deadline : m \in members}, at)
       /\ UNCHANGED <<clock, assoc, assocExpires, lease, granted>>

\* releaseRequestConcurrency, from any slot.  Key TTLs stay as they are.
ReleaseRequest(r) ==
    /\ zset' = [k \in Keys |-> Members(k) \ Associated(r)]
    /\ assoc' = [assoc EXCEPT ![r] = {}]
    /\ assocExpires' = [assocExpires EXCEPT ![r] = 0]
    /\ released' = released \cup {l \in granted : lease[l].owner = r}
    /\ UNCHANGED <<clock, expires, lease, granted>>

LeasesTick ==
    /\ Advance
    /\ UNCHANGED <<zset, expires, assoc, assocExpires, lease, granted, released>>

LeasesNext ==
    \/ \E l \in Leases, k \in Keys, owner \in Requests \cup {NoRequest}, at \in Stamps, lifetime \in Lifetimes :
          Acquire(l, k, owner, at, lifetime)
    \/ \E l \in Leases, k \in Keys, at \in Stamps : Refuse(l, k, at)
    \/ \E l \in Leases, at \in Stamps : Release(l, at)
    \/ \E r \in Requests : ReleaseRequest(r)
    \/ LeasesTick

LeasesSpec == LeasesInit /\ [][LeasesNext]_leaseVars
----------------------------------------------------------------------------
LeaseRecords == [key : Keys, owner : Requests \cup {NoRequest}, deadline : Nat]

\* Only a lease that was granted is ever counted or associated.
LeasesTypeOK ==
    /\ clock \in Nat
    /\ granted \subseteq Leases /\ released \subseteq granted
    /\ zset \in [Keys -> SUBSET granted] /\ expires \in [Keys -> Nat]
    /\ assoc \in [Requests -> SUBSET granted] /\ assocExpires \in [Requests -> Nat]
    /\ lease \in [Leases -> LeaseRecords]

\* The leases of key k that are in use: granted, not given back, not past their deadline.
InUse(k) == {l \in granted \ released : lease[l].key = k /\ clock < lease[l].deadline}

\* A lease in use is counted: no TTL that another lease, a release or a refusal
\* sets drops it early, however late the scripts run.
InUseIsCounted == \A k \in Keys : InUse(k) \subseteq Members(k)

\* A key has never more leases in use than its limit.
WithinLimit == \A k \in Keys : Cardinality(InUse(k)) <= Limit[k]

\* A released lease takes no place of its key, whether its holder or another
\* slot ended it: the association still knew every lease of the request.
ReleasedIsFree ==
    \A l \in released : clock < lease[l].deadline => l \notin Members(lease[l].key)
============================================================================

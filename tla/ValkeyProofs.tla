---------------------------- MODULE ValkeyProofs ----------------------------
(***************************************************************************)
(* The protection state in Valkey, for any keys, limits, requests,         *)
(* lifetimes and lateness of the scripts, and any number of racing calls.  *)
(***************************************************************************)
EXTENDS MCValkey, FiniteSetTheorems, NaturalsInduction, WellFoundedInduction, TLAPS

-----------------------------------------------------------------------------
\* Concurrency leases: a lease in use is counted, a key stays within its limit,
\* and a released lease takes no place.

\* A key outlives every lease it counts.
KeyInv(k) == \A l \in zset[k] : lease[l].key = k /\ lease[l].deadline <= expires[k]

SizeInv(k) == IsFiniteSet(zset[k]) /\ Cardinality(zset[k]) <= Limit[k]

\* A lease in use is in its key, and its association outlives it.
UseInv(l) ==
    (l \notin released /\ clock < lease[l].deadline) =>
        /\ l \in zset[lease[l].key]
        /\ lease[l].owner # NoRequest =>
              l \in assoc[lease[l].owner] /\ lease[l].deadline <= assocExpires[lease[l].owner]

FreeInv(l) == clock < lease[l].deadline => l \notin zset[lease[l].key]

\* An association holds leases of its own request only.
OwnerInv(r) == \A l \in assoc[r] : lease[l].owner = r

LeasesInv ==
    /\ LeasesTypeOK
    /\ \A k \in Keys : KeyInv(k) /\ SizeInv(k)
    /\ \A l \in granted : UseInv(l)
    /\ \A l \in released : FreeInv(l)
    /\ \A r \in Requests : OwnerInv(r)

USE LeaseAssumption, ClockAssumption
----------------------------------------------------------------------------
\* The TTL a script sets lets the key outlive every deadline it was given.
LEMMA ExpiryCovers ==
    ASSUME clock \in Nat, expires \in [Keys -> Nat], NEW k \in Keys, NEW at \in 0 .. clock,
           NEW deadlines \in SUBSET Nat, ExpireWithLatestLease(k, deadlines, at)
    PROVE  /\ expires' \in [Keys -> Nat]
           /\ \A d \in deadlines : d <= expires'[k]
           /\ \A j \in Keys \ {k} : expires'[j] = expires[j]
  <1>1. CASE deadlines = {} /\ expires' = [expires EXCEPT ![k] = 0]
    BY <1>1
  <1>2. ASSUME NEW latest \in deadlines, \A d \in deadlines : d <= latest,
               expires' = [expires EXCEPT ![k] = clock + AtLeast(latest - at, 1)]
        PROVE  /\ expires' \in [Keys -> Nat]
               /\ \A d \in deadlines : d <= expires'[k]
               /\ \A j \in Keys \ {k} : expires'[j] = expires[j]
    <2> DEFINE x == clock + AtLeast(latest - at, 1)
    <2>1. x \in Nat /\ latest <= x
      BY DEF AtLeast
    <2> HIDE DEF x
    <2>2. expires'[k] = x /\ expires' \in [Keys -> Nat] /\ \A j \in Keys \ {k} : expires'[j] = expires[j]
      BY <1>2, <2>1 DEF x
    <2>3. ASSUME NEW d \in deadlines PROVE d <= expires'[k]
      <3>1. d <= latest /\ d \in Nat /\ latest \in Nat
        BY <1>2
      <3> QED BY <2>1, <2>2, <3>1
    <2> QED BY <2>2, <2>3
  <1> QED BY <1>1, <1>2 DEF ExpireWithLatestLease

\* The leases a script finds unexpired.
LEMMA UnexpiredFacts ==
    ASSUME LeasesInv, NEW k \in Keys, NEW at \in 0 .. clock
    PROVE  /\ Unexpired(k, at) \subseteq zset[k]
           /\ IsFiniteSet(Unexpired(k, at)) /\ Cardinality(Unexpired(k, at)) \in Nat
           /\ Cardinality(Unexpired(k, at)) <= Limit[k]
           /\ \A l \in zset[k] : clock < lease[l].deadline => l \in Unexpired(k, at)
  <1>1. Unexpired(k, at) \subseteq zset[k]
    BY DEF Unexpired, Members
  <1>2. IsFiniteSet(zset[k]) /\ Cardinality(zset[k]) <= Limit[k] /\ Limit[k] \in Nat
    BY DEF LeasesInv, SizeInv
  <1>3. /\ IsFiniteSet(Unexpired(k, at)) /\ Cardinality(Unexpired(k, at)) \in Nat
        /\ Cardinality(Unexpired(k, at)) <= Limit[k]
    <2>1. IsFiniteSet(Unexpired(k, at)) /\ Cardinality(Unexpired(k, at)) <= Cardinality(zset[k])
      BY <1>1, <1>2, FS_Subset
    <2>2. Cardinality(zset[k]) \in Nat /\ Cardinality(Unexpired(k, at)) \in Nat
      BY <1>2, <2>1, FS_CardinalityType
    <2> QED BY <1>2, <2>1, <2>2
  <1>4. ASSUME NEW l \in zset[k], clock < lease[l].deadline PROVE l \in Unexpired(k, at)
    <2>1. l \in Leases /\ clock \in Nat /\ expires[k] \in Nat
      BY DEF LeasesInv, LeasesTypeOK
    <2>2. lease[l].deadline \in Nat /\ lease[l].deadline <= expires[k]
      BY <2>1 DEF LeasesInv, LeasesTypeOK, KeyInv, LeaseRecords
    <2> QED BY <1>4, <2>1, <2>2 DEF Unexpired, Members
  <1> QED BY <1>1, <1>3, <1>4

\* A script that removes the expired leases of key k, and gone, which no longer
\* counts, changes nothing else the invariant speaks of.
LEMMA KeyTrimmed ==
    ASSUME LeasesInv, NEW k \in Keys, NEW at \in 0 .. clock, NEW gone \in SUBSET granted,
           zset' = [zset EXCEPT ![k] = Unexpired(k, at) \ gone],
           ExpireWithLatestLease(k, {lease[m].deadline : m \in Unexpired(k, at) \ gone}, at),
           released' = released \cup gone, \A l \in gone : lease[l].key = k,
           UNCHANGED <<clock, assoc, assocExpires, lease, granted>>
    PROVE  LeasesInv'
  <1> DEFINE S == Unexpired(k, at) \ gone
             D == {lease[m].deadline : m \in S}
  <1>1. /\ S \subseteq zset[k] /\ S \subseteq granted /\ S \subseteq Leases /\ zset[k] \subseteq granted
        /\ clock \in Nat /\ expires \in [Keys -> Nat]
    BY UnexpiredFacts DEF LeasesInv, LeasesTypeOK
  <1>2. D \in SUBSET Nat
    BY <1>1 DEF LeasesInv, LeasesTypeOK, LeaseRecords
  <1>3. /\ expires' \in [Keys -> Nat] /\ \A d \in D : d <= expires'[k]
        /\ \A j \in Keys \ {k} : expires'[j] = expires[j]
    BY <1>1, <1>2, ExpiryCovers
  <1>4. zset'[k] = S /\ \A j \in Keys \ {k} : zset'[j] = zset[j]
    BY DEF LeasesInv, LeasesTypeOK
  <1>5. LeasesTypeOK'
    <2>1. zset' \in [Keys -> SUBSET granted]
      BY <1>1 DEF LeasesInv, LeasesTypeOK
    <2> QED BY <1>3, <2>1 DEF LeasesInv, LeasesTypeOK
  <1>6. ASSUME NEW j \in Keys PROVE KeyInv(j)' /\ SizeInv(j)'
    <2>1. CASE j = k
      <3>1. IsFiniteSet(S) /\ Cardinality(S) <= Limit[k]
        <4>1. IsFiniteSet(Unexpired(k, at)) /\ Cardinality(Unexpired(k, at)) <= Limit[k]
              /\ Cardinality(Unexpired(k, at)) \in Nat /\ Limit[k] \in Nat
          BY UnexpiredFacts
        <4>2. IsFiniteSet(S) /\ Cardinality(S) <= Cardinality(Unexpired(k, at))
          BY <4>1, FS_Subset
        <4>3. Cardinality(S) \in Nat
          BY <4>2, FS_CardinalityType
        <4> QED BY <4>1, <4>2, <4>3
      <3>2. SizeInv(k)'
        BY <1>4, <3>1 DEF SizeInv
      <3>3. KeyInv(k)'
        <4>1. ASSUME NEW l \in S PROVE lease[l].key = k /\ lease[l].deadline <= expires'[k]
          BY <1>1, <1>3 DEF LeasesInv, KeyInv
        <4> QED BY <1>4, <4>1 DEF KeyInv
      <3> QED BY <2>1, <3>2, <3>3
    <2>2. CASE j # k
      <3>1. zset'[j] = zset[j] /\ expires'[j] = expires[j]
        BY <1>3, <1>4, <2>2
      <3> QED BY <3>1 DEF LeasesInv, KeyInv, SizeInv
    <2> QED BY <2>1, <2>2
  <1>7. ASSUME NEW l \in granted' PROVE UseInv(l)'
    <2>1. l \in granted /\ l \in Leases /\ lease[l].key \in Keys
      BY DEF LeasesInv, LeasesTypeOK, LeaseRecords
    <2>2. ASSUME l \notin released', clock < lease[l].deadline PROVE l \in zset'[lease[l].key]
      <3>1. l \in zset[lease[l].key] /\ l \notin gone
        BY <2>1, <2>2 DEF LeasesInv, UseInv
      <3>2. CASE lease[l].key = k
        BY <1>4, <2>2, <3>1, <3>2, UnexpiredFacts
      <3>3. CASE lease[l].key # k
        BY <1>4, <2>1, <3>1, <3>3
      <3> QED BY <3>2, <3>3
    <2> QED BY <2>1, <2>2 DEF LeasesInv, UseInv
  <1>8. ASSUME NEW l \in released' PROVE FreeInv(l)'
    <2>1. l \in Leases /\ lease[l].key \in Keys
      BY DEF LeasesInv, LeasesTypeOK, LeaseRecords
    <2>2. CASE l \in gone
      BY <1>4, <2>2 DEF FreeInv
    <2>3. CASE l \in released
      BY <1>1, <1>4, <2>1, <2>3 DEF LeasesInv, FreeInv
    <2> QED BY <2>2, <2>3
  <1>9. ASSUME NEW r \in Requests PROVE OwnerInv(r)'
    BY DEF LeasesInv, OwnerInv
  <1> QED BY <1>5, <1>6, <1>7, <1>8, <1>9 DEF LeasesInv
----------------------------------------------------------------------------
LEMMA RefuseKeeps ==
    ASSUME LeasesInv, NEW l \in Leases, NEW k \in Keys, NEW at \in 0 .. clock, Refuse(l, k, at) PROVE LeasesInv'
  <1>1. Unexpired(k, at) \ {} = Unexpired(k, at) /\ released \cup {} = released
    OBVIOUS
  <1> QED BY <1>1, KeyTrimmed, {} \in SUBSET granted DEF Refuse

\* release takes the lease out of its key.
LEMMA ReleaseKeeps ==
    ASSUME LeasesInv, NEW l \in Leases, NEW at \in 0 .. clock, Release(l, at) PROVE LeasesInv'
  <1>1. lease[l].key \in Keys /\ {l} \in SUBSET granted
    BY DEF LeasesInv, LeasesTypeOK, LeaseRecords, Release
  <1>2. \A m \in {l} : lease[m].key = lease[l].key
    OBVIOUS
  <1> QED BY <1>1, <1>2, KeyTrimmed DEF Release

\* acquire drops what expired, then counts and adds.
LEMMA AcquireKeeps ==
    ASSUME LeasesInv, NEW l \in Leases, NEW k \in Keys, NEW owner \in Requests \cup {NoRequest},
           NEW at \in 0 .. clock, NEW lifetime \in Lifetimes, Acquire(l, k, owner, at, lifetime)
    PROVE  LeasesInv'
  <1> DEFINE deadline == at + lifetime
             U == Unexpired(k, at)
             S == U \cup {l}
             D == {lease'[m].deadline : m \in S}
             new == [key |-> k, owner |-> owner, deadline |-> deadline]
  <1>1. /\ l \notin granted /\ lease' = [lease EXCEPT ![l] = new] /\ granted' = granted \cup {l}
        /\ zset' = [zset EXCEPT ![k] = S] /\ Admits(k, at) /\ UNCHANGED <<clock, released>>
    BY DEF Acquire
  <1>2. /\ U \subseteq zset[k] /\ U \subseteq granted /\ granted \subseteq Leases /\ zset[k] \subseteq granted
        /\ clock \in Nat /\ expires \in [Keys -> Nat] /\ deadline \in Nat
    <2>1. at \in Nat /\ lifetime \in Nat /\ clock \in Nat
      BY DEF LeasesInv, LeasesTypeOK
    <2> QED BY <2>1, UnexpiredFacts DEF LeasesInv, LeasesTypeOK
  <1>3. new \in LeaseRecords
    BY <1>2 DEF LeaseRecords
  <1>4. /\ lease'[l] = new /\ lease' \in [Leases -> LeaseRecords]
        /\ \A m \in granted : lease'[m] = lease[m]
    BY <1>1, <1>2, <1>3 DEF LeasesInv, LeasesTypeOK
  <1>5. D \in SUBSET Nat
    BY <1>2, <1>4 DEF LeaseRecords
  <1>6. /\ expires' \in [Keys -> Nat] /\ \A d \in D : d <= expires'[k]
        /\ \A j \in Keys \ {k} : expires'[j] = expires[j]
    <2>1. ExpireWithLatestLease(k, D, at)
      BY <1>1 DEF Acquire
    <2> QED BY <1>2, <1>5, <2>1, ExpiryCovers
  <1>7. zset'[k] = S /\ \A j \in Keys \ {k} : zset'[j] = zset[j]
    BY <1>1 DEF LeasesInv, LeasesTypeOK
  <1>8. /\ \A r \in Requests : assoc'[r] \subseteq assoc[r] \cup {l} /\ (l \in assoc'[r] => r = owner)
        /\ assoc' \in [Requests -> SUBSET granted'] /\ assocExpires' \in [Requests -> Nat]
        /\ \A r \in Requests : clock < assocExpires[r] /\ assoc[r] # {} =>
              assoc[r] \subseteq assoc'[r] /\ assocExpires[r] <= assocExpires'[r]
        /\ owner # NoRequest => l \in assoc'[owner] /\ deadline <= assocExpires'[owner]
    <2>1. CASE owner = NoRequest
      <3>1. UNCHANGED <<assoc, assocExpires>>
        BY <2>1 DEF Acquire
      <3> QED BY <1>1, <2>1, <3>1 DEF LeasesInv, LeasesTypeOK
    <2>2. CASE owner # NoRequest
      <3> DEFINE x == AssociationExpiry(owner, deadline, at)
      <3>1. owner \in Requests /\ assocExpires[owner] \in Nat /\ Associated(owner) \subseteq assoc[owner]
            /\ assoc[owner] \subseteq granted
        BY <2>2 DEF LeasesInv, LeasesTypeOK, Associated
      <3>2. /\ assoc' = [assoc EXCEPT ![owner] = Associated(owner) \cup {l}]
            /\ assocExpires' = [assocExpires EXCEPT ![owner] = x]
        BY <2>2 DEF Acquire
      <3>3. x \in Nat /\ deadline <= x /\ (Associated(owner) # {} => assocExpires[owner] <= x)
        <4>1. clock + AtLeast(deadline - at, 1) \in Nat /\ deadline <= clock + AtLeast(deadline - at, 1)
          BY <1>2 DEF AtLeast
        <4> QED BY <1>2, <3>1, <4>1 DEF AssociationExpiry, AtLeast
      <3>4. (clock < assocExpires[owner]) => Associated(owner) = assoc[owner]
        BY DEF Associated
      <3> HIDE DEF x, deadline
      <3>5. /\ assoc'[owner] = Associated(owner) \cup {l} /\ assocExpires'[owner] = x
            /\ \A r \in Requests \ {owner} : assoc'[r] = assoc[r] /\ assocExpires'[r] = assocExpires[r]
            /\ assoc' \in [Requests -> SUBSET granted'] /\ assocExpires' \in [Requests -> Nat]
        BY <1>1, <3>1, <3>2, <3>3 DEF LeasesInv, LeasesTypeOK
      <3>6. ASSUME NEW r \in Requests, clock < assocExpires[r], assoc[r] # {}
            PROVE  assoc[r] \subseteq assoc'[r] /\ assocExpires[r] <= assocExpires'[r]
        BY <3>3, <3>4, <3>5, <3>6 DEF LeasesInv, LeasesTypeOK
      <3> QED BY <1>1, <3>1, <3>3, <3>4, <3>5, <3>6 DEF LeasesInv, LeasesTypeOK
    <2> QED BY <2>1, <2>2
  <1>9. LeasesTypeOK'
    BY <1>1, <1>2, <1>4, <1>6, <1>8 DEF LeasesInv, LeasesTypeOK
  <1>10. ASSUME NEW j \in Keys PROVE KeyInv(j)' /\ SizeInv(j)'
    <2>1. CASE j = k
      <3>1. SizeInv(k)'
        <4>1. IsFiniteSet(U) /\ Cardinality(U) \in Nat /\ Cardinality(U) < Limit[k] /\ Limit[k] \in Nat
          BY <1>1, UnexpiredFacts DEF Admits
        <4>2. IsFiniteSet(S) /\ Cardinality(S) = Cardinality(U) + 1
          <5>1. l \notin U
            BY <1>1, <1>2
          <5> HIDE DEF U
          <5> QED BY <4>1, <5>1, FS_AddElement
        <4>3. Cardinality(S) <= Limit[k]
          <5> HIDE DEF U, S
          <5> QED BY <4>1, <4>2
        <4> QED BY <1>7, <4>2, <4>3 DEF SizeInv
      <3>2. KeyInv(k)'
        <4>1. ASSUME NEW m \in S PROVE lease'[m].key = k /\ lease'[m].deadline <= expires'[k]
          <5>1. lease'[m].deadline <= expires'[k]
            BY <1>6
          <5>2. CASE m = l
            BY <1>4, <5>1, <5>2
          <5>3. CASE m \in U
            BY <1>2, <1>4, <5>1, <5>3 DEF LeasesInv, KeyInv
          <5> QED BY <5>2, <5>3
        <4> QED BY <1>7, <4>1 DEF KeyInv
      <3> QED BY <2>1, <3>1, <3>2
    <2>2. CASE j # k
      <3>1. zset'[j] = zset[j] /\ expires'[j] = expires[j] /\ zset[j] \subseteq granted
        BY <1>6, <1>7, <2>2 DEF LeasesInv, LeasesTypeOK
      <3> QED BY <1>4, <3>1 DEF LeasesInv, KeyInv, SizeInv
    <2> QED BY <2>1, <2>2
  <1>11. ASSUME NEW m \in granted' PROVE UseInv(m)'
    <2>1. CASE m = l
      BY <1>1, <1>4, <1>7, <1>8, <2>1 DEF UseInv
    <2>2. CASE m \in granted
      <3>1. lease'[m] = lease[m] /\ m \in Leases /\ lease[m] \in LeaseRecords
        BY <1>2, <1>4, <2>2 DEF LeasesInv, LeasesTypeOK
      <3>2. lease[m].key \in Keys /\ lease[m].owner \in Requests \cup {NoRequest} /\ lease[m].deadline \in Nat
        BY <3>1 DEF LeaseRecords
      <3>3. SUFFICES ASSUME m \notin released, clock < lease[m].deadline
                     PROVE  /\ m \in zset'[lease[m].key]
                            /\ lease[m].owner # NoRequest =>
                                  /\ m \in assoc'[lease[m].owner]
                                  /\ lease[m].deadline <= assocExpires'[lease[m].owner]
        BY <1>1, <3>1 DEF UseInv
      <3>4. /\ m \in zset[lease[m].key]
            /\ lease[m].owner # NoRequest =>
                  m \in assoc[lease[m].owner] /\ lease[m].deadline <= assocExpires[lease[m].owner]
        BY <2>2, <3>3 DEF LeasesInv, UseInv
      <3>5. m \in zset'[lease[m].key]
        <4>1. CASE lease[m].key = k
          BY <1>7, <3>3, <3>4, <4>1, UnexpiredFacts
        <4>2. CASE lease[m].key # k
          BY <1>7, <3>2, <3>4, <4>2
        <4> QED BY <4>1, <4>2
      <3>6. ASSUME lease[m].owner # NoRequest
            PROVE  m \in assoc'[lease[m].owner] /\ lease[m].deadline <= assocExpires'[lease[m].owner]
        <4> DEFINE r == lease[m].owner
        <4>1. r \in Requests /\ assocExpires[r] \in Nat /\ assocExpires'[r] \in Nat
          BY <1>8, <3>2, <3>6 DEF LeasesInv, LeasesTypeOK
        <4>2. clock < assocExpires[r] /\ assoc[r] # {} /\ lease[m].deadline <= assocExpires[r]
          BY <1>2, <3>2, <3>3, <3>4, <3>6, <4>1
        <4>3. m \in assoc'[r] /\ assocExpires[r] <= assocExpires'[r]
          BY <1>8, <3>4, <3>6, <4>1, <4>2
        <4> QED BY <3>2, <4>1, <4>2, <4>3
      <3> QED BY <3>5, <3>6
    <2> QED BY <1>1, <2>1, <2>2
  <1>12. ASSUME NEW m \in released' PROVE FreeInv(m)'
    <2>1. m \in released /\ m \in granted /\ m # l /\ m \in Leases
      BY <1>1, <1>2 DEF LeasesInv, LeasesTypeOK
    <2>2. lease'[m] = lease[m] /\ lease[m].key \in Keys
      BY <1>4, <2>1 DEF LeasesInv, LeasesTypeOK, LeaseRecords
    <2>3. ASSUME clock < lease[m].deadline PROVE m \notin zset'[lease[m].key]
      <3>1. m \notin zset[lease[m].key]
        BY <2>1, <2>3 DEF LeasesInv, FreeInv
      <3>2. CASE lease[m].key = k
        BY <1>2, <1>7, <2>1, <3>1, <3>2
      <3>3. CASE lease[m].key # k
        BY <1>7, <2>2, <3>1, <3>3
      <3> QED BY <3>2, <3>3
    <2> QED BY <1>1, <2>2, <2>3 DEF FreeInv
  <1>13. ASSUME NEW r \in Requests PROVE OwnerInv(r)'
    <2>1. ASSUME NEW m \in assoc'[r] PROVE lease'[m].owner = r
      <3>1. CASE m = l
        BY <1>4, <1>8, <3>1
      <3>2. CASE m # l
        <4>1. m \in assoc[r] /\ m \in granted
          BY <1>8, <3>2 DEF LeasesInv, LeasesTypeOK
        <4> QED BY <1>4, <4>1 DEF LeasesInv, OwnerInv
      <3> QED BY <3>1, <3>2
    <2> QED BY <2>1 DEF OwnerInv
  <1> QED BY <1>9, <1>10, <1>11, <1>12, <1>13 DEF LeasesInv

\* A request's association names every lease of it that is still in use.
LEMMA ReleaseRequestKeeps == ASSUME LeasesInv, NEW q \in Requests, ReleaseRequest(q) PROVE LeasesInv'
  <1>1. /\ zset' = [k \in Keys |-> Members(k) \ Associated(q)]
        /\ assoc' = [assoc EXCEPT ![q] = {}] /\ assocExpires' = [assocExpires EXCEPT ![q] = 0]
        /\ released' = released \cup {l \in granted : lease[l].owner = q}
        /\ UNCHANGED <<clock, expires, lease, granted>>
    BY DEF ReleaseRequest
  <1>2. \A k \in Keys : zset'[k] \subseteq zset[k] /\ zset[k] \subseteq granted
    BY <1>1 DEF LeasesInv, LeasesTypeOK, Members
  <1>3. LeasesTypeOK'
    <2>1. zset' \in [Keys -> SUBSET granted]
      BY <1>1, <1>2
    <2>2. assoc' \in [Requests -> SUBSET granted] /\ assocExpires' \in [Requests -> Nat]
      BY <1>1 DEF LeasesInv, LeasesTypeOK
    <2>3. released' \subseteq granted
      BY <1>1 DEF LeasesInv, LeasesTypeOK
    <2> QED BY <1>1, <2>1, <2>2, <2>3 DEF LeasesInv, LeasesTypeOK
  <1>4. ASSUME NEW k \in Keys PROVE KeyInv(k)' /\ SizeInv(k)'
    <2>1. KeyInv(k)'
      BY <1>1, <1>2 DEF LeasesInv, KeyInv
    <2>2. SizeInv(k)'
      <3>1. IsFiniteSet(zset[k]) /\ Cardinality(zset[k]) <= Limit[k] /\ Limit[k] \in Nat
        BY DEF LeasesInv, SizeInv
      <3>2. IsFiniteSet(zset'[k]) /\ Cardinality(zset'[k]) <= Cardinality(zset[k])
        BY <1>2, <3>1, FS_Subset
      <3>3. Cardinality(zset'[k]) \in Nat /\ Cardinality(zset[k]) \in Nat
        BY <3>1, <3>2, FS_CardinalityType
      <3>4. Cardinality(zset'[k]) <= Limit[k]
        BY <3>1, <3>2, <3>3
      <3> QED BY <3>2, <3>4 DEF SizeInv
    <2> QED BY <2>1, <2>2
  <1>5. ASSUME NEW l \in granted' PROVE UseInv(l)'
    <2>1. l \in granted /\ l \in Leases /\ lease[l].key \in Keys /\ lease[l].deadline \in Nat
          /\ clock \in Nat /\ lease[l].owner \in Requests \cup {NoRequest} /\ expires \in [Keys -> Nat]
      BY <1>1 DEF LeasesInv, LeasesTypeOK, LeaseRecords
    <2>2. SUFFICES ASSUME l \notin released', clock < lease[l].deadline
                   PROVE  /\ l \in zset'[lease[l].key]
                          /\ lease[l].owner # NoRequest =>
                                /\ l \in assoc'[lease[l].owner]
                                /\ lease[l].deadline <= assocExpires'[lease[l].owner]
      BY <1>1 DEF UseInv
    <2>3. l \notin released /\ lease[l].owner # q
      BY <1>1, <2>1, <2>2
    <2>4. /\ l \in zset[lease[l].key]
          /\ lease[l].owner # NoRequest =>
                l \in assoc[lease[l].owner] /\ lease[l].deadline <= assocExpires[lease[l].owner]
      BY <2>1, <2>2, <2>3 DEF LeasesInv, UseInv
    <2>5. lease[l].deadline <= expires[lease[l].key]
      BY <2>1, <2>4 DEF LeasesInv, KeyInv
    <2>6. l \in Members(lease[l].key)
      BY <2>1, <2>2, <2>4, <2>5 DEF Members
    <2>7. l \notin Associated(q)
      BY <2>3 DEF LeasesInv, OwnerInv, Associated
    <2>8. l \in zset'[lease[l].key]
      BY <1>1, <2>1, <2>6, <2>7
    <2>9. ASSUME lease[l].owner # NoRequest
          PROVE  /\ assoc'[lease[l].owner] = assoc[lease[l].owner]
                 /\ assocExpires'[lease[l].owner] = assocExpires[lease[l].owner]
      BY <1>1, <2>1, <2>3, <2>9 DEF LeasesInv, LeasesTypeOK
    <2> QED BY <2>4, <2>8, <2>9
  <1>6. ASSUME NEW l \in released' PROVE FreeInv(l)'
    <2>1. l \in granted /\ l \in Leases /\ lease[l].key \in Keys /\ lease[l].deadline \in Nat /\ clock \in Nat
      BY <1>1 DEF LeasesInv, LeasesTypeOK, LeaseRecords
    <2>2. SUFFICES ASSUME clock < lease[l].deadline PROVE l \notin zset'[lease[l].key]
      BY <1>1 DEF FreeInv
    <2>3. CASE l \in released
      <3>1. l \notin zset[lease[l].key]
        BY <2>2, <2>3 DEF LeasesInv, FreeInv
      <3> QED BY <1>2, <2>1, <3>1
    <2>4. CASE l \notin released
      <3>1. lease[l].owner = q /\ q # NoRequest
        BY <1>1, <2>4
      <3>2. l \in assoc[q] /\ lease[l].deadline <= assocExpires[q] /\ assocExpires[q] \in Nat
        BY <2>1, <2>2, <2>4, <3>1 DEF LeasesInv, UseInv, LeasesTypeOK
      <3>3. l \in Associated(q)
        BY <2>1, <2>2, <3>2 DEF Associated
      <3> QED BY <1>1, <2>1, <3>3
    <2> QED BY <2>3, <2>4
  <1>7. ASSUME NEW r \in Requests PROVE OwnerInv(r)'
    BY <1>1 DEF LeasesInv, LeasesTypeOK, OwnerInv
  <1> QED BY <1>3, <1>4, <1>5, <1>6, <1>7 DEF LeasesInv

\* Time passes.
LEMMA LeasesTickKeeps == ASSUME LeasesInv, LeasesTick PROVE LeasesInv'
  <1>1. clock' = clock + 1 /\ clock \in Nat
        /\ UNCHANGED <<zset, expires, assoc, assocExpires, lease, granted, released>>
    BY DEF LeasesTick, Advance, LeasesInv, LeasesTypeOK
  <1>2. LeasesTypeOK'
    BY <1>1 DEF LeasesInv, LeasesTypeOK
  <1>3. \A k \in Keys : KeyInv(k)' /\ SizeInv(k)'
    BY <1>1 DEF LeasesInv, KeyInv, SizeInv
  <1>4. ASSUME NEW l \in granted PROVE lease[l].deadline \in Nat
    BY DEF LeasesInv, LeasesTypeOK, LeaseRecords
  <1>5. \A l \in granted' : UseInv(l)'
    BY <1>1, <1>4 DEF LeasesInv, UseInv
  <1>6. \A l \in released' : FreeInv(l)'
    BY <1>1, <1>4 DEF LeasesInv, LeasesTypeOK, FreeInv
  <1>7. \A r \in Requests : OwnerInv(r)'
    BY <1>1 DEF LeasesInv, OwnerInv
  <1> QED BY <1>2, <1>3, <1>5, <1>6, <1>7 DEF LeasesInv
----------------------------------------------------------------------------
LEMMA LeasesInvInit == LeasesInit => LeasesInv
  <1> SUFFICES ASSUME LeasesInit PROVE LeasesInv
    OBVIOUS
  <1>1. LeasesTypeOK
    <2>1. (CHOOSE k \in Keys : TRUE) \in Keys
      OBVIOUS
    <2> QED BY <2>1 DEF LeasesInit, LeasesTypeOK, LeaseRecords
  <1>2. \A k \in Keys : KeyInv(k) /\ SizeInv(k)
    BY FS_EmptySet DEF LeasesInit, KeyInv, SizeInv
  <1> QED BY <1>1, <1>2 DEF LeasesInit, LeasesInv, OwnerInv

\* Every step keeps the leases' invariant,
LEMMA LeasesInvNext == LeasesInv /\ [LeasesNext]_leaseVars => LeasesInv'
  <1> SUFFICES ASSUME LeasesInv, [LeasesNext]_leaseVars PROVE LeasesInv'
    OBVIOUS
  <1>1. Stamps \subseteq 0 .. clock
    BY DEF Stamps
  <1>2. ASSUME NEW l \in Leases, NEW k \in Keys, NEW owner \in Requests \cup {NoRequest},
               NEW at \in Stamps, NEW lifetime \in Lifetimes, Acquire(l, k, owner, at, lifetime)
        PROVE  LeasesInv'
    BY <1>1, <1>2, AcquireKeeps
  <1>3. ASSUME NEW l \in Leases, NEW k \in Keys, NEW at \in Stamps, Refuse(l, k, at) PROVE LeasesInv'
    BY <1>1, <1>3, RefuseKeeps
  <1>4. ASSUME NEW l \in Leases, NEW at \in Stamps, Release(l, at) PROVE LeasesInv'
    BY <1>1, <1>4, ReleaseKeeps
  <1>5. CASE UNCHANGED leaseVars
    BY <1>5 DEF leaseVars, LeasesInv, LeasesTypeOK, KeyInv, SizeInv, UseInv, FreeInv, OwnerInv
  <1> QED BY <1>2, <1>3, <1>4, <1>5, ReleaseRequestKeeps, LeasesTickKeeps DEF LeasesNext

\* which therefore always holds.
LEMMA LeasesInvAlways == LeasesSpec => []LeasesInv
  BY LeasesInvInit, LeasesInvNext, PTL DEF LeasesSpec

\* What the invariant says of one lease in use.
LEMMA UseCounted == ASSUME LeasesInv, NEW k \in Keys PROVE InUse(k) \subseteq zset[k] /\ InUse(k) \subseteq Members(k)
  <1>1. ASSUME NEW l \in InUse(k) PROVE l \in zset[k] /\ l \in Members(k)
    <2>1. l \in granted /\ l \notin released /\ lease[l].key = k /\ clock < lease[l].deadline
      BY DEF InUse
    <2>2. l \in Leases /\ lease[l].deadline \in Nat /\ expires[k] \in Nat /\ clock \in Nat
      BY <2>1 DEF LeasesInv, LeasesTypeOK, LeaseRecords
    <2>3. l \in zset[k]
      BY <2>1 DEF LeasesInv, UseInv
    <2>4. lease[l].deadline <= expires[k]
      BY <2>3 DEF LeasesInv, KeyInv
    <2> QED BY <2>1, <2>2, <2>3, <2>4 DEF Members
  <1> QED BY <1>1

\* The sets, hashes and TTLs keep their type, and only granted leases are counted.
THEOREM LeasesTypeCorrect == LeasesSpec => []LeasesTypeOK
  <1>1. LeasesInv => LeasesTypeOK
    BY DEF LeasesInv
  <1> QED BY <1>1, LeasesInvAlways, PTL

\* No TTL the scripts set drops a lease in use from its key.
THEOREM LeaseIsCounted == LeasesSpec => []InUseIsCounted
  <1>1. LeasesInv => InUseIsCounted
    BY UseCounted DEF InUseIsCounted
  <1> QED BY <1>1, LeasesInvAlways, PTL

\* concurrencyAcquireScript never lets a key have more leases in use than its limit.
THEOREM LimitHolds == LeasesSpec => []WithinLimit
  <1>1. ASSUME LeasesInv, NEW k \in Keys PROVE Cardinality(InUse(k)) <= Limit[k]
    <2>1. IsFiniteSet(zset[k]) /\ Cardinality(zset[k]) <= Limit[k] /\ Limit[k] \in Nat
      BY <1>1 DEF LeasesInv, SizeInv
    <2>2. InUse(k) \subseteq zset[k]
      BY <1>1, UseCounted
    <2>3. IsFiniteSet(InUse(k)) /\ Cardinality(InUse(k)) <= Cardinality(zset[k])
      BY <2>1, <2>2, FS_Subset
    <2>4. Cardinality(InUse(k)) \in Nat /\ Cardinality(zset[k]) \in Nat
      BY <2>1, <2>3, FS_CardinalityType
    <2> QED BY <2>1, <2>3, <2>4
  <1>2. LeasesInv => WithinLimit
    BY <1>1 DEF WithinLimit
  <1> QED BY <1>2, LeasesInvAlways, PTL

\* Both release scripts free the place of every lease they are to release.
THEOREM ReleaseFrees == LeasesSpec => []ReleasedIsFree
  <1>1. ASSUME LeasesInv, NEW l \in released, clock < lease[l].deadline PROVE l \notin Members(lease[l].key)
    <2>1. l \notin zset[lease[l].key]
      BY <1>1 DEF LeasesInv, FreeInv
    <2> QED BY <2>1 DEF Members
  <1>2. LeasesInv => ReleasedIsFree
    BY <1>1 DEF ReleasedIsFree
  <1> QED BY <1>2, LeasesInvAlways, PTL

-----------------------------------------------------------------------------
\* Tickets: each is redeemed once, published once and in time, and no state is
\* replaced.

\* A ticket that can still be redeemed has not been, and its life is its TTL.
IssuedInv(t) ==
    ticket[t].status = "issued" =>
        bound[t] = {} /\ ticket[t].expiresAt = issuedAt[t] + TicketTtl

RedeemedInv(t) ==
    ticket[t].status = "redeemed" => ticket[t].expiresAt < issuedAt[t] + TicketTtl + RedeemedTtl

OnceInv(t) == \A c, e \in bound[t] : c = e

\* What was published has no ticket any more and was in time.
PublishedInv(p) ==
    /\ ticket[p[1]].status = "none"
    /\ p[3] < issuedAt[p[1]] + TicketTtl + RedeemedTtl

TicketsInv ==
    /\ TicketsTypeOK
    /\ \A t \in TicketIds : IssuedInv(t) /\ RedeemedInv(t) /\ OnceInv(t)
    /\ \A p \in published : PublishedInv(p)
    /\ PublishedOnce

USE TicketAssumption
----------------------------------------------------------------------------
LEMMA PublishedTypes ==
    ASSUME TicketsTypeOK, NEW p \in published
    PROVE  p[1] \in TicketIds /\ p[2] \in Destinations /\ p[3] \in Nat /\ p = <<p[1], p[2], p[3]>>
  BY DEF TicketsTypeOK

\* A ticket is issued.
LEMMA IssueKeeps == ASSUME TicketsInv, NEW t \in TicketIds, Issue(t) PROVE TicketsInv'
  <1> DEFINE new == [status |-> "issued", expiresAt |-> clock + TicketTtl]
  <1>1. /\ bound[t] = {} /\ \A p \in published : p[1] # t
        /\ ticket' = [ticket EXCEPT ![t] = new] /\ issuedAt' = [issuedAt EXCEPT ![t] = clock]
        /\ UNCHANGED <<clock, bound, state, published>> /\ clock \in Nat
    BY DEF Issue, TicketsInv, TicketsTypeOK
  <1>2. new \in [status : Statuses, expiresAt : Nat]
    BY <1>1 DEF Statuses
  <1>3. /\ ticket'[t] = new /\ issuedAt'[t] = clock
        /\ \A u \in TicketIds \ {t} : ticket'[u] = ticket[u] /\ issuedAt'[u] = issuedAt[u]
    BY <1>1 DEF TicketsInv, TicketsTypeOK
  <1>4. TicketsTypeOK'
    BY <1>1, <1>2 DEF TicketsInv, TicketsTypeOK
  <1>5. ASSUME NEW u \in TicketIds PROVE IssuedInv(u)' /\ RedeemedInv(u)' /\ OnceInv(u)'
    <2>1. CASE u = t
      BY <1>1, <1>3, <2>1 DEF IssuedInv, RedeemedInv, OnceInv
    <2>2. CASE u # t
      BY <1>1, <1>3, <2>2 DEF TicketsInv, IssuedInv, RedeemedInv, OnceInv
    <2> QED BY <2>1, <2>2
  <1>6. ASSUME NEW p \in published' PROVE PublishedInv(p)'
    <2>1. p \in published /\ p[1] # t /\ p[1] \in TicketIds
      BY <1>1, PublishedTypes DEF TicketsInv
    <2> QED BY <1>1, <1>3, <2>1 DEF TicketsInv, PublishedInv
  <1> QED BY <1>1, <1>4, <1>5, <1>6 DEF TicketsInv, PublishedOnce

\* A call redeems it.
LEMMA RedeemKeeps == ASSUME TicketsInv, NEW t \in TicketIds, NEW c \in Calls, Redeem(t, c) PROVE TicketsInv'
  <1> DEFINE new == [status |-> "redeemed", expiresAt |-> clock + RedeemedTtl]
  <1>1. /\ ticket' = [ticket EXCEPT ![t] = new] /\ bound' = [bound EXCEPT ![t] = bound[t] \cup {c}]
        /\ UNCHANGED <<clock, issuedAt, state, published>> /\ clock \in Nat /\ issuedAt[t] \in Nat
    BY DEF Redeem, TicketsInv, TicketsTypeOK
  <1>2. new \in [status : Statuses, expiresAt : Nat]
    BY <1>1 DEF Statuses
  <1>3. ticket[t].status = "issued" /\ clock < ticket[t].expiresAt
    BY DEF Redeem, Redeemable, Status
  <1>4. bound[t] = {} /\ ticket[t].expiresAt = issuedAt[t] + TicketTtl
    BY <1>3 DEF TicketsInv, IssuedInv
  <1>5. /\ ticket'[t] = new /\ bound'[t] = {c}
        /\ \A u \in TicketIds \ {t} : ticket'[u] = ticket[u] /\ bound'[u] = bound[u]
    BY <1>1, <1>4 DEF TicketsInv, TicketsTypeOK
  <1>6. TicketsTypeOK'
    BY <1>1, <1>2 DEF TicketsInv, TicketsTypeOK
  <1>7. ASSUME NEW u \in TicketIds PROVE IssuedInv(u)' /\ RedeemedInv(u)' /\ OnceInv(u)'
    <2>1. CASE u = t
      <3>1. clock + RedeemedTtl < issuedAt[t] + TicketTtl + RedeemedTtl
        BY <1>1, <1>3, <1>4
      <3> QED BY <1>1, <1>5, <2>1, <3>1 DEF IssuedInv, RedeemedInv, OnceInv
    <2>2. CASE u # t
      BY <1>1, <1>5, <2>2 DEF TicketsInv, IssuedInv, RedeemedInv, OnceInv
    <2> QED BY <2>1, <2>2
  <1>8. ASSUME NEW p \in published' PROVE PublishedInv(p)'
    <2>1. p \in published /\ p[1] \in TicketIds /\ p[1] # t
      BY <1>1, <1>3, PublishedTypes DEF TicketsInv, PublishedInv
    <2> QED BY <1>1, <1>5, <2>1 DEF TicketsInv, PublishedInv
  <1> QED BY <1>1, <1>6, <1>7, <1>8 DEF TicketsInv, PublishedOnce

\* A ticket that is deleted: consumeTicket, and the last step of consumeTicketIntoState.
LEMMA DeleteKeeps ==
    ASSUME TicketsInv, NEW t \in TicketIds, ticket' = [ticket EXCEPT ![t] = NoTicket],
           UNCHANGED <<issuedAt, bound>>
    PROVE  /\ ticket' \in [TicketIds -> [status : Statuses, expiresAt : Nat]]
           /\ \A u \in TicketIds : IssuedInv(u)' /\ RedeemedInv(u)' /\ OnceInv(u)'
           /\ \A p \in published : PublishedInv(p)'
  <1>1. /\ ticket'[t] = NoTicket /\ NoTicket.status = "none"
        /\ \A u \in TicketIds \ {t} : ticket'[u] = ticket[u]
    BY DEF TicketsInv, TicketsTypeOK, NoTicket
  <1>2. ticket' \in [TicketIds -> [status : Statuses, expiresAt : Nat]]
    BY DEF TicketsInv, TicketsTypeOK, NoTicket, Statuses
  <1>3. ASSUME NEW u \in TicketIds PROVE IssuedInv(u)' /\ RedeemedInv(u)' /\ OnceInv(u)'
    <2>1. CASE u = t
      BY <1>1, <2>1 DEF TicketsInv, IssuedInv, RedeemedInv, OnceInv
    <2>2. CASE u # t
      BY <1>1, <2>2 DEF TicketsInv, IssuedInv, RedeemedInv, OnceInv
    <2> QED BY <2>1, <2>2
  <1>4. ASSUME NEW p \in published PROVE PublishedInv(p)'
    <2>1. p[1] \in TicketIds
      BY PublishedTypes DEF TicketsInv
    <2>2. ticket'[p[1]].status = "none"
      BY <1>1, <2>1 DEF TicketsInv, PublishedInv
    <2> QED BY <2>2 DEF TicketsInv, PublishedInv
  <1> QED BY <1>2, <1>3, <1>4

\* Its redemption consumes it.
LEMMA ConsumeKeeps == ASSUME TicketsInv, NEW t \in TicketIds, Consume(t) PROVE TicketsInv'
  <1>1. ticket' = [ticket EXCEPT ![t] = NoTicket] /\ UNCHANGED <<clock, issuedAt, bound, state, published>>
    BY DEF Consume
  <1>2. /\ ticket' \in [TicketIds -> [status : Statuses, expiresAt : Nat]]
        /\ \A u \in TicketIds : IssuedInv(u)' /\ RedeemedInv(u)' /\ OnceInv(u)'
        /\ \A p \in published : PublishedInv(p)'
    BY <1>1, DeleteKeeps
  <1>3. TicketsTypeOK'
    BY <1>1, <1>2 DEF TicketsInv, TicketsTypeOK
  <1> QED BY <1>1, <1>2, <1>3 DEF TicketsInv, PublishedOnce

\* The redemption state is published in its place.
LEMMA PublishKeeps ==
    ASSUME TicketsInv, NEW t \in TicketIds, NEW d \in Destinations, ConsumeIntoState(t, d)
    PROVE  TicketsInv'
  <1> DEFINE new == [of |-> t, expiresAt |-> clock + StateTtl]
             pub == <<t, d, clock>>
  <1>1. /\ ticket' = [ticket EXCEPT ![t] = NoTicket] /\ UNCHANGED <<clock, issuedAt, bound>>
        /\ state' = [state EXCEPT ![d] = new] /\ published' = published \cup {pub}
        /\ ticket[t].status = "redeemed" /\ clock < ticket[t].expiresAt
    BY DEF ConsumeIntoState, Status
  <1>2. /\ ticket' \in [TicketIds -> [status : Statuses, expiresAt : Nat]]
        /\ \A u \in TicketIds : IssuedInv(u)' /\ RedeemedInv(u)' /\ OnceInv(u)'
        /\ \A p \in published : PublishedInv(p)'
    BY <1>1, DeleteKeeps
  <1>3. clock \in Nat /\ ticket[t].expiresAt \in Nat /\ issuedAt[t] \in Nat
    BY DEF TicketsInv, TicketsTypeOK
  <1>4. TicketsTypeOK'
    <2>1. state' \in [Destinations -> [of : TicketIds \cup {"none"}, expiresAt : Nat]]
      <3>1. new \in [of : TicketIds \cup {"none"}, expiresAt : Nat]
        BY <1>3
      <3> QED BY <1>1, <3>1 DEF TicketsInv, TicketsTypeOK
    <2>2. published' \subseteq TicketIds \X Destinations \X Nat
      BY <1>1, <1>3 DEF TicketsInv, TicketsTypeOK
    <2> QED BY <1>1, <1>2, <2>1, <2>2 DEF TicketsInv, TicketsTypeOK
  <1>5. PublishedInv(pub)'
    <2>1. clock < issuedAt[t] + TicketTtl + RedeemedTtl
      BY <1>1, <1>3 DEF TicketsInv, RedeemedInv
    <2>2. ticket'[t].status = "none"
      BY <1>1 DEF TicketsInv, TicketsTypeOK, NoTicket
    <2> QED BY <1>1, <2>1, <2>2 DEF PublishedInv
  <1>6. \A p \in published : p[1] # t
    BY <1>1 DEF TicketsInv, PublishedInv
  <1>7. PublishedOnce'
    BY <1>1, <1>6 DEF TicketsInv, PublishedOnce
  <1> QED BY <1>1, <1>2, <1>4, <1>5, <1>7 DEF TicketsInv
----------------------------------------------------------------------------
LEMMA TicketsInvInit == TicketsInit => TicketsInv
  BY DEF TicketsInit, TicketsInv, TicketsTypeOK, Statuses, NoTicket, NoState, IssuedInv, RedeemedInv, OnceInv, PublishedOnce

\* Every step keeps the tickets' invariant,
LEMMA TicketsInvNext == TicketsInv /\ [TicketsNext]_ticketVars => TicketsInv'
  <1> SUFFICES ASSUME TicketsInv, [TicketsNext]_ticketVars PROVE TicketsInv'
    OBVIOUS
  <1>1. CASE TicketsTick
    BY <1>1 DEF TicketsTick, Advance, TicketsInv, TicketsTypeOK, IssuedInv, RedeemedInv, OnceInv, PublishedInv, PublishedOnce
  <1>2. CASE UNCHANGED ticketVars
    BY <1>2 DEF ticketVars, TicketsInv, TicketsTypeOK, IssuedInv, RedeemedInv, OnceInv, PublishedInv, PublishedOnce
  <1> QED BY <1>1, <1>2, IssueKeeps, RedeemKeeps, ConsumeKeeps, PublishKeeps DEF TicketsNext

\* which therefore always holds.
LEMMA TicketsInvAlways == TicketsSpec => []TicketsInv
  BY TicketsInvInit, TicketsInvNext, PTL DEF TicketsSpec

\* redeemTicket hands out a ticket's binding once.
THEOREM SingleRedemption == TicketsSpec => []RedeemedOnce
  <1>1. TicketsInv => RedeemedOnce
    BY DEF TicketsInv, OnceInv, RedeemedOnce
  <1> QED BY <1>1, TicketsInvAlways, PTL

\* consumeTicketIntoState publishes at most one state for a ticket.
THEOREM SinglePublication == TicketsSpec => []PublishedOnce
  <1>1. TicketsInv => PublishedOnce
    BY DEF TicketsInv
  <1> QED BY <1>1, TicketsInvAlways, PTL

\* Both: neither step happens twice for a ticket.
THEOREM TicketIsSpentOnce == TicketsSpec => []SpentOnce
  BY SingleRedemption, SinglePublication, PTL DEF SpentOnce

\* No ticket is turned into a state after its TTL and the grace after redemption.
THEOREM TimelyPublication == TicketsSpec => []PublishedInTime
  <1>1. TicketsInv => PublishedInTime
    BY DEF TicketsInv, PublishedInv, PublishedInTime
  <1> QED BY <1>1, TicketsInvAlways, PTL

\* SET NX: a redemption state stays as it was published while it exists.
THEOREM StateStays == TicketsSpec => StateIsNotReplaced
  <1>1. ASSUME TicketsInv, [TicketsNext]_ticketVars
        PROVE  [\A d \in Destinations : Exists(d) => state'[d] = state[d]]_ticketVars
    <2>1. ASSUME NEW t \in TicketIds, NEW d \in Destinations, ConsumeIntoState(t, d),
                 NEW e \in Destinations, Exists(e)
          PROVE  state'[e] = state[e]
      <3>1. e # d
        BY <2>1 DEF ConsumeIntoState
      <3> QED BY <1>1, <2>1, <3>1 DEF ConsumeIntoState, TicketsInv, TicketsTypeOK
    <2> QED BY <1>1, <2>1 DEF TicketsNext, Issue, Redeem, Consume, TicketsTick
  <1> QED BY <1>1, TicketsInvAlways, PTL DEF TicketsSpec, StateIsNotReplaced

-----------------------------------------------------------------------------
\* The expiring counters: failed credentials and free tokens.

\* The failure counter has its window, or a handler that will give it one.
FailureInv ==
    /\ clock \in 0 .. MaxClock /\ failures \in Nat
    /\ pc \in [Callers -> {"idle", "expire"}]
    /\ CountIsShortLived

\* While a day's requests may still run, its key is there and counts all that
\* passed; once the key is dropped, no request of the day runs any more.
FreeDayInv(d) ==
    /\ used[d] \in Nat /\ admitted[d] \in Nat /\ admitted[d] <= Budget
    /\ clock <= d + 1 => admitted[d] <= used[d]
    /\ used[d] > 0 => usedExpire[d] >= d + 2
    /\ usedExpire[d] \in Nat

FreeTokensInv ==
    /\ clock \in 0 .. MaxClock
    /\ used = [d \in Days |-> used[d]] /\ admitted = [d \in Days |-> admitted[d]]
    /\ usedExpire = [d \in Days |-> usedExpire[d]]
    /\ \A d \in Days : FreeDayInv(d)

\* What the constants are.
LEMMA CounterBounds ==
    /\ MaxClock \in Nat /\ FreeTtl \in Nat /\ FreeTtl >= 2 /\ Budget \in Nat /\ Never = MaxClock + FreeTtl + 1
    /\ \A cost \in Costs : cost \in Nat \ {0}
  BY ClockAssumption, CounterAssumption DEF Never

\* The two commands of a failed credential, the clearing and the clock.
LEMMA FailureInvNext == FailureInv /\ [CountersNext]_counterVars => FailureInv'
  <1> SUFFICES ASSUME FailureInv, [CountersNext]_counterVars PROVE FailureInv'
    OBVIOUS
  <1>0. /\ clock \in 0 .. MaxClock /\ failures \in Nat /\ pc \in [Callers -> {"idle", "expire"}]
        /\ failures > 0 /\ failuresExpire = Never => \E c \in Callers : pc[c] = "expire"
    BY DEF FailureInv, CountIsShortLived
  <1>1. ASSUME NEW c \in Callers, CountFailure(c) PROVE FailureInv'
    <2>1. pc[c] = "idle" /\ failures' = failures + 1 /\ clock' = clock /\ failuresExpire' = failuresExpire
      BY <1>1 DEF CountFailure
    <2>2. pc' = [pc EXCEPT ![c] = IF failures + 1 = 1 THEN "expire" ELSE "idle"]
      BY <1>1 DEF CountFailure, OpensWindow
    <2>3. \A d \in Callers \ {c} : pc'[d] = pc[d]
      BY <1>0, <2>2
    <2>4. CASE failures = 0
      <3>1. pc'[c] = "expire"
        BY <1>0, <2>2, <2>4
      <3> QED BY <1>0, <2>1, <2>2, <3>1 DEF FailureInv, CountIsShortLived
    <2>5. CASE failures # 0
      <3>1. failuresExpire' = Never => \E d \in Callers : pc'[d] = "expire"
        BY <1>0, <2>1, <2>3, <2>5
      <3> QED BY <1>0, <2>1, <2>2, <3>1 DEF FailureInv, CountIsShortLived
    <2> QED BY <2>4, <2>5
  <1>2. ASSUME NEW c \in Callers, OpenWindow(c) PROVE FailureInv'
    <2>1. clock' = clock /\ failures' = failures /\ pc' = [pc EXCEPT ![c] = "idle"]
          /\ failuresExpire' = IF failures > 0 THEN clock + 1 ELSE Never
      BY <1>2 DEF OpenWindow
    <2>2. failures > 0 => failuresExpire' # Never
      BY <1>0, <2>1, CounterBounds
    <2> QED BY <1>0, <2>1, <2>2 DEF FailureInv, CountIsShortLived
  <1>3. CASE ClearAuthFailures
    <2>1. clock' = clock /\ pc' = pc /\ failures' = 0
      BY <1>3 DEF ClearAuthFailures, freeVars
    <2> QED BY <1>0, <2>1 DEF FailureInv, CountIsShortLived
  <1>4. CASE CountersTick
    <2>1. clock' = clock + 1 /\ clock < MaxClock /\ pc' = pc
          /\ failures' \in {0, failures} /\ (failures' # 0 => failuresExpire' = failuresExpire)
      BY <1>4 DEF CountersTick, Advance
    <2> QED BY <1>0, <2>1, CounterBounds DEF FailureInv, CountIsShortLived
  <1>5. CASE UNCHANGED <<clock, authVars>>
    <2>1. clock' = clock /\ failures' = failures /\ failuresExpire' = failuresExpire /\ pc' = pc
      BY <1>5 DEF authVars
    <2> QED BY <1>0, <2>1 DEF FailureInv, CountIsShortLived
  <1>6. CASE UNCHANGED counterVars
    BY <1>5, <1>6 DEF counterVars, authVars
  <1>7. (\E d \in {e \in Days : clock \in {e, e + 1}}, cost \in Costs : ConsumeDailyFreeTokens(d, cost))
          => UNCHANGED <<clock, authVars>>
    BY DEF ConsumeDailyFreeTokens
  <1> QED BY <1>1, <1>2, <1>3, <1>4, <1>5, <1>6, <1>7 DEF CountersNext

\* consumeDailyFreeTokens, on the day drawn or the next.
LEMMA ConsumeKeepsFree ==
    ASSUME FreeTokensInv, NEW d \in Days, clock \in {d, d + 1}, NEW cost \in Costs, ConsumeDailyFreeTokens(d, cost)
    PROVE  FreeTokensInv'
  <1>0. /\ clock \in Nat /\ d \in Nat /\ cost \in Nat \ {0} /\ used[d] \in Nat /\ admitted[d] \in Nat
        /\ usedExpire[d] \in Nat /\ admitted[d] <= Budget /\ admitted[d] <= used[d]
        /\ used[d] > 0 => usedExpire[d] >= d + 2
    <2>1. FreeDayInv(d) /\ clock \in 0 .. MaxClock
      BY DEF FreeTokensInv
    <2>2. d \in Nat /\ clock \in Nat /\ clock <= d + 1
      BY <2>1, CounterBounds DEF Days
    <2>3. cost \in Nat \ {0}
      BY CounterBounds
    <2> QED BY <2>1, <2>2, <2>3 DEF FreeDayInv
  <1>1. clock' = clock /\ used' = [used EXCEPT ![d] = @ + cost] /\ usedExpire' = [usedExpire EXCEPT ![d] = FreeExpiry(d, cost)]
    BY DEF ConsumeDailyFreeTokens
  <1>2. \/ used[d] + cost > Budget /\ admitted' = admitted
        \/ used[d] + cost <= Budget /\ admitted' = [admitted EXCEPT ![d] = @ + cost]
    BY <1>0, CounterBounds DEF ConsumeDailyFreeTokens
  <1>3. /\ used' = [e \in Days |-> used'[e]] /\ admitted' = [e \in Days |-> admitted'[e]]
        /\ usedExpire' = [e \in Days |-> usedExpire'[e]]
        /\ \A e \in Days \ {d} : used'[e] = used[e] /\ admitted'[e] = admitted[e] /\ usedExpire'[e] = usedExpire[e]
        /\ used'[d] = used[d] + cost /\ usedExpire'[d] = FreeExpiry(d, cost)
        /\ \/ admitted'[d] = admitted[d]
           \/ used[d] + cost <= Budget /\ admitted'[d] = admitted[d] + cost
    BY <1>1, <1>2 DEF FreeTokensInv
  <1>4. FreeExpiry(d, cost) \in Nat /\ FreeExpiry(d, cost) >= d + 2
    BY <1>0, CounterBounds DEF FreeExpiry
  <1>5. FreeDayInv(d)'
    BY <1>0, <1>1, <1>3, <1>4, CounterBounds DEF FreeDayInv
  <1>6. ASSUME NEW e \in Days \ {d} PROVE FreeDayInv(e)'
    <2>1. FreeDayInv(e)
      BY DEF FreeTokensInv
    <2> QED BY <1>1, <1>3, <2>1 DEF FreeDayInv
  <1>7. \A e \in Days : FreeDayInv(e)'
    BY <1>5, <1>6
  <1> QED BY <1>1, <1>3, <1>7 DEF FreeTokensInv, Days

\* A day passes, and Valkey drops the keys that ran out.
LEMMA TickKeepsFree == ASSUME FreeTokensInv, CountersTick PROVE FreeTokensInv'
  <1>1. /\ clock' = clock + 1 /\ clock' \in 0 .. MaxClock /\ admitted' = admitted
        /\ used' = [d \in Days |-> IF clock + 1 >= usedExpire[d] THEN 0 ELSE used[d]]
        /\ usedExpire' = [d \in Days |-> IF clock + 1 >= usedExpire[d] THEN Never ELSE usedExpire[d]]
    BY CounterBounds DEF CountersTick, Advance, FreeTokensInv
  <1>2. ASSUME NEW d \in Days PROVE FreeDayInv(d)'
    <2>1. FreeDayInv(d) /\ clock \in Nat /\ d \in Nat
      BY DEF FreeTokensInv, Days
    <2>2. /\ used'[d] = IF clock + 1 >= usedExpire[d] THEN 0 ELSE used[d]
          /\ usedExpire'[d] = IF clock + 1 >= usedExpire[d] THEN Never ELSE usedExpire[d]
          /\ admitted'[d] = admitted[d]
      BY <1>1
    <2> QED BY <1>1, <2>1, <2>2, CounterBounds DEF FreeDayInv
  <1>3. /\ used' = [d \in Days |-> used'[d]] /\ admitted' = [d \in Days |-> admitted'[d]]
        /\ usedExpire' = [d \in Days |-> usedExpire'[d]]
    BY <1>1 DEF FreeTokensInv
  <1> QED BY <1>1, <1>2, <1>3 DEF FreeTokensInv

\* Every step keeps the count of the free tokens.
LEMMA FreeTokensInvNext == FreeTokensInv /\ [CountersNext]_counterVars => FreeTokensInv'
  <1> SUFFICES ASSUME FreeTokensInv, [CountersNext]_counterVars PROVE FreeTokensInv'
    OBVIOUS
  <1>1. ASSUME NEW d \in {e \in Days : clock \in {e, e + 1}}, NEW cost \in Costs, ConsumeDailyFreeTokens(d, cost)
        PROVE  FreeTokensInv'
    BY <1>1, ConsumeKeepsFree
  <1>2. CASE CountersTick
    BY <1>2, TickKeepsFree
  <1>3. CASE UNCHANGED <<clock, freeVars>>
    BY <1>3 DEF freeVars, FreeTokensInv, FreeDayInv
  <1>4. CASE UNCHANGED counterVars
    BY <1>3, <1>4 DEF counterVars, freeVars
  <1>5. (ClearAuthFailures \/ \E c \in Callers : CountFailure(c) \/ OpenWindow(c)) => UNCHANGED <<clock, freeVars>>
    BY DEF ClearAuthFailures, CountFailure, OpenWindow
  <1> QED BY <1>1, <1>2, <1>3, <1>4, <1>5 DEF CountersNext

\* recordAuthFailure: as long as no handler ends between INCR and EXPIRE, the
\* failure count never lives without a window, for any number of handlers.
THEOREM FailureCountIsShortLived == CountersSpec => []CountIsShortLived
  <1>1. CountersInit => FailureInv
    BY CounterBounds DEF CountersInit, FailureInv, CountIsShortLived
  <1>2. FailureInv => CountIsShortLived
    BY DEF FailureInv
  <1> QED BY <1>1, <1>2, FailureInvNext, PTL DEF CountersSpec

\* consumeDailyFreeTokens: the free requests that pass on a UTC day stay within
\* freeTierDailyTokens, late ones included, because the key outlives the day.
THEOREM FreeTokensAreBounded == CountersSpec => []FreeWithinBudget
  <1>1. CountersInit => FreeTokensInv
    <2> SUFFICES ASSUME CountersInit PROVE FreeTokensInv
      OBVIOUS
    <2>1. clock = 0 /\ used = [d \in Days |-> 0] /\ usedExpire = [d \in Days |-> Never] /\ admitted = [d \in Days |-> 0]
      BY DEF CountersInit
    <2>2. \A d \in Days : used[d] = 0 /\ usedExpire[d] = Never /\ admitted[d] = 0
      BY <2>1
    <2> QED BY <2>1, <2>2, CounterBounds DEF FreeTokensInv, FreeDayInv
  <1>2. FreeTokensInv => FreeWithinBudget
    BY DEF FreeTokensInv, FreeDayInv, FreeWithinBudget
  <1> QED BY <1>1, <1>2, FreeTokensInvNext, PTL DEF CountersSpec

-----------------------------------------------------------------------------
\* Token buckets: a bucket admits in no window more than its burst, its refill
\* over the window and the refill of the lateness it saw.

StoreInv(b) ==
    /\ store[b].updatedAt <= clock /\ store[b].tokens <= Capacity[b]
    /\ store[b].expiresAt # 0 => store[b].expiresAt >= store[b].updatedAt + Ttl[b]

\* What was admitted, together with what may be admitted now, is within the
\* bound: the strengthening that makes AdmissionBound inductive.
WindowInv(b) ==
    spent[b] + Refilled(b, clock) <= Capacity[b] + Refill[b] * (clock - since + late[b])

BucketsInv == BucketsTypeOK /\ \A b \in Buckets : StoreInv(b) /\ WindowInv(b)

USE BucketAssumption, ClockAssumption
----------------------------------------------------------------------------
LEMMA Grows == ASSUME NEW r \in Nat, NEW x \in Nat, NEW y \in Nat, x <= y PROVE r * x <= r * y
  <1>1. PICK d \in Nat : y = x + d
    <2>1. y - x \in Nat /\ y = x + (y - x)
      OBVIOUS
    <2> QED BY <2>1
  <1>2. r * y = r * x + r * d /\ r * d \in Nat /\ r * x \in Nat
    BY <1>1
  <1> QED BY <1>2

\* Multiplication distributes.
LEMMA Spreads == ASSUME NEW r \in Nat, NEW x \in Nat, NEW y \in Nat
                 PROVE r * (x + y) = r * x + r * y /\ r * x \in Nat /\ r * y \in Nat
  OBVIOUS

\* A refill stays within the capacity and grows with time.
LEMMA RefilledFacts ==
    ASSUME BucketsInv, NEW b \in Buckets, NEW at \in 0 .. clock
    PROVE  /\ Refilled(b, at) \in Nat
           /\ Refilled(b, at) <= Refilled(b, clock)
           /\ Refilled(b, clock) <= Capacity[b]
  <1> DEFINE e == Elapsed(b, at)
             f == Elapsed(b, clock)
             t == store[b].tokens
  <1>1. /\ t \in Nat /\ store[b].updatedAt \in Nat /\ clock \in Nat
        /\ Capacity[b] \in Nat /\ Refill[b] \in Nat
    BY DEF BucketsInv, BucketsTypeOK
  <1>2. e \in Nat /\ f \in Nat /\ e <= f
    BY <1>1 DEF Elapsed
  <1>3. Refill[b] * e <= Refill[b] * f
    BY <1>1, <1>2, Grows
  <1>4. Refill[b] * e \in Nat /\ Refill[b] * f \in Nat
    BY <1>1, <1>2
  <1>5. /\ Refilled(b, at) = IF Live(b) THEN AtMost(t + Refill[b] * e, Capacity[b]) ELSE Capacity[b]
        /\ Refilled(b, clock) = IF Live(b) THEN AtMost(t + Refill[b] * f, Capacity[b]) ELSE Capacity[b]
    BY DEF Refilled
  <1> HIDE DEF e, f, t
  <1> QED BY <1>1, <1>3, <1>4, <1>5 DEF AtMost

\* A script that takes paid tokens from bucket b and writes it back.
Pays(b, paid, at) ==
    /\ store'[b] = Written(b, Refilled(b, at) - paid, at)
    /\ spent'[b] = spent[b] + paid
    /\ late'[b] = late[b] + (clock - at)

\* A write that pays what the bucket has keeps the window's bound.
LEMMA PaysKeeps ==
    ASSUME BucketsInv, NEW b \in Buckets, NEW at \in 0 .. clock, NEW paid \in Nat,
           paid <= Refilled(b, at), Pays(b, paid, at), UNCHANGED <<clock, since>>
    PROVE  /\ StoreInv(b)' /\ WindowInv(b)'
           /\ store'[b] \in [tokens : Nat, updatedAt : Nat, expiresAt : Nat]
           /\ spent'[b] \in Nat /\ late'[b] \in Nat
  <1> DEFINE A == Refilled(b, clock)
             B == Refilled(b, at)
             lag == clock - at
             w == clock - since + late[b]
             cap == Capacity[b]
             r == Refill[b]
             left == B - paid
             s == spent[b]
  <1>1. /\ clock \in Nat /\ since \in 0 .. clock /\ at \in Nat /\ late[b] \in Nat /\ s \in Nat
        /\ cap \in Nat /\ r \in Nat /\ Ttl[b] \in Nat \ {0}
    BY DEF BucketsInv, BucketsTypeOK
  <1>2. A \in Nat /\ B \in Nat /\ B <= A /\ A <= cap
    <2>1. clock \in 0 .. clock
      BY <1>1
    <2> QED BY <2>1, RefilledFacts
  <1>3. lag \in Nat /\ w \in Nat /\ left \in Nat /\ left <= cap
    BY <1>1, <1>2
  <1>4. s + A <= cap + r * w
    BY DEF BucketsInv, WindowInv
  <1>5. r * (w + lag) = r * w + r * lag /\ r * w \in Nat /\ r * lag \in Nat
    BY <1>1, <1>3, Spreads
  <1>6. store'[b] = [tokens |-> left, updatedAt |-> at, expiresAt |-> clock + Ttl[b]]
    BY DEF Pays, Written
  <1>7. Elapsed(b, clock)' = lag /\ Live(b)'
    BY <1>1, <1>6 DEF Elapsed, Live
  <1>8. Refilled(b, clock)' = AtMost(left + r * lag, cap)
    BY <1>6, <1>7 DEF Refilled
  <1>9. (clock - since + late[b])' = w + lag
    BY <1>1, <1>3 DEF Pays
  <1>10. spent'[b] = s + paid /\ late'[b] = late[b] + lag
    BY DEF Pays
  <1>11. StoreInv(b)'
    BY <1>1, <1>3, <1>6 DEF StoreInv
  <1>12. WindowInv(b)'
    <2>1. (s + paid) + AtMost(left + r * lag, cap) <= cap + r * (w + lag)
      <3> HIDE DEF A, lag, w, cap, r, s
      <3>1. left + paid = B
        BY <1>2
      <3> HIDE DEF B, left
      <3> QED BY <1>1, <1>2, <1>3, <1>4, <1>5, <3>1 DEF AtMost
    <2> QED BY <1>8, <1>9, <1>10, <2>1 DEF WindowInv
  <1>13. /\ store'[b] \in [tokens : Nat, updatedAt : Nat, expiresAt : Nat]
         /\ spent'[b] \in Nat /\ late'[b] \in Nat
    BY <1>1, <1>3, <1>6, <1>10
  <1> QED BY <1>11, <1>12, <1>13

\* A bucket no script touches at this time.
LEMMA RestKeeps ==
    ASSUME BucketsInv, NEW b \in Buckets, UNCHANGED <<clock, since, store[b], spent[b], late[b]>>
    PROVE  /\ StoreInv(b)' /\ WindowInv(b)'
           /\ store'[b] \in [tokens : Nat, updatedAt : Nat, expiresAt : Nat]
           /\ spent'[b] \in Nat /\ late'[b] \in Nat
  <1>1. StoreInv(b)' /\ WindowInv(b)'
    BY DEF BucketsInv, StoreInv, WindowInv, Refilled, Live, Elapsed
  <1> QED BY <1>1 DEF BucketsInv, BucketsTypeOK
----------------------------------------------------------------------------
LEMMA SingleKeeps ==
    ASSUME BucketsInv, NEW c \in Buckets, NEW cost \in Nat, NEW at \in 0 .. clock, CheckBucket(c, cost, at)
    PROVE  BucketsInv'
  <1> DEFINE paid == IF Refilled(c, at) >= cost THEN cost ELSE 0
  <1>1. /\ UNCHANGED <<clock, since>>
        /\ store' = [store EXCEPT ![c] = Written(c, Refilled(c, at) - paid, at)]
        /\ spent' = [spent EXCEPT ![c] = spent[c] + paid]
        /\ late' = [late EXCEPT ![c] = late[c] + (clock - at)]
    BY DEF CheckBucket
  <1>2. paid \in Nat /\ paid <= Refilled(c, at)
    BY RefilledFacts
  <1> HIDE DEF paid
  <1>3. /\ DOMAIN store' = Buckets /\ DOMAIN spent' = Buckets /\ DOMAIN late' = Buckets
        /\ store' = [b \in Buckets |-> store'[b]] /\ spent' = [b \in Buckets |-> spent'[b]]
        /\ late' = [b \in Buckets |-> late'[b]]
    BY <1>1 DEF BucketsInv, BucketsTypeOK
  <1>4. Pays(c, paid, at)
    BY <1>1 DEF Pays, BucketsInv, BucketsTypeOK
  <1>5. ASSUME NEW b \in Buckets
        PROVE  /\ StoreInv(b)' /\ WindowInv(b)'
               /\ store'[b] \in [tokens : Nat, updatedAt : Nat, expiresAt : Nat]
               /\ spent'[b] \in Nat /\ late'[b] \in Nat
    <2>1. CASE b = c
      BY <1>1, <1>2, <1>4, <2>1, PaysKeeps
    <2>2. CASE b # c
      <3>1. store'[b] = store[b] /\ spent'[b] = spent[b] /\ late'[b] = late[b]
        BY <1>1, <2>2 DEF BucketsInv, BucketsTypeOK
      <3> QED BY <1>1, <3>1, RestKeeps
    <2> QED BY <2>1, <2>2
  <1>6. BucketsTypeOK'
    BY <1>1, <1>3, <1>5 DEF BucketsInv, BucketsTypeOK
  <1> QED BY <1>5, <1>6 DEF BucketsInv

\* The hierarchical script.
LEMMA MultiKeeps ==
    ASSUME BucketsInv, NEW charge \in Charges, NEW at \in 0 .. clock, CheckBuckets(charge, at)
    PROVE  BucketsInv'
  <1>1. UNCHANGED <<clock, since>>
    BY DEF CheckBuckets
  <1>2. /\ store' = [b \in Buckets |->
              IF b \in DOMAIN charge THEN Written(b, Refilled(b, at) - charge[b], at) ELSE store[b]]
        /\ spent' = [b \in Buckets |->
              IF b \in DOMAIN charge THEN spent[b] + charge[b] ELSE spent[b]]
        /\ late' = [b \in Buckets |->
              IF b \in DOMAIN charge THEN late[b] + (clock - at) ELSE late[b]]
    BY DEF CheckBuckets
  <1>3. ASSUME NEW b \in Buckets
        PROVE  /\ StoreInv(b)' /\ WindowInv(b)'
               /\ store'[b] \in [tokens : Nat, updatedAt : Nat, expiresAt : Nat]
               /\ spent'[b] \in Nat /\ late'[b] \in Nat
    <2>1. CASE b \in DOMAIN charge
      <3>1. charge[b] \in Nat
        BY <2>1, ChargeAssumption
      <3>2. charge[b] <= Refilled(b, at)
        BY <2>1, <3>1, RefilledFacts DEF CheckBuckets, AllCanPay
      <3>3. Pays(b, charge[b], at)
        BY <1>2, <2>1 DEF Pays
      <3> QED BY <1>1, <3>1, <3>2, <3>3, PaysKeeps
    <2>2. CASE b \notin DOMAIN charge
      <3>1. store'[b] = store[b] /\ spent'[b] = spent[b] /\ late'[b] = late[b]
        BY <1>2, <2>2
      <3> QED BY <1>1, <3>1, RestKeeps
    <2> QED BY <2>1, <2>2
  <1>4. /\ store' \in [Buckets -> [tokens : Nat, updatedAt : Nat, expiresAt : Nat]]
        /\ spent' \in [Buckets -> Nat] /\ late' \in [Buckets -> Nat]
    <2>1. /\ store' = [b \in Buckets |-> store'[b]] /\ spent' = [b \in Buckets |-> spent'[b]]
          /\ late' = [b \in Buckets |-> late'[b]]
      BY <1>2
    <2> QED BY <1>3, <2>1
  <1>5. BucketsTypeOK'
    BY <1>1, <1>4 DEF BucketsInv, BucketsTypeOK
  <1> QED BY <1>3, <1>5 DEF BucketsInv

\* An expired key and a full bucket are the same: the TTL outlives the refill.
LEMMA BucketsTickKeeps == ASSUME BucketsInv, BucketsTick PROVE BucketsInv'
  <1>1. /\ clock' = clock + 1 /\ UNCHANGED <<store, since, spent, late>>
        /\ clock \in Nat /\ since \in 0 .. clock
    BY DEF BucketsTick, Advance, BucketsInv, BucketsTypeOK
  <1>2. BucketsTypeOK'
    BY <1>1 DEF BucketsInv, BucketsTypeOK
  <1>3. ASSUME NEW b \in Buckets PROVE StoreInv(b)' /\ WindowInv(b)'
    <2> DEFINE t == store[b].tokens
               u == store[b].updatedAt
               x == store[b].expiresAt
               cap == Capacity[b]
               r == Refill[b]
               w == clock - since + late[b]
               A == Refilled(b, clock)
               s == spent[b]
               e == clock - u
    <2>1. /\ t \in Nat /\ u \in Nat /\ x \in Nat /\ cap \in Nat /\ r \in Nat /\ Ttl[b] \in Nat
          /\ late[b] \in Nat /\ s \in Nat /\ w \in Nat
      BY <1>1 DEF BucketsInv, BucketsTypeOK
    <2>2. u <= clock /\ t <= cap /\ (x # 0 => x >= u + Ttl[b]) /\ s + A <= cap + r * w
      BY DEF BucketsInv, StoreInv, WindowInv
    <2>3. StoreInv(b)'
      BY <1>1, <2>1, <2>2 DEF StoreInv
    <2>4. e \in Nat /\ Elapsed(b, clock) = e /\ Elapsed(b, clock)' = e + 1
      BY <1>1, <2>1, <2>2 DEF Elapsed
    <2>5. r * (e + 1) = r * e + r /\ r * e \in Nat /\ r * (w + 1) = r * w + r /\ r * w \in Nat
      <3>1. /\ r * (e + 1) = r * e + r * 1 /\ r * e \in Nat
            /\ r * (w + 1) = r * w + r * 1 /\ r * w \in Nat
        BY <2>1, <2>4, 1 \in Nat, Spreads
      <3>2. r * 1 = r
        BY <2>1
      <3> HIDE DEF t, u, x, cap, r, w, A, s, e
      <3> QED BY <3>1, <3>2
    <2>6. A = IF clock < x THEN AtMost(t + r * e, cap) ELSE cap
      BY <2>4 DEF Refilled, Live
    <2>7. Refilled(b, clock)' = IF clock + 1 < x THEN AtMost(t + r * (e + 1), cap) ELSE cap
      BY <1>1, <2>4 DEF Refilled, Live
    <2>8. Refilled(b, clock)' <= A + r /\ A \in Nat /\ Refilled(b, clock)' \in Nat
      <3>1. CASE clock + 1 < x
        <4>1. A = AtMost(t + r * e, cap) /\ Refilled(b, clock)' = AtMost(t + (r * e + r), cap)
          BY <1>1, <2>1, <2>5, <2>6, <2>7, <3>1
        <4> HIDE DEF t, u, x, cap, r, w, A, s, e
        <4> QED BY <2>1, <2>5, <4>1 DEF AtMost
      <3>2. CASE clock + 1 = x
        <4>1. Ttl[b] <= e + 1
          BY <1>1, <2>1, <2>2, <2>4, <3>2
        <4>2. r * Ttl[b] <= r * (e + 1)
          BY <2>1, <2>4, <4>1, Grows
        <4>3. r * Ttl[b] >= cap
          BY RefillAssumption
        <4>4. r * Ttl[b] \in Nat /\ r * (e + 1) \in Nat
          BY <2>1, <2>4
        <4>5. t + (r * e + r) >= cap
          BY <2>1, <2>5, <4>2, <4>3, <4>4
        <4>6. A = AtMost(t + r * e, cap) /\ Refilled(b, clock)' = cap
          BY <1>1, <2>1, <2>6, <2>7, <3>2
        <4> HIDE DEF t, u, x, cap, r, w, A, s, e
        <4> QED BY <2>1, <2>5, <4>5, <4>6 DEF AtMost
      <3>3. CASE clock >= x
        <4>1. A = cap /\ Refilled(b, clock)' = cap
          BY <1>1, <2>1, <2>6, <2>7, <3>3
        <4> QED BY <2>1, <4>1
      <3> QED BY <1>1, <2>1, <3>1, <3>2, <3>3
    <2>9. (clock - since + late[b])' = w + 1 /\ spent'[b] = s
      BY <1>1, <2>1
    <2>10. WindowInv(b)'
      <3>1. s + Refilled(b, clock)' <= cap + r * (w + 1)
        <4> HIDE DEF t, u, x, cap, r, w, A, s, e
        <4> QED BY <2>1, <2>2, <2>5, <2>8
      <3> QED BY <2>9, <3>1 DEF WindowInv
    <2> QED BY <2>3, <2>10
  <1> QED BY <1>2, <1>3 DEF BucketsInv

\* A new window starts with what the bucket has.
LEMMA ObserveKeeps == ASSUME BucketsInv, Observe PROVE BucketsInv'
  <1>1. BucketsTypeOK'
    BY DEF Observe, BucketsInv, BucketsTypeOK
  <1>2. ASSUME NEW b \in Buckets PROVE StoreInv(b)' /\ WindowInv(b)'
    <2>1. clock \in Nat /\ Capacity[b] \in Nat /\ Refill[b] \in Nat
      BY DEF BucketsInv, BucketsTypeOK
    <2>2. StoreInv(b)'
      BY DEF Observe, BucketsInv, StoreInv
    <2>3. Refilled(b, clock)' = Refilled(b, clock)
      BY DEF Observe, Refilled, Live, Elapsed
    <2>4. Refilled(b, clock) \in Nat /\ Refilled(b, clock) <= Capacity[b]
      <3>1. clock \in 0 .. clock
        BY <2>1
      <3> QED BY <3>1, RefilledFacts
    <2>5. spent'[b] = 0 /\ (clock - since + late[b])' = 0
      BY <2>1 DEF Observe
    <2>6. Refill[b] * 0 = 0
      BY <2>1
    <2> QED BY <2>1, <2>2, <2>3, <2>4, <2>5, <2>6 DEF WindowInv
  <1> QED BY <1>1, <1>2 DEF BucketsInv
----------------------------------------------------------------------------
LEMMA BucketsInvInit == BucketsInit => BucketsInv
  <1> SUFFICES ASSUME BucketsInit PROVE BucketsInv
    OBVIOUS
  <1>1. BucketsTypeOK
    BY DEF BucketsInit, BucketsTypeOK, Absent
  <1>2. ASSUME NEW b \in Buckets PROVE StoreInv(b) /\ WindowInv(b)
    <2>1. StoreInv(b)
      BY DEF BucketsInit, StoreInv, Absent
    <2>2. Refilled(b, clock) = Capacity[b] /\ spent[b] = 0 /\ clock - since + late[b] = 0
      BY DEF BucketsInit, Refilled, Live, Absent
    <2>3. Refill[b] * 0 = 0 /\ Capacity[b] \in Nat
      OBVIOUS
    <2> QED BY <2>1, <2>2, <2>3 DEF WindowInv
  <1> QED BY <1>1, <1>2 DEF BucketsInv

\* Every step keeps the buckets' invariant.
LEMMA BucketsInvNext == BucketsInv /\ [BucketsNext]_bucketVars => BucketsInv'
  <1> SUFFICES ASSUME BucketsInv, [BucketsNext]_bucketVars PROVE BucketsInv'
    OBVIOUS
  <1>1. ASSUME NEW b \in Buckets, NEW charge \in Charges, NEW at \in Stamps,
               DOMAIN charge = {b}, CheckBucket(b, charge[b], at)
        PROVE  BucketsInv'
    <2>1. at \in 0 .. clock /\ charge[b] \in Nat
      BY <1>1, ChargeAssumption DEF Stamps
    <2> QED BY <1>1, <2>1, SingleKeeps
  <1>2. ASSUME NEW charge \in Charges, NEW at \in Stamps, CheckBuckets(charge, at)
        PROVE  BucketsInv'
    <2>1. at \in 0 .. clock
      BY DEF Stamps
    <2> QED BY <1>2, <2>1, MultiKeeps
  <1>3. CASE UNCHANGED bucketVars
    BY <1>3 DEF bucketVars, BucketsInv, BucketsTypeOK, StoreInv, WindowInv, Refilled, Live, Elapsed
  <1> QED BY <1>1, <1>2, <1>3, BucketsTickKeeps, ObserveKeeps DEF BucketsNext

\* The stored buckets keep their type: no script takes more than a bucket has.
THEOREM BucketsTypeCorrect == BucketsSpec => []BucketsTypeOK
  <1>1. BucketsInv => BucketsTypeOK
    BY DEF BucketsInv
  <1> QED BY <1>1, BucketsInvInit, BucketsInvNext, PTL DEF BucketsSpec

\* bucketScript and multiBucketScript admit in no window more than the burst,
\* the refill over the window and the refill of the lateness they met.
THEOREM WindowIsBounded == BucketsSpec => []AdmissionBound
  <1>1. ASSUME BucketsInv PROVE AdmissionBound
    <2> SUFFICES ASSUME NEW b \in Buckets
                 PROVE  spent[b] <= Capacity[b] + Refill[b] * (clock - since + late[b])
      BY DEF AdmissionBound
    <2>1. clock \in Nat /\ since \in 0 .. clock /\ late[b] \in Nat /\ spent[b] \in Nat
      BY <1>1 DEF BucketsInv, BucketsTypeOK
    <2>2. clock - since + late[b] \in Nat
      BY <2>1
    <2>3. Refill[b] * (clock - since + late[b]) \in Nat
      BY <2>2
    <2>4. Refilled(b, clock) \in Nat
      <3>1. clock \in 0 .. clock
        BY <2>1
      <3> QED BY <1>1, <3>1, RefilledFacts
    <2> QED BY <1>1, <2>1, <2>3, <2>4 DEF BucketsInv, WindowInv
  <1> QED BY <1>1, BucketsInvInit, BucketsInvNext, PTL DEF BucketsSpec

-----------------------------------------------------------------------------
\* A non-empty finite set of natural numbers has a greatest element, by
\* induction over its size.

Below == OpToRel(<, Nat)

\* A non-empty set of natural numbers has a least element.
LEMMA LeastNatural ==
    ASSUME NEW T \in SUBSET Nat, T # {}
    PROVE  \E m \in T : \A n \in T : m <= n
  <1>1. IsWellFoundedOn(Below, Nat)
    BY NatLessThanWellFounded DEF Below
  <1>2. PICK m \in T : \A n \in T : ~ (<<n, m>> \in Below)
    BY <1>1, WFMin
  <1>3. ASSUME NEW n \in T PROVE m <= n
    <2>1. n < m => <<n, m>> \in Below
      BY DEF Below, OpToRel
    <2> QED BY <1>2, <2>1
  <1> QED BY <1>3

\* Induction over the natural numbers, with the set of the numbers that qualify.
LEMMA InductionOverNat ==
    ASSUME NEW T, 0 \in T, \A n \in Nat : n \in T => n + 1 \in T
    PROVE  Nat \subseteq T
  <1> SUFFICES ASSUME Nat \ T # {} PROVE FALSE
    OBVIOUS
  <1>1. PICK m \in Nat \ T : \A n \in Nat \ T : m <= n
    BY LeastNatural
  <1>2. m # 0 /\ m - 1 \in Nat
    OBVIOUS
  <1>3. m - 1 \in T
    BY <1>1, <1>2
  <1> QED BY <1>2, <1>3

\* The greatest of a finite set of natural numbers.
LEMMA GreatestOfFinite ==
    ASSUME NEW S \in SUBSET Nat, IsFiniteSet(S), S # {}
    PROVE  \E m \in S : \A x \in S : x <= m
  <1> DEFINE Has(n) == \A R \in SUBSET Nat : IsFiniteSet(R) /\ Cardinality(R) = n + 1 => \E m \in R : \A x \in R : x <= m
             T == {n \in Nat : Has(n)}
  <1>1. ASSUME NEW R \in SUBSET Nat, NEW r \in R, IsFiniteSet(R)
        PROVE  IsFiniteSet(R \ {r}) /\ Cardinality(R \ {r}) = Cardinality(R) - 1 /\ Cardinality(R) \in Nat
    BY <1>1, FS_RemoveElement, FS_CardinalityType
  <1>2. Has(0)
    <2> SUFFICES ASSUME NEW R \in SUBSET Nat, IsFiniteSet(R), Cardinality(R) = 1
                 PROVE  \E m \in R : \A x \in R : x <= m
      OBVIOUS
    <2>1. R # {}
      BY FS_EmptySet
    <2>2. PICK r \in R : TRUE
      BY <2>1
    <2>3. IsFiniteSet(R \ {r}) /\ Cardinality(R \ {r}) = 0
      BY <1>1
    <2>4. R \ {r} = {}
      BY <2>3, FS_EmptySet
    <2> QED BY <2>2, <2>4
  <1>3. ASSUME NEW n \in Nat, Has(n) PROVE Has(n + 1)
    <2> SUFFICES ASSUME NEW R \in SUBSET Nat, IsFiniteSet(R), Cardinality(R) = n + 1 + 1
                 PROVE  \E m \in R : \A x \in R : x <= m
      OBVIOUS
    <2>1. R # {}
      BY FS_EmptySet
    <2>2. PICK r \in R : TRUE
      BY <2>1
    <2>3. R \ {r} \in SUBSET Nat /\ IsFiniteSet(R \ {r}) /\ Cardinality(R \ {r}) = n + 1
      BY <1>1
    <2>4. PICK m \in R \ {r} : \A x \in R \ {r} : x <= m
      BY <1>3, <2>3
    <2>5. m \in Nat /\ r \in Nat
      OBVIOUS
    <2>6. CASE r <= m
      BY <2>4, <2>6
    <2>7. CASE m < r
      BY <2>4, <2>5, <2>7
    <2> QED BY <2>5, <2>6, <2>7
  <1> HIDE DEF Has
  <1>7. 0 \in T /\ \A n \in Nat : n \in T => n + 1 \in T
    BY <1>2, <1>3
  <1>8. \A n \in T : Has(n)
    OBVIOUS
  <1> HIDE DEF T
  <1>4. Nat \subseteq T
    BY <1>7, InductionOverNat
  <1>5. Cardinality(S) \in Nat /\ Cardinality(S) # 0
    BY FS_CardinalityType, FS_EmptySet
  <1>6. Has(Cardinality(S) - 1)
    BY <1>4, <1>5, <1>8
  <1> QED BY <1>5, <1>6 DEF Has

\* Waiting pays for what is missing.
LEMMA WaitPays ==
    ASSUME NEW m \in Nat, NEW r \in Nat \ {0}
    PROVE  Wait(m, r) \in Nat /\ m <= r * Wait(m, r)
  <1> DEFINE n == m + r - 1
             q == n \div r
  <1>1. n \in Nat /\ n + 1 = m + r
    OBVIOUS
  <1> HIDE DEF n
  <1>2. q \in Nat /\ n = r * q + (n % r) /\ n % r \in 0 .. r - 1
    BY <1>1
  <1>3. r * q \in Nat /\ n % r \in Nat /\ n % r <= r - 1
    BY <1>2
  <1>4. n <= r * q + (r - 1)
    BY <1>2, <1>3
  <1>5. m <= r * q
    BY <1>1, <1>3, <1>4
  <1>6. Wait(m, r) = q
    BY DEF Wait, n
  <1> QED BY <1>2, <1>5, <1>6

\* The longest wait of the buckets that cannot pay is one of their waits.
LEMMA RetryAfterCovers ==
    ASSUME BucketsInv, NEW charge \in Charges, ~AllCanPay(charge, clock)
    PROVE  /\ RetryAfter(charge, clock) \in Nat
           /\ \A b \in DOMAIN charge : Refilled(b, clock) < charge[b] =>
                 Wait(charge[b] - Refilled(b, clock), Refill[b]) <= RetryAfter(charge, clock)
  <1> DEFINE short == {b \in DOMAIN charge : Refilled(b, clock) < charge[b]}
             wait(b) == Wait(charge[b] - Refilled(b, clock), Refill[b])
             waits == {wait(b) : b \in short}
             f == [b \in short |-> wait(b)]
  <1>1. /\ IsFiniteSet(DOMAIN charge) /\ DOMAIN charge \subseteq Buckets
        /\ \A b \in DOMAIN charge : charge[b] \in Nat
    BY ChargeAssumption
  <1>2. \A b \in DOMAIN charge : Refilled(b, clock) \in Nat
    <2>1. clock \in 0 .. clock
      BY DEF BucketsInv, BucketsTypeOK
    <2>2. \A b \in Buckets : Refilled(b, clock) \in Nat
      BY <2>1, RefilledFacts
    <2> QED BY <1>1, <2>2
  <1>3. \A b \in short : wait(b) \in Nat
    <2> SUFFICES ASSUME NEW b \in short PROVE wait(b) \in Nat
      OBVIOUS
    <2>1. charge[b] - Refilled(b, clock) \in Nat /\ Refill[b] \in Nat \ {0}
      BY <1>1, <1>2, BucketAssumption
    <2> QED BY <2>1, WaitPays
  <1>4. short # {}
    BY <1>1, <1>2 DEF AllCanPay
  <1>5. IsFiniteSet(short)
    BY <1>1, FS_Subset
  <1>6. RetryAfter(charge, clock) = CHOOSE w \in waits : \A v \in waits : v <= w
    BY DEF RetryAfter
  <1>7. \A b \in short : wait(b) \in waits
    OBVIOUS
  <1>8. \A w \in waits : \E b \in short : w = wait(b)
    OBVIOUS
  <1> HIDE DEF short, wait, waits
  <1>9. f \in Surjection(short, waits)
    BY <1>7, <1>8 DEF Surjection
  <1>10. IsFiniteSet(waits)
    BY <1>5, <1>9, FS_Surjection
  <1>11. waits \subseteq Nat /\ waits # {}
    BY <1>3, <1>4, <1>7, <1>8
  <1>12. PICK w \in waits : \A v \in waits : v <= w
    BY <1>10, <1>11, GreatestOfFinite
  <1>13. RetryAfter(charge, clock) \in waits /\ \A v \in waits : v <= RetryAfter(charge, clock)
    BY <1>6, <1>12
  <1>14. \A b \in short : wait(b) <= RetryAfter(charge, clock)
    BY <1>7, <1>13
  <1> QED BY <1>11, <1>13, <1>14 DEF short, wait

\* A bucket refills while time passes and nobody writes it.
LEMMA Refilling ==
    ASSUME BucketsInv, NEW b \in Buckets, NEW w \in Nat, NEW cost \in Nat, cost <= Capacity[b],
           Refilled(b, clock) < cost => Wait(cost - Refilled(b, clock), Refill[b]) <= w
    PROVE  Refilled(b, clock + w) >= cost
  <1> DEFINE x == store[b].tokens
             r == Refill[b]
             e == Elapsed(b, clock)
             cap == Capacity[b]
  <1>0. clock \in Nat /\ x \in Nat /\ r \in Nat \ {0} /\ cap \in Nat /\ store[b].updatedAt \in Nat /\ store[b].updatedAt <= clock
    BY BucketAssumption DEF BucketsInv, BucketsTypeOK, StoreInv
  <1>1. e \in Nat /\ Elapsed(b, clock + w) = e + w
    BY <1>0 DEF Elapsed
  <1>2. /\ Refilled(b, clock) = IF Live(b) THEN AtMost(x + r * e, cap) ELSE cap
        /\ Refilled(b, clock + w) = IF Live(b) THEN AtMost(x + r * (e + w), cap) ELSE cap
    BY <1>1 DEF Refilled
  <1>3. CASE ~Live(b)
    BY <1>0, <1>2, <1>3
  <1>4. CASE Live(b)
    <2> HIDE DEF x, r, e, cap
    <2>0. r * e \in Nat /\ r * w \in Nat /\ r * (e + w) = r * e + r * w
      BY <1>0, <1>1, Spreads
    <2>1. CASE x + r * e >= cost
      BY <1>0, <1>1, <1>2, <1>4, <2>0, <2>1 DEF AtMost, cap
    <2>2. CASE x + r * e < cost
      <3>1. Refilled(b, clock) = x + r * e
        BY <1>0, <1>2, <1>4, <2>0, <2>2 DEF AtMost, cap
      <3> DEFINE m == cost - (x + r * e)
      <3>2. m \in Nat
        BY <1>0, <2>0, <2>2
      <3>3. Wait(m, r) <= w /\ Wait(m, r) \in Nat /\ m <= r * Wait(m, r)
        <4>1. Wait(m, r) <= w
          BY <2>0, <2>2, <3>1, <1>0 DEF r
        <4> HIDE DEF m
        <4> QED BY <4>1, <3>2, <1>0, WaitPays
      <3>4. r * Wait(m, r) <= r * w
        BY <3>3, <1>0, Grows
      <3>5. r * Wait(m, r) \in Nat
        BY <3>3, <1>0
      <3>6. m <= r * w
        BY <3>2, <3>3, <3>4, <3>5, <2>0
      <3>7. cost <= x + r * (e + w)
        BY <1>0, <2>0, <3>6
      <3> QED BY <1>0, <1>1, <1>2, <1>4, <2>0, <3>7 DEF AtMost, cap
    <2> QED BY <1>0, <2>0, <2>1, <2>2
  <1> QED BY <1>3, <1>4

\* retry_after_ms (limiter.ts): a caller that waits as long as a refusal says,
\* while nobody else spends, is admitted by every bucket of the hierarchy.
THEOREM RetryIsAdmitted == BucketsSpec => []RetryAfterSuffices
  <1>1. BucketsInv => RetryAfterSuffices
    <2> SUFFICES ASSUME BucketsInv, NEW charge \in Charges,
                        \A b \in DOMAIN charge : charge[b] <= Capacity[b], ~AllCanPay(charge, clock)
                 PROVE  AllCanPay(charge, clock + RetryAfter(charge, clock))
      BY DEF RetryAfterSuffices
    <2>1. PICK w : w = RetryAfter(charge, clock)
      OBVIOUS
    <2>2. /\ w \in Nat
          /\ \A b \in DOMAIN charge : Refilled(b, clock) < charge[b] => Wait(charge[b] - Refilled(b, clock), Refill[b]) <= w
      BY <2>1, RetryAfterCovers
    <2>3. ASSUME NEW b \in DOMAIN charge PROVE Refilled(b, clock + w) >= charge[b]
      <3>1. b \in Buckets /\ charge[b] \in Nat /\ charge[b] <= Capacity[b]
        BY ChargeAssumption
      <3>2. PICK cost : cost = charge[b]
        OBVIOUS
      <3> QED BY <2>2, <3>1, <3>2, Refilling
    <2> QED BY <2>1, <2>3 DEF AllCanPay
  <1> QED BY <1>1, BucketsInvInit, BucketsInvNext, PTL DEF BucketsSpec
=============================================================================

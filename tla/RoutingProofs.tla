---------------------------- MODULE RoutingProofs ----------------------------
(***************************************************************************)
(* From the providers' catalogs to the provider a request is sent to: each *)
(* part proved of its own specification for every value of its constants,  *)
(* and then of the behaviours MCRouting puts together.                     *)
(***************************************************************************)
EXTENDS MCRouting, FiniteSetTheorems, SequenceTheorems, NaturalsInduction, WellFoundedInduction, TLAPS

-----------------------------------------------------------------------------
\* Least and greatest elements.

Below == OpToRel(<, Nat)

\* A non-empty set of natural numbers has a least element.
LEMMA LeastNatural ==
    ASSUME NEW T \in SUBSET Nat, T # {}
    PROVE  \E m \in T : \A n \in T : m <= n
  <1>1. IsWellFoundedOn(Below, Nat)
    BY NatLessThanWellFounded DEF Below
  <1>2. PICK m \in T : \A n \in T : ~ (<<n, m>> \in Below)
    BY <1>1, WFMin
  <1>3. ASSUME NEW n \in T PROVE m <= n
    <2>1. n < m => <<n, m>> \in Below
      BY DEF Below, OpToRel
    <2> QED BY <1>2, <2>1
  <1> QED BY <1>3

\* So that Min names it.
LEMMA MinIsLeast ==
    ASSUME NEW T \in SUBSET Nat, T # {}
    PROVE  Min(T) \in T /\ \A n \in T : Min(T) <= n
  <1>1. \E m \in T : \A n \in T : m <= n
    BY LeastNatural
  <1> QED BY <1>1 DEF Min

\* A finite set that is totally ordered has an element before all others: the one
\* with the fewest predecessors has none.
LEMMA FirstExists ==
    ASSUME NEW S, IsFiniteSet(S), S # {}, NEW R,
           \A x \in S : <<x, x>> \notin R,
           \A x, y \in S : x # y => <<x, y>> \in R \/ <<y, x>> \in R,
           \A x, y, z \in S : <<x, y>> \in R /\ <<y, z>> \in R => <<x, z>> \in R
    PROVE  \E x \in S : \A y \in S \ {x} : <<x, y>> \in R
  <1> DEFINE before(x) == {y \in S : <<y, x>> \in R}
             counts == {Cardinality(before(x)) : x \in S}
  <1>1. ASSUME NEW x \in S PROVE IsFiniteSet(before(x)) /\ Cardinality(before(x)) \in Nat
    <2>1. before(x) \in SUBSET S
      OBVIOUS
    <2> HIDE DEF before
    <2>2. IsFiniteSet(before(x))
      BY <2>1, FS_Subset
    <2> QED BY <2>2, FS_CardinalityType
  <1>2. counts \in SUBSET Nat /\ counts # {}
    <2> HIDE DEF before
    <2>1. \A x \in S : Cardinality(before(x)) \in Nat
      BY <1>1
    <2> QED BY <2>1
  <1>3. PICK n \in counts : \A k \in counts : n <= k
    <2> HIDE DEF counts
    <2> QED BY <1>2, LeastNatural
  <1>4. PICK x \in S : n = Cardinality(before(x))
    BY <1>3
  <1>5. ASSUME NEW y \in S, <<y, x>> \in R PROVE FALSE
    <2>1. before(y) \subseteq before(x) /\ before(y) # before(x)
      <3>1. \A z \in before(y) : z \in before(x)
        BY <1>5
      <3>2. y \in before(x) /\ y \notin before(y)
        BY <1>5
      <3> QED BY <3>1, <3>2
    <2>2. Cardinality(before(y)) \in counts
      OBVIOUS
    <2> HIDE DEF before, counts
    <2>3. Cardinality(before(y)) <= Cardinality(before(x)) /\ Cardinality(before(y)) # Cardinality(before(x))
      BY <2>1, <1>1, FS_Subset
    <2> QED BY <2>2, <2>3, <1>1, <1>3, <1>4
  <1> QED BY <1>5

-----------------------------------------------------------------------------
\* Automatic routing: the classifier's queue.

AutoSpec == AutoInit /\ [][AutoNext]_autoVars

Steps == {"idle", "classify", "classified", "fetch", "done", "failed", "aborted"}

\* A settled promise has nobody waiting for it, and an entry belongs to a
\* request that was made.
QueueInv ==
    /\ waiting \in Seq(AutoRequests) /\ inferring \subseteq AutoRequests
    /\ step \in [AutoRequests -> Steps]
    /\ \A r \in AutoRequests : step[r] \in {"idle", "classify"} => r \notin settled
    /\ \A r \in AutoRequests : step[r] = "idle" => r \notin ToSet(waiting) \cup inferring
    /\ QueueIsServed

\* Members of a sequence and of its rest.
LEMMA RestOfQueue ==
    ASSUME NEW q \in Seq(AutoRequests), NEW n \in 0 .. Len(q)
    PROVE  /\ SubSeq(q, n + 1, Len(q)) \in Seq(AutoRequests)
           /\ \A i \in DOMAIN q : i > n => q[i] \in ToSet(SubSeq(q, n + 1, Len(q)))
           /\ ToSet(SubSeq(q, n + 1, Len(q))) \subseteq ToSet(q)
           /\ SubSeq(q, n + 1, Len(q)) # <<>> => n < Len(q)
  <1> DEFINE rest == SubSeq(q, n + 1, Len(q))
  <1>0. Len(q) \in Nat /\ DOMAIN q = 1 .. Len(q)
    OBVIOUS
  <1>1. rest \in Seq(AutoRequests) /\ Len(rest) = Len(q) - n /\ \A i \in 1 .. Len(q) - n : rest[i] = q[n + i]
    BY <1>0
  <1>2. DOMAIN rest = 1 .. Len(q) - n
    BY <1>1
  <1> HIDE DEF rest
  <1>3. ASSUME NEW i \in DOMAIN q, i > n PROVE q[i] \in ToSet(rest)
    <2>1. i - n \in 1 .. Len(q) - n /\ n + (i - n) = i
      BY <1>0, <1>3
    <2>2. rest[i - n] = q[i]
      BY <1>1, <2>1
    <2> QED BY <1>2, <2>1, <2>2 DEF ToSet
  <1>4. ToSet(rest) \subseteq ToSet(q)
    <2> SUFFICES ASSUME NEW i \in DOMAIN rest PROVE rest[i] \in ToSet(q)
      BY DEF ToSet
    <2>1. n + i \in DOMAIN q
      BY <1>0, <1>2
    <2> QED BY <1>1, <1>2, <2>1 DEF ToSet
  <1>5. rest # <<>> => n < Len(q)
    BY <1>0, <1>1
  <1> QED BY <1>1, <1>3, <1>4, <1>5 DEF rest

\* drainQueue loses nobody who still waits, and stops only at an empty queue or
\* with an inference under way.
LEMMA Draining ==
    ASSUME NEW q \in Seq(AutoRequests), NEW busy \in SUBSET AutoRequests, NEW over, DrainQueue(q, busy, over)
    PROVE  /\ waiting' \in Seq(AutoRequests) /\ inferring' \subseteq AutoRequests
           /\ ToSet(waiting') \cup inferring' \subseteq ToSet(q) \cup busy
           /\ waiting' # <<>> => inferring' # {}
           /\ \A r \in (ToSet(q) \ over) \cup busy : r \in ToSet(waiting') \cup inferring'
  <1>1. CASE busy # {}
    BY <1>1 DEF DrainQueue
  <1>2. CASE busy = {}
    <2> DEFINE n == Shifted(q, over)
               live == Live(q, over)
    <2>0. Len(q) \in Nat /\ DOMAIN q = 1 .. Len(q) /\ live \subseteq DOMAIN q /\ \A i \in DOMAIN q : q[i] \in AutoRequests
      BY DEF Live
    <2>1. waiting' = SubSeq(q, n + 1, Len(q)) /\ inferring' = {q[i] : i \in {n} \cap live}
      BY <1>2 DEF DrainQueue
    <2>2. CASE live = {}
      <3>1. n = Len(q)
        BY <2>2 DEF Shifted
      <3> HIDE DEF n, live
      <3>2. waiting' = <<>> /\ inferring' = {}
        BY <2>0, <2>1, <2>2, <3>1
      <3>3. ToSet(q) \subseteq over
        <4>1. \A i \in DOMAIN q : q[i] \in over
          BY <2>2 DEF live, Live
        <4> QED BY <4>1 DEF ToSet
      <3> QED BY <1>2, <3>2, <3>3 DEF ToSet
    <2>3. CASE live # {}
      <3>1. n = Min(live)
        BY <2>3 DEF Shifted
      <3>2. live \in SUBSET Nat
        BY <2>0
      <3> HIDE DEF n, live
      <3>3. n \in live /\ \A i \in live : n <= i
        BY <2>3, <3>1, <3>2, MinIsLeast
      <3>4. n \in DOMAIN q /\ n \in 0 .. Len(q) /\ inferring' = {q[n]}
        BY <2>0, <2>1, <3>3
      <3>5. /\ waiting' \in Seq(AutoRequests) /\ ToSet(waiting') \subseteq ToSet(q)
            /\ \A i \in DOMAIN q : i > n => q[i] \in ToSet(waiting')
        BY <2>1, <3>4, RestOfQueue
      <3>6. ASSUME NEW i \in DOMAIN q, q[i] \notin over PROVE q[i] \in ToSet(waiting') \cup inferring'
        <4>1. i \in live
          BY <3>6 DEF live, Live
        <4>2. i = n \/ i > n
          BY <2>0, <3>3, <3>4, <4>1
        <4> QED BY <3>4, <3>5, <4>2
      <3>7. q[n] \in ToSet(q) /\ q[n] \in AutoRequests
        BY <2>0, <3>4 DEF ToSet
      <3> QED BY <1>2, <3>4, <3>5, <3>6, <3>7 DEF ToSet
    <2> QED BY <2>2, <2>3
  <1> QED BY <1>1, <1>2

\* A step that neither begins nor wakes a classification.
LEMMA QueueUntouched ==
    ASSUME QueueInv, UNCHANGED <<waiting, inferring, settled>>, step' \in [AutoRequests -> Steps],
           \A r \in AutoRequests : step'[r] \in {"idle", "classify"} => step'[r] = step[r]
    PROVE  QueueInv'
  BY DEF QueueInv, QueueIsServed

\* A selection ends only requests that have their class.
LEMMA ChoosingIsLate ==
    ASSUME QueueInv, UNCHANGED <<waiting, inferring, settled>>, NEW d, Choose(d),
           \A r \in DOMAIN d : r \in AutoRequests => step[r] \in {"classified", "fetch"}
    PROVE  QueueInv'
  <1>1. step' \in [AutoRequests -> Steps]
    BY DEF Choose, After, QueueInv, Steps
  <1>2. \A r \in AutoRequests : step'[r] \in {"idle", "classify"} => step'[r] = step[r]
    BY DEF Choose, After, QueueInv, Steps
  <1> QED BY <1>1, <1>2, QueueUntouched

\* A request that fails waits for nothing.
LEMMA FailingIsFinal ==
    ASSUME QueueInv, NEW r \in AutoRequests, NEW why, Fail(r, why)
    PROVE  /\ step' = [step EXCEPT ![r] = "failed"] /\ step' \in [AutoRequests -> Steps]
           /\ \A s \in AutoRequests : step'[s] \in {"idle", "classify"} => s # r /\ step'[s] = step[s]
  BY DEF Fail, QueueInv, Steps

\* The members of a queue with one more entry.
LEMMA Appended ==
    ASSUME NEW q \in Seq(AutoRequests), NEW r \in AutoRequests
    PROVE  Append(q, r) \in Seq(AutoRequests) /\ ToSet(Append(q, r)) = ToSet(q) \cup {r}
  <1>1. Append(q, r) \in Seq(AutoRequests) /\ DOMAIN Append(q, r) = 1 .. Len(q) + 1 /\ DOMAIN q = 1 .. Len(q) /\ Len(q) \in Nat
    OBVIOUS
  <1>2. \A i \in 1 .. Len(q) : Append(q, r)[i] = q[i]
    OBVIOUS
  <1>3. Append(q, r)[Len(q) + 1] = r
    OBVIOUS
  <1> QED BY <1>1, <1>2, <1>3 DEF ToSet

\* The classifier's queue: whatever times out, is aborted or ends in whichever
\* order, an entry waits only while an inference runs whose end drains the
\* queue, and a request waits only while its entry is there.
THEOREM ClassifierServesItsQueue == AutoSpec => []QueueIsServed
  <1>1. AutoInit => QueueInv
    BY DEF AutoInit, QueueInv, QueueIsServed, Steps, ToSet
  <1>2. ASSUME QueueInv, [AutoNext]_autoVars PROVE QueueInv'
    <2>1. ASSUME NEW r \in AutoRequests, Start(r) PROVE QueueInv'
      <3>1. step[r] = "idle" /\ UNCHANGED settled
        BY <2>1 DEF Start
      <3>2. CASE Fail(r, "router_unavailable") /\ UNCHANGED <<waiting, inferring>>
        BY <1>2, <3>1, <3>2, FailingIsFinal, QueueUntouched
      <3>3. CASE step' = [step EXCEPT ![r] = "classify"] /\ DrainQueue(Append(waiting, r), inferring, settled)
        <4>1. Append(waiting, r) \in Seq(AutoRequests) /\ ToSet(Append(waiting, r)) = ToSet(waiting) \cup {r}
          BY <1>2, Appended DEF QueueInv
        <4>2. /\ waiting' \in Seq(AutoRequests) /\ inferring' \subseteq AutoRequests
              /\ ToSet(waiting') \cup inferring' \subseteq ToSet(waiting) \cup {r} \cup inferring
              /\ waiting' # <<>> => inferring' # {}
              /\ \A s \in ((ToSet(waiting) \cup {r}) \ settled) \cup inferring : s \in ToSet(waiting') \cup inferring'
          <5>1. inferring \in SUBSET AutoRequests
            BY <1>2 DEF QueueInv
          <5> QED BY <3>3, <4>1, <5>1, Draining
        <4> HIDE DEF ToSet
        <4> QED BY <1>2, <3>1, <3>3, <4>2 DEF QueueInv, QueueIsServed, Steps
      <3> QED BY <2>1, <3>2, <3>3 DEF Start
    <2>2. ASSUME NEW r \in AutoRequests, QueueTimeout(r) PROVE QueueInv'
      <3>1. r \in ToSet(waiting) \cup inferring /\ settled' = settled \cup {r} /\ UNCHANGED <<waiting, inferring>>
        BY <2>2 DEF QueueTimeout
      <3>2. CASE step[r] = "classify" /\ Fail(r, "router_unavailable")
        <4>1. /\ step' \in [AutoRequests -> Steps]
              /\ \A s \in AutoRequests : step'[s] \in {"idle", "classify"} => s # r /\ step'[s] = step[s]
          BY <1>2, <3>2, FailingIsFinal
        <4> QED BY <1>2, <3>1, <4>1 DEF QueueInv, QueueIsServed
      <3>3. CASE step[r] # "classify" /\ UNCHANGED step
        BY <1>2, <3>1, <3>3 DEF QueueInv, QueueIsServed
      <3> QED BY <2>2, <3>2, <3>3 DEF QueueTimeout
    <2>3. ASSUME NEW r \in AutoRequests, InferenceEnds(r) PROVE QueueInv'
      <3>1. inferring = {r} /\ settled' = settled \cup {r} /\ DrainQueue(waiting, {}, settled \cup {r})
        BY <2>3 DEF InferenceEnds
      <3>2. /\ waiting' \in Seq(AutoRequests) /\ inferring' \subseteq AutoRequests
            /\ ToSet(waiting') \cup inferring' \subseteq ToSet(waiting)
            /\ waiting' # <<>> => inferring' # {}
            /\ \A s \in ToSet(waiting) \ (settled \cup {r}) : s \in ToSet(waiting') \cup inferring'
        <4>1. waiting \in Seq(AutoRequests) /\ {} \in SUBSET AutoRequests
          BY <1>2 DEF QueueInv
        <4>2. \A s \in (ToSet(waiting) \ (settled \cup {r})) \cup {} : s \in ToSet(waiting') \cup inferring'
          BY <3>1, <4>1, Draining
        <4>3. ToSet(waiting') \cup inferring' \subseteq ToSet(waiting) \cup {}
          BY <3>1, <4>1, Draining
        <4>4. waiting' \in Seq(AutoRequests) /\ inferring' \subseteq AutoRequests /\ (waiting' # <<>> => inferring' # {})
          BY <3>1, <4>1, Draining
        <4> HIDE DEF ToSet
        <4> QED BY <4>2, <4>3, <4>4
      <3>3. /\ step' \in [AutoRequests -> Steps]
            /\ \A s \in AutoRequests : step'[s] \in {"idle", "classify"} => s # r /\ step'[s] = step[s]
        <4>1. CASE (r \in settled \/ step[r] # "classify") /\ UNCHANGED step
          BY <1>2, <3>1, <4>1 DEF QueueInv
        <4>2. CASE Fail(r, "router_unavailable")
          BY <1>2, <4>2, FailingIsFinal
        <4>3. CASE step' = [step EXCEPT ![r] = "classified"]
          BY <1>2, <4>3 DEF QueueInv, Steps
        <4> QED BY <2>3, <4>1, <4>2, <4>3 DEF InferenceEnds
      <3> QED BY <1>2, <3>1, <3>2, <3>3 DEF QueueInv, QueueIsServed
    <2>4. ASSUME NEW r \in AutoRequests, RoutingTimeout(r) PROVE QueueInv'
      BY <1>2, <2>4, FailingIsFinal, QueueUntouched DEF RoutingTimeout
    <2>5. ASSUME NEW r \in AutoRequests, Candidates(r) PROVE QueueInv'
      <3>1. CASE SelectAll({r}, UNION {c.rows : c \in cached})
        BY <1>2, <2>5, <3>1, ChoosingIsLate DEF SelectAll, Candidates
      <3>2. CASE step' = [step EXCEPT ![r] = "fetch"]
        <4>1. step' \in [AutoRequests -> Steps] /\ \A s \in AutoRequests : step'[s] \in {"idle", "classify"} => step'[s] = step[s]
          BY <1>2, <3>2 DEF QueueInv, Steps
        <4> QED BY <1>2, <2>5, <4>1, QueueUntouched DEF Candidates
      <3> QED BY <2>5, <3>1, <3>2 DEF Candidates
    <2>6. ASSUME FallBack, UNCHANGED <<waiting, inferring, settled>> PROVE QueueInv'
      <3>1. CASE SelectAll(Fetchers, UNION {c.rows : c \in cached})
        BY <1>2, <2>6, <3>1, ChoosingIsLate DEF SelectAll, Fetchers
      <3>2. CASE step' = [r \in AutoRequests |-> IF r \in Fetchers THEN "failed" ELSE step[r]]
        <4>1. step' \in [AutoRequests -> Steps] /\ \A s \in AutoRequests : step'[s] \in {"idle", "classify"} => step'[s] = step[s]
          BY <1>2, <3>2 DEF QueueInv, Steps
        <4> QED BY <1>2, <2>6, <4>1, QueueUntouched
      <3> QED BY <2>6, <3>1, <3>2 DEF FallBack
    <2>7. ASSUME NEW r \in AutoRequests, AutoAbort(r) PROVE QueueInv'
      BY <1>2, <2>6, <2>7 DEF AutoAbort, QueueInv, QueueIsServed
    <2>8. CASE FetchArrives
      BY <1>2, <2>8, ChoosingIsLate DEF FetchArrives, SelectAll, Fetchers
    <2>9. CASE FetchFails
      BY <2>6, <2>9 DEF FetchFails
    <2>10. CASE UNCHANGED <<waiting, inferring, settled, step>>
      BY <1>2, <2>10 DEF QueueInv, QueueIsServed
    <2> QED BY <1>2, <2>1, <2>2, <2>3, <2>4, <2>5, <2>7, <2>8, <2>9, <2>10 DEF AutoNext, Relist, AutoTick, autoVars
  <1>3. QueueInv => QueueIsServed
    BY DEF QueueInv
  <1> QED BY <1>1, <1>2, <1>3, PTL DEF AutoSpec

-----------------------------------------------------------------------------
\* Automatic routing: the ranking.

\* What a request that runs was posed with.
WellPosed(b) == b.input \in Int /\ b.maxOut \subseteq Int

LEMMA CostIsANumber ==
    ASSUME NEW m \in AutoRows, NEW b, WellPosed(b)
    PROVE  EstimatedCost(m, b) \in Int
  <1>1. AutoInfo[m].maxOut \in Int /\ AutoInfo[m].context \in Int /\ AutoInfo[m].in \in Int /\ AutoInfo[m].out \in Int
    BY AutoAssumption
  <1>2. b.input \in Int /\ b.maxOut \subseteq Int
    BY DEF WellPosed
  <1>3. Room(m, b) \in Int
    BY <1>1, <1>2 DEF Room
  <1>4. EffectiveMax(m, b) \in Int
    BY <1>1, <1>2, <1>3 DEF EffectiveMax, Given
  <1> QED BY <1>1, <1>2, <1>4 DEF EstimatedCost

\* The comparator of the sort is a strict total order of the rows.
LEMMA RankingIsAnOrder ==
    ASSUME NEW b, WellPosed(b), NEW c, NEW mode \in BOOLEAN, NEW x \in AutoRows, NEW y \in AutoRows, NEW z \in AutoRows
    PROVE  /\ ~ Precedes(x, x, b, c, mode)
           /\ x # y => Precedes(x, y, b, c, mode) \/ Precedes(y, x, b, c, mode)
           /\ Precedes(x, y, b, c, mode) /\ Precedes(y, z, b, c, mode) => Precedes(x, z, b, c, mode)
  <1> DEFINE cost(m) == EstimatedCost(m, b)
             tier(m) == AutoInfo[m].tier
             latency(m) == AutoInfo[m].latency
             special(m) == IsSpecialist(m, c.effective)
             byTier == mode \/ Given(b.strategy, "balanced") # "cost"
             bySpecialty == Given(b.strategy, "balanced") # "cost" /\ Specialized(c.effective)
             Ahead(m, n) == IF byTier /\ tier(m) # tier(n) THEN tier(m) > tier(n)
                             ELSE IF bySpecialty /\ special(m) # special(n) THEN special(m)
                             ELSE IF cost(m) # cost(n) THEN cost(m) < cost(n)
                             ELSE IF tier(m) # tier(n) THEN tier(m) < tier(n)
                             ELSE IF latency(m) # latency(n) THEN latency(m) < latency(n)
                             ELSE m < n
  <1>1. \A m, n \in AutoRows : Precedes(m, n, b, c, mode) <=> Ahead(m, n)
    BY DEF Precedes
  <1>2. \A m \in {x, y, z} : m \in Nat /\ cost(m) \in Int /\ tier(m) \in Int /\ latency(m) \in Int /\ special(m) \in BOOLEAN
    BY AutoAssumption, CostIsANumber DEF IsSpecialist
  <1>3. byTier \in BOOLEAN /\ bySpecialty \in BOOLEAN
    BY DEF Specialized
  <1> HIDE DEF cost, tier, latency, special, byTier, bySpecialty
  <1>4. ~ Ahead(x, x)
    BY <1>2, <1>3
  <1>5. x # y => Ahead(x, y) \/ Ahead(y, x)
    BY <1>2, <1>3
  <1>6. Ahead(x, y) /\ Ahead(y, z) => Ahead(x, z)
    BY <1>2, <1>3
  <1> HIDE DEF Ahead
  <1> QED BY <1>1, <1>4, <1>5, <1>6

\* The sort has a first element.
LEMMA RankingHasAFirst ==
    ASSUME NEW b, WellPosed(b), NEW c, NEW ms \in SUBSET AutoRows, ms # {}
    PROVE  FirstOf(ms, b, c) # {}
  <1> DEFINE mode == c.sensitive /\ \E m \in ms : AutoInfo[m].uncensored
             Sorted == {p \in AutoRows \X AutoRows : Precedes(p[1], p[2], b, c, mode)}
  <1>1. \A x, y \in AutoRows : <<x, y>> \in Sorted <=> Precedes(x, y, b, c, mode)
    OBVIOUS
  <1>2. mode \in BOOLEAN
    OBVIOUS
  <1> HIDE DEF mode, Sorted
  <1>3. \A x \in AutoRows : <<x, x>> \notin Sorted
    BY <1>1, <1>2, RankingIsAnOrder
  <1>4. \A x, y \in AutoRows : x # y => <<x, y>> \in Sorted \/ <<y, x>> \in Sorted
    BY <1>1, <1>2, RankingIsAnOrder
  <1>5. \A x, y, z \in AutoRows : <<x, y>> \in Sorted /\ <<y, z>> \in Sorted => <<x, z>> \in Sorted
    BY <1>1, <1>2, RankingIsAnOrder
  <1>6. IsFiniteSet(ms)
    BY AutoAssumption, FS_Subset
  <1>7. PICK x \in ms : \A y \in ms \ {x} : <<x, y>> \in Sorted
    <2>1. \A x \in ms : <<x, x>> \notin Sorted
      BY <1>3
    <2>2. \A x, y \in ms : x # y => <<x, y>> \in Sorted \/ <<y, x>> \in Sorted
      BY <1>4
    <2>3. \A x, y, z \in ms : <<x, y>> \in Sorted /\ <<y, z>> \in Sorted => <<x, z>> \in Sorted
      BY <1>5
    <2> QED BY <2>1, <2>2, <2>3, <1>6, FirstExists
  <1>8. \A y \in ms \ {x} : Precedes(x, y, b, c, mode)
    BY <1>1, <1>7
  <1> QED BY <1>8 DEF FirstOf, mode

\* The floor is found, and below it stays only what the wanted tier excludes.
LEMMA RelaxingKeepsSome ==
    ASSUME NEW pool \in SUBSET AutoRows, pool # {}, NEW c, NEW tier \in Nat \ {0}
    PROVE  /\ Relaxed(pool, c, tier) # {}
           /\ \E f \in Nat : Relaxed(pool, c, tier) = AboveFloor(pool, c, f)
  <1> DEFINE enough == {f \in Floors(tier) : AboveFloor(pool, c, f) # {}}
  <1>1. AboveFloor(pool, c, 1) # {}
    <2>1. \A m \in pool : AutoInfo[m].tier \in Nat \ {0}
      BY AutoAssumption
    <2>2. \A m \in pool : AutoInfo[m].tier >= 1
      BY <2>1
    <2> QED BY <2>2 DEF AboveFloor
  <1>2. 1 \in enough /\ enough \subseteq 1 .. tier
    BY <1>1 DEF Floors
  <1> HIDE DEF enough
  <1>3. Max(enough) \in enough
    <2> DEFINE above == {n \in Nat : \A f \in enough : f <= n}
    <2>1. tier \in above
      BY <1>2
    <2>2. above \in SUBSET Nat /\ above # {}
      BY <2>1
    <2> HIDE DEF above
    <2>3. PICK least \in above : \A n \in above : least <= n
      BY <2>2, LeastNatural
    <2>4. least \in Nat /\ \A f \in enough : f <= least /\ f \in Nat
      BY <1>2, <2>3 DEF above
    <2>5. least \in enough
      <3> SUFFICES ASSUME least \notin enough PROVE FALSE
        OBVIOUS
      <3>1. \A f \in enough : f <= least - 1
        BY <2>4
      <3>2. least >= 1
        BY <1>2, <2>4
      <3>3. least - 1 \in above
        BY <2>4, <3>1, <3>2 DEF above
      <3> QED BY <2>3, <2>4, <3>3
    <2> QED BY <2>4, <2>5 DEF Max
  <1>4. Relaxed(pool, c, tier) = AboveFloor(pool, c, Max(enough))
    BY <1>2 DEF Relaxed, enough
  <1>5. Max(enough) \in Nat /\ AboveFloor(pool, c, Max(enough)) # {}
    <2>1. Max(enough) \in 1 .. tier
      BY <1>2, <1>3
    <2> QED BY <1>3, <2>1 DEF enough
  <1> QED BY <1>4, <1>5

\* What the ranking finds: something whenever something fits, something that
\* fits, and outside the cost strategy nothing below another real candidate.
Complete(best, fits, b, c) ==
    /\ best = {} => fits = {}
    /\ \A m \in best : /\ m \in fits
                       /\ Given(b.strategy, "balanced") # "cost" /\ ~c.sensitive =>
                            \A o \in fits : AutoInfo[o].provider # "mock" => AutoInfo[o].tier <= AutoInfo[m].tier

LEMMA RankingIsComplete ==
    ASSUME NEW rows \in SUBSET AutoRows, NEW b, WellPosed(b), NEW c, NEW needs
    PROVE  Complete(Best(rows, b, c, needs), Feasible(rows, b, c, needs), b, c)
  <1> DEFINE fits == Feasible(rows, b, c, needs)
             pool == RealFirst(fits)
             tier == RequiredQualityTier(c, Given(b.strategy, "balanced"))
             above == Relaxed(pool, c, tier)
             steered == SteerSensitive(above, c)
             best == FirstOf(steered, b, c)
  <1>1. Best(rows, b, c, needs) = best
    BY DEF Best
  <1>2. fits \subseteq AutoRows
    BY DEF Feasible, FilterRoutingPolicyModels
  <1> HIDE DEF fits
  <1>3. pool \subseteq fits /\ (fits # {} => pool # {})
        /\ \A o \in fits : AutoInfo[o].provider # "mock" => o \in pool
    BY DEF RealFirst
  <1>4. tier \in Nat \ {0}
    BY DEF RequiredQualityTier
  <1> HIDE DEF pool, tier
  <1>5. ASSUME pool # {} PROVE above # {} /\ \E f \in Nat : above = AboveFloor(pool, c, f)
    BY <1>2, <1>3, <1>4, <1>5, RelaxingKeepsSome
  <1>6. above \subseteq pool
    BY DEF Relaxed, AboveFloor
  <1> HIDE DEF above
  <1>7. steered \subseteq above /\ (above # {} => steered # {}) /\ (~c.sensitive => steered = above)
    BY DEF SteerSensitive
  <1> HIDE DEF steered
  <1>8. best \subseteq steered
    BY DEF FirstOf
  <1>9. steered # {} => best # {}
    BY <1>2, <1>3, <1>6, <1>7, RankingHasAFirst
  <1>10. best = {} => fits = {}
    BY <1>3, <1>5, <1>7, <1>9
  <1>11. ASSUME NEW m \in best, Given(b.strategy, "balanced") # "cost", ~c.sensitive, NEW o \in fits, AutoInfo[o].provider # "mock"
         PROVE  AutoInfo[o].tier <= AutoInfo[m].tier
    <2>1. m \in steered /\ m \in above /\ m \in pool /\ m \in AutoRows /\ o \in AutoRows /\ o \in pool /\ steered = above
      BY <1>2, <1>3, <1>6, <1>7, <1>8, <1>11
    <2>2. PICK f \in Nat : above = AboveFloor(pool, c, f)
      BY <1>5, <2>1
    <2>3. AutoInfo[o].tier \in Nat /\ AutoInfo[m].tier \in Nat
      BY <2>1, AutoAssumption
    <2>4. AutoInfo[m].tier >= f
      BY <1>11, <2>1, <2>2 DEF AboveFloor
    <2>5. CASE AutoInfo[o].tier < f
      BY <2>3, <2>4, <2>5
    <2>6. CASE AutoInfo[o].tier >= f
      <3>1. o \in steered
        BY <2>1, <2>2, <2>6 DEF AboveFloor
      <3> DEFINE mode == c.sensitive /\ \E n \in steered : AutoInfo[n].uncensored
      <3>2. o = m \/ Precedes(m, o, b, c, mode)
        BY <1>11, <3>1 DEF FirstOf
      <3> HIDE DEF mode
      <3>3. Precedes(m, o, b, c, mode) /\ AutoInfo[m].tier # AutoInfo[o].tier => AutoInfo[m].tier > AutoInfo[o].tier
        BY <1>11 DEF Precedes
      <3> QED BY <2>3, <3>2, <3>3
    <2> QED BY <2>3, <2>5, <2>6
  <1>12. \A m \in best : m \in fits
    BY <1>3, <1>6, <1>7, <1>8
  <1> HIDE DEF best
  <1> QED BY <1>1, <1>10, <1>11, <1>12 DEF Complete, fits

\* A request that runs is well posed, and every catalog is made of known rows.
SelectionInv ==
    /\ step \in [AutoRequests -> Steps]
    /\ DOMAIN sent = AutoRequests /\ DOMAIN class = AutoRequests /\ DOMAIN chosen = AutoRequests
    /\ \A r \in AutoRequests : step[r] # "idle" => WellPosed(sent[r])
    /\ listed \subseteq AutoRows /\ \A c \in cached : c.rows \subseteq AutoRows
    /\ SelectionIsComplete

Over == {"done", "aborted", "failed"}

\* The verdict on one request.
Decided(r) ==
    step[r] \in Over /\ class[r] # Nothing =>
        /\ chosen[r].reason = "no_routing_candidate" => Feasible(chosen[r].rows, sent[r], class[r], sent[r].needs) = {}
        /\ \A m \in chosen[r].model :
              /\ m \in Feasible(chosen[r].rows, sent[r], class[r], sent[r].needs)
              /\ Given(sent[r].strategy, "balanced") # "cost" /\ ~class[r].sensitive =>
                   \A o \in Feasible(chosen[r].rows, sent[r], class[r], sent[r].needs) :
                       AutoInfo[o].provider # "mock" => AutoInfo[o].tier <= AutoInfo[m].tier

LEMMA CompleteIsDecided == SelectionIsComplete <=> \A r \in AutoRequests : Decided(r)
  BY DEF SelectionIsComplete, Decided, Over

\* selectRoutingModel, whatever the rows.
LEMMA SelectionDecides ==
    ASSUME NEW rows \in SUBSET AutoRows, NEW b, WellPosed(b), NEW c
    PROVE  LET d == SelectRoutingModel(rows, b, c)
           IN  /\ d.rows = rows
               /\ d.reason = "no_routing_candidate" => Feasible(rows, b, c, b.needs) = {}
               /\ \A m \in d.model :
                     /\ m \in Feasible(rows, b, c, b.needs)
                     /\ Given(b.strategy, "balanced") # "cost" /\ ~c.sensitive =>
                          \A o \in Feasible(rows, b, c, b.needs) : AutoInfo[o].provider # "mock" => AutoInfo[o].tier <= AutoInfo[m].tier
  <1> DEFINE best == Best(rows, b, c, b.needs)
             fits == Feasible(rows, b, c, b.needs)
  <1>1. Complete(best, fits, b, c)
    BY RankingIsComplete
  <1>2. /\ SelectRoutingModel(rows, b, c).rows = rows
        /\ SelectRoutingModel(rows, b, c).model = best
        /\ SelectRoutingModel(rows, b, c).reason = "no_routing_candidate" => best = {}
    BY DEF SelectRoutingModel, Decision
  <1> HIDE DEF best, fits
  <1>3. /\ best = {} => fits = {}
        /\ \A m \in best : /\ m \in fits
                           /\ Given(b.strategy, "balanced") # "cost" /\ ~c.sensitive =>
                                \A o \in fits : AutoInfo[o].provider # "mock" => AutoInfo[o].tier <= AutoInfo[m].tier
    BY <1>1 DEF Complete
  <1> QED BY <1>2, <1>3 DEF fits

\* A selection by whoever waits for one.
LEMMA SelectingDecides ==
    ASSUME SelectionInv, NEW rs \in SUBSET AutoRequests, NEW rows \in SUBSET AutoRows, \A r \in rs : step[r] # "idle",
           SelectAll(rs, rows), UNCHANGED <<sent, class, listed>>, \A c \in cached' : c.rows \subseteq AutoRows
    PROVE  SelectionInv'
  <1> DEFINE d == [r \in rs |-> SelectRoutingModel(rows, sent[r], class[r])]
  <1>1. /\ step' = [r \in AutoRequests |-> IF r \in rs THEN After(r, d[r]) ELSE step[r]]
        /\ chosen' = [r \in AutoRequests |-> IF r \in rs THEN d[r] ELSE chosen[r]]
    BY DEF SelectAll, Choose
  <1>2. step' \in [AutoRequests -> Steps]
    <2> HIDE DEF d
    <2> QED BY <1>1 DEF After, Steps, SelectionInv
  <1>3. ASSUME NEW r \in AutoRequests PROVE Decided(r)'
    <2>1. CASE r \in rs
      <3>1. chosen'[r] = SelectRoutingModel(rows, sent[r], class[r]) /\ WellPosed(sent[r])
        BY <1>1, <2>1 DEF SelectionInv
      <3>2. /\ chosen'[r].rows = rows
            /\ chosen'[r].reason = "no_routing_candidate" => Feasible(rows, sent[r], class[r], sent[r].needs) = {}
            /\ \A m \in chosen'[r].model :
                  /\ m \in Feasible(rows, sent[r], class[r], sent[r].needs)
                  /\ Given(sent[r].strategy, "balanced") # "cost" /\ ~class[r].sensitive =>
                       \A o \in Feasible(rows, sent[r], class[r], sent[r].needs) :
                           AutoInfo[o].provider # "mock" => AutoInfo[o].tier <= AutoInfo[m].tier
        <4>1. PICK b, c : b = sent[r] /\ c = class[r]
          OBVIOUS
        <4>2. WellPosed(b) /\ chosen'[r] = SelectRoutingModel(rows, b, c)
          BY <3>1, <4>1
        <4> DEFINE made == SelectRoutingModel(rows, b, c)
        <4>3. /\ made.rows = rows
              /\ made.reason = "no_routing_candidate" => Feasible(rows, b, c, b.needs) = {}
              /\ \A m \in made.model :
                    /\ m \in Feasible(rows, b, c, b.needs)
                    /\ Given(b.strategy, "balanced") # "cost" /\ ~c.sensitive =>
                         \A o \in Feasible(rows, b, c, b.needs) : AutoInfo[o].provider # "mock" => AutoInfo[o].tier <= AutoInfo[m].tier
          BY <4>2, SelectionDecides
        <4> HIDE DEF made
        <4>4. chosen'[r] = made
          BY <4>2 DEF made
        <4> QED BY <4>1, <4>3, <4>4
      <3> QED BY <3>2 DEF Decided
    <2>2. CASE r \notin rs
      <3>1. step'[r] = step[r] /\ chosen'[r] = chosen[r]
        BY <1>1, <2>2
      <3> QED BY <3>1, CompleteIsDecided DEF SelectionInv, Decided
    <2> QED BY <2>1, <2>2
  <1>4. SelectionIsComplete'
    BY <1>3 DEF SelectionIsComplete, Decided, Over
  <1>5. \A r \in AutoRequests : step'[r] # "idle" => WellPosed(sent'[r])
    BY <1>1 DEF SelectionInv
  <1> QED BY <1>1, <1>2, <1>4, <1>5 DEF SelectionInv

\* A request that fails for another reason says nothing of the models.
LEMMA FailureDecides ==
    ASSUME SelectionInv, NEW r \in AutoRequests, NEW why, why # "no_routing_candidate", Fail(r, why),
           WellPosed(sent'[r]), DOMAIN sent' = AutoRequests,
           UNCHANGED <<class, listed, cached>>, \A s \in AutoRequests \ {r} : sent'[s] = sent[s]
    PROVE  SelectionInv'
  <1>1. /\ step' = [step EXCEPT ![r] = "failed"]
        /\ chosen' = [chosen EXCEPT ![r] = [rows |-> {}, model |-> {}, reason |-> why]]
    BY DEF Fail
  <1>2. ASSUME NEW s \in AutoRequests PROVE Decided(s)'
    <2>1. CASE s = r
      BY <1>1, <2>1 DEF SelectionInv, Decided
    <2>2. CASE s # r
      <3>1. step'[s] = step[s] /\ chosen'[s] = chosen[s] /\ sent'[s] = sent[s]
        BY <1>1, <2>2 DEF SelectionInv
      <3> QED BY <3>1, CompleteIsDecided DEF SelectionInv, Decided
    <2> QED BY <2>1, <2>2
  <1>3. SelectionIsComplete'
    BY <1>2 DEF SelectionIsComplete, Decided, Over
  <1>4. step' \in [AutoRequests -> Steps] /\ DOMAIN chosen' = AutoRequests
    BY <1>1 DEF SelectionInv, Steps
  <1>5. \A s \in AutoRequests : step'[s] # "idle" => WellPosed(sent'[s])
    BY <1>1 DEF SelectionInv
  <1> QED BY <1>3, <1>4, <1>5 DEF SelectionInv

\* A step of a request that is not over before or after it.
LEMMA WorkingDecides ==
    ASSUME SelectionInv, NEW r \in AutoRequests, UNCHANGED <<chosen, listed, cached>>, step' \in [AutoRequests -> Steps],
           step'[r] \notin Over, WellPosed(sent'[r]), DOMAIN sent' = AutoRequests, DOMAIN class' = AutoRequests,
           \A s \in AutoRequests \ {r} : step'[s] = step[s] /\ sent'[s] = sent[s] /\ class'[s] = class[s]
    PROVE  SelectionInv'
  <1>1. ASSUME NEW s \in AutoRequests PROVE Decided(s)'
    <2>1. CASE s = r
      BY <2>1 DEF Decided
    <2>2. CASE s # r
      BY <2>2, CompleteIsDecided DEF SelectionInv, Decided
    <2> QED BY <2>1, <2>2
  <1>2. SelectionIsComplete'
    BY <1>1 DEF SelectionIsComplete, Decided, Over
  <1>3. \A s \in AutoRequests : step'[s] # "idle" => WellPosed(sent'[s])
    BY DEF SelectionInv
  <1> QED BY <1>2, <1>3 DEF SelectionInv

\* Preferences leave a body well posed.
LEMMA PreferencesKeepThePrompt ==
    ASSUME NEW b \in AutoBodies, NEW p
    PROVE  WellPosed(ApplyRoutingPreferences(b, p))
  BY AutoAssumption DEF ApplyRoutingPreferences, WellPosed

\* A joined catalog load that failed: the stale copy, or no answer.
LEMMA FallingBackDecides ==
    ASSUME SelectionInv, FallBack, UNCHANGED <<sent, class, listed, cached>>
    PROVE  SelectionInv'
  <1>1. CASE cached # {} /\ SelectAll(Fetchers, UNION {c.rows : c \in cached})
    <2>1. Fetchers \in SUBSET AutoRequests /\ \A r \in Fetchers : step[r] # "idle"
      BY DEF Fetchers
    <2>2. UNION {c.rows : c \in cached} \in SUBSET AutoRows
      BY DEF SelectionInv
    <2>3. \A c \in cached' : c.rows \subseteq AutoRows
      BY DEF SelectionInv
    <2> QED BY <1>1, <2>1, <2>2, <2>3, SelectingDecides
  <1>2. CASE /\ step' = [r \in AutoRequests |-> IF r \in Fetchers THEN "failed" ELSE step[r]]
             /\ chosen' = [r \in AutoRequests |-> IF r \in Fetchers THEN [rows |-> {}, model |-> {}, reason |-> "router_unavailable"]
                                                  ELSE chosen[r]]
    <2>1. ASSUME NEW r \in AutoRequests PROVE Decided(r)'
      <3>1. CASE r \in Fetchers
        BY <1>2, <3>1 DEF Decided
      <3>2. CASE r \notin Fetchers
        <4>1. step'[r] = step[r] /\ chosen'[r] = chosen[r]
          BY <1>2, <3>2
        <4> QED BY <4>1, CompleteIsDecided DEF SelectionInv, Decided
      <3> QED BY <3>1, <3>2
    <2>2. SelectionIsComplete'
      BY <2>1 DEF SelectionIsComplete, Decided, Over
    <2>3. step' \in [AutoRequests -> Steps] /\ DOMAIN chosen' = AutoRequests
      BY <1>2 DEF SelectionInv, Steps
    <2>4. \A s \in AutoRequests : step'[s] # "idle" => WellPosed(sent'[s])
      BY <1>2 DEF SelectionInv, Fetchers
    <2> QED BY <2>2, <2>3, <2>4 DEF SelectionInv
  <1> QED BY <1>1, <1>2 DEF FallBack

\* The selector and the stages before it: automatic routing says that no model
\* fits only when none does, whichever rows the shared catalog held, and never
\* prefers a lower tier but for cost or a sensitive request.
THEOREM SelectionMissesNothing == AutoSpec => []SelectionIsComplete
  <1>1. AutoInit => SelectionInv
    <2> SUFFICES ASSUME AutoInit PROVE SelectionInv
      OBVIOUS
    <2>1. step = [r \in AutoRequests |-> "idle"] /\ listed = AutoRows /\ cached = {}
      BY DEF AutoInit
    <2>2. DOMAIN sent = AutoRequests /\ DOMAIN class = AutoRequests /\ DOMAIN chosen = AutoRequests
      BY DEF AutoInit
    <2> QED BY <2>1, <2>2 DEF SelectionInv, SelectionIsComplete, Steps
  <1>2. ASSUME SelectionInv, [AutoNext]_autoVars PROVE SelectionInv'
    <2>1. ASSUME NEW r \in AutoRequests, Start(r) PROVE SelectionInv'
      <3>1. PICK b \in AutoBodies, p \in Preferences : sent' = [sent EXCEPT ![r] = ApplyRoutingPreferences(b, p)]
        BY <2>1 DEF Start
      <3>2. WellPosed(sent'[r]) /\ DOMAIN sent' = AutoRequests /\ \A s \in AutoRequests \ {r} : sent'[s] = sent[s]
        <4> DEFINE posed == ApplyRoutingPreferences(b, p)
        <4>1. WellPosed(posed)
          BY PreferencesKeepThePrompt
        <4> HIDE DEF posed
        <4>2. sent' = [sent EXCEPT ![r] = posed] /\ DOMAIN sent = AutoRequests
          BY <1>2, <3>1 DEF posed, SelectionInv
        <4>3. sent'[r] = posed
          BY <4>2
        <4> QED BY <4>1, <4>2, <4>3
      <3>3. UNCHANGED <<class, listed, cached>>
        BY <2>1 DEF Start
      <3>4. CASE Fail(r, "router_unavailable")
        BY <1>2, <3>2, <3>3, <3>4, FailureDecides
      <3>5. CASE step' = [step EXCEPT ![r] = "classify"] /\ UNCHANGED chosen
        <4>1. step' \in [AutoRequests -> Steps] /\ step'[r] \notin Over /\ \A s \in AutoRequests \ {r} : step'[s] = step[s]
          BY <1>2, <3>5 DEF SelectionInv, Steps, Over
        <4>2. DOMAIN class' = AutoRequests
          BY <1>2, <3>3 DEF SelectionInv
        <4> QED BY <1>2, <3>2, <3>3, <3>5, <4>1, <4>2, WorkingDecides
      <3> QED BY <2>1, <3>4, <3>5 DEF Start
    <2>2. ASSUME NEW r \in AutoRequests, Fail(r, "router_unavailable") \/ Fail(r, "router_timeout"),
                 step[r] # "idle", UNCHANGED <<sent, class, listed, cached>>
          PROVE  SelectionInv'
      <3>1. WellPosed(sent'[r]) /\ DOMAIN sent' = AutoRequests
        BY <1>2, <2>2 DEF SelectionInv
      <3> QED BY <1>2, <2>2, <3>1, FailureDecides
    <2>3. CASE UNCHANGED <<step, sent, class, chosen, listed, cached>>
      BY <1>2, <2>3 DEF SelectionInv, SelectionIsComplete
    <2>4. ASSUME NEW r \in AutoRequests, QueueTimeout(r) PROVE SelectionInv'
      <3>1. CASE step[r] = "classify" /\ Fail(r, "router_unavailable")
        BY <2>2, <2>4, <3>1 DEF QueueTimeout
      <3>2. CASE UNCHANGED <<step, chosen>>
        BY <2>3, <2>4, <3>2 DEF QueueTimeout
      <3> QED BY <2>4, <3>1, <3>2 DEF QueueTimeout
    <2>5. ASSUME NEW r \in AutoRequests, InferenceEnds(r) PROVE SelectionInv'
      <3>1. UNCHANGED <<sent, cached, listed>>
        BY <2>5 DEF InferenceEnds
      <3>2. CASE UNCHANGED <<step, chosen, class>>
        BY <2>3, <3>1, <3>2
      <3>3. CASE step[r] = "classify" /\ Fail(r, "router_unavailable") /\ UNCHANGED class
        BY <2>2, <3>1, <3>3
      <3>4. CASE step[r] = "classify" /\ (\E v \in Votes : class' = [class EXCEPT ![r] = Classification(sent[r].text, v)])
                 /\ step' = [step EXCEPT ![r] = "classified"] /\ UNCHANGED chosen
        <4>1. PICK v \in Votes : class' = [class EXCEPT ![r] = Classification(sent[r].text, v)]
          BY <3>4
        <4>2. DOMAIN class' = AutoRequests /\ \A s \in AutoRequests \ {r} : class'[s] = class[s]
          <5> DEFINE new == Classification(sent[r].text, v)
          <5>1. class' = [class EXCEPT ![r] = new]
            BY <4>1
          <5> HIDE DEF new
          <5> QED BY <1>2, <5>1 DEF SelectionInv
        <4>3. step' \in [AutoRequests -> Steps] /\ step'[r] \notin Over /\ \A s \in AutoRequests \ {r} : step'[s] = step[s]
          BY <1>2, <3>4 DEF SelectionInv, Steps, Over
        <4>4. WellPosed(sent'[r]) /\ DOMAIN sent' = AutoRequests
          BY <1>2, <3>1, <3>4 DEF SelectionInv
        <4> QED BY <1>2, <3>1, <3>4, <4>2, <4>3, <4>4, WorkingDecides
      <3> QED BY <2>5, <3>2, <3>3, <3>4 DEF InferenceEnds
    <2>6. ASSUME NEW r \in AutoRequests, RoutingTimeout(r) PROVE SelectionInv'
      BY <2>2, <2>6 DEF RoutingTimeout
    <2>7. ASSUME NEW r \in AutoRequests, Candidates(r) PROVE SelectionInv'
      <3>1. step[r] = "classified" /\ UNCHANGED <<sent, class, listed, cached>>
        BY <2>7 DEF Candidates
      <3>2. CASE SelectAll({r}, UNION {c.rows : c \in cached})
        <4>1. UNION {c.rows : c \in cached} \in SUBSET AutoRows /\ \A c \in cached' : c.rows \subseteq AutoRows
          BY <1>2, <3>1 DEF SelectionInv
        <4>2. {r} \in SUBSET AutoRequests /\ \A s \in {r} : step[s] # "idle"
          BY <3>1
        <4> QED BY <1>2, <3>1, <3>2, <4>1, <4>2, SelectingDecides
      <3>3. CASE step' = [step EXCEPT ![r] = "fetch"] /\ UNCHANGED chosen
        <4>1. step' \in [AutoRequests -> Steps] /\ step'[r] \notin Over /\ \A s \in AutoRequests \ {r} : step'[s] = step[s]
          BY <1>2, <3>3 DEF SelectionInv, Steps, Over
        <4>2. WellPosed(sent'[r]) /\ DOMAIN sent' = AutoRequests /\ DOMAIN class' = AutoRequests
          BY <1>2, <3>1 DEF SelectionInv
        <4> QED BY <1>2, <3>1, <3>3, <4>1, <4>2, WorkingDecides
      <3> QED BY <2>7, <3>2, <3>3 DEF Candidates
    <2>8. ASSUME NEW r \in AutoRequests, AutoAbort(r) PROVE SelectionInv'
      BY <1>2, <2>3, <2>8, FallingBackDecides DEF AutoAbort
    <2>9. CASE FetchArrives
      <3>1. Fetchers \in SUBSET AutoRequests /\ \A r \in Fetchers : step[r] # "idle"
        BY DEF Fetchers
      <3>2. listed \in SUBSET AutoRows /\ \A c \in cached' : c.rows \subseteq AutoRows
        BY <1>2, <2>9 DEF FetchArrives, SelectionInv
      <3> QED BY <1>2, <2>9, <3>1, <3>2, SelectingDecides DEF FetchArrives
    <2>10. CASE FetchFails
      BY <1>2, <2>10, FallingBackDecides DEF FetchFails
    <2>11. CASE Relist
      <3>1. listed' \subseteq AutoRows /\ UNCHANGED <<step, sent, class, chosen, cached>>
        BY <2>11, AutoAssumption DEF Relist
      <3> QED BY <1>2, <3>1 DEF SelectionInv, SelectionIsComplete
    <2>12. CASE AutoTick
      BY <2>3, <2>12 DEF AutoTick
    <2> QED BY <1>2, <2>1, <2>3, <2>4, <2>5, <2>6, <2>7, <2>8, <2>9, <2>10, <2>11, <2>12 DEF AutoNext, autoVars
  <1>3. SelectionInv => SelectionIsComplete
    BY DEF SelectionInv
  <1> QED BY <1>1, <1>2, <1>3, PTL DEF AutoSpec

-----------------------------------------------------------------------------
(* Counting: a sum as a number of points, and the places of a sequence.    *)

\* A sum counts points: f[x] of them over each x.
Points(f, S) == UNION {{x} \X (1 .. f[x]) : x \in S}

\* The points under a finite graph are finitely many.
LEMMA PointsFinite ==
    ASSUME NEW S, IsFiniteSet(S), NEW f, \A x \in S : f[x] \in Nat
    PROVE  IsFiniteSet(Points(f, S)) /\ Cardinality(Points(f, S)) \in Nat
  <1> DEFINE column == [x \in S |-> {x} \X (1 .. f[x])]
             columns == {column[x] : x \in S}
  <1>1. IsFiniteSet(columns)
    <2>1. column \in Surjection(S, columns)
      BY DEF Surjection
    <2> HIDE DEF column
    <2> QED BY <2>1, FS_Surjection
  <1>2. ASSUME NEW x \in S PROVE IsFiniteSet(column[x])
    <2>1. IsFiniteSet({x}) /\ IsFiniteSet(1 .. f[x])
      <3>1. f[x] \in Int /\ 1 \in Int
        OBVIOUS
      <3> QED BY <3>1, FS_Singleton, FS_Interval
    <2> QED BY <2>1, FS_Product
  <1>3. IsFiniteSet(UNION columns)
    BY <1>1, <1>2, FS_UNION
  <1>4. Points(f, S) = UNION columns
    BY DEF Points
  <1> QED BY <1>3, <1>4, FS_CardinalityType

\* The points over one element are as many as its value.
LEMMA PointsOfOne ==
    ASSUME NEW x, NEW n \in Nat
    PROVE  IsFiniteSet({x} \X (1 .. n)) /\ Cardinality({x} \X (1 .. n)) = n
  <1>1. IsFiniteSet({x}) /\ Cardinality({x}) = 1
    BY FS_Singleton
  <1>2. IsFiniteSet(1 .. n) /\ Cardinality(1 .. n) = n
    <2>1. Cardinality(1 .. n) = IF 1 > n THEN 0 ELSE n - 1 + 1
      BY FS_Interval
    <2> QED BY <2>1, FS_Interval
  <1>3. Cardinality({x} \X (1 .. n)) = Cardinality({x}) * Cardinality(1 .. n)
    BY <1>1, <1>2, FS_Product
  <1> QED BY <1>1, <1>2, <1>3, FS_Product

\* One element contributes its value to the points.
LEMMA PointsWithout ==
    ASSUME NEW S, IsFiniteSet(S), NEW f, \A x \in S : f[x] \in Nat, NEW x \in S
    PROVE  Cardinality(Points(f, S)) = f[x] + Cardinality(Points(f, S \ {x}))
  <1> DEFINE one == {x} \X (1 .. f[x])
             rest == Points(f, S \ {x})
  <1>1. Points(f, S) = one \cup rest
    BY DEF Points
  <1>2. one \cap rest = {}
    BY DEF Points
  <1>3. IsFiniteSet(rest) /\ Cardinality(rest) \in Nat
    <2>1. IsFiniteSet(S \ {x})
      BY FS_Subset
    <2> QED BY <2>1, PointsFinite
  <1>4. IsFiniteSet(one) /\ Cardinality(one) = f[x] /\ f[x] \in Nat
    BY PointsOfOne
  <1> HIDE DEF one, rest
  <1>5. Cardinality(one \cup rest) = Cardinality(one) + Cardinality(rest) - Cardinality(one \cap rest)
    BY <1>3, <1>4, FS_Union
  <1>6. Cardinality(one \cap rest) = 0
    BY <1>2, FS_EmptySet
  <1> QED BY <1>1, <1>3, <1>4, <1>5, <1>6 DEF rest

\* One value changes.
LEMMA PointsChange ==
    ASSUME NEW S, IsFiniteSet(S), NEW f, NEW g, \A x \in S : f[x] \in Nat /\ g[x] \in Nat, NEW r \in S,
           \A x \in S \ {r} : g[x] = f[x]
    PROVE  /\ Cardinality(Points(f, S)) \in Nat /\ Cardinality(Points(g, S)) \in Nat
           /\ Cardinality(Points(g, S)) + f[r] = Cardinality(Points(f, S)) + g[r]
           /\ f[r] <= Cardinality(Points(f, S))
  <1>1. Cardinality(Points(f, S)) \in Nat /\ Cardinality(Points(g, S)) \in Nat
    BY PointsFinite
  <1>2. Cardinality(Points(f, S)) = f[r] + Cardinality(Points(f, S \ {r}))
    BY PointsWithout
  <1>3. Cardinality(Points(g, S)) = g[r] + Cardinality(Points(g, S \ {r}))
    BY PointsWithout
  <1>4. Points(g, S \ {r}) = Points(f, S \ {r})
    BY DEF Points
  <1>5. IsFiniteSet(S \ {r})
    BY FS_Subset
  <1>6. Cardinality(Points(f, S \ {r})) \in Nat
    BY <1>5, PointsFinite
  <1>7. f[r] \in Nat /\ g[r] \in Nat
    OBVIOUS
  <1> QED BY <1>1, <1>2, <1>3, <1>4, <1>6, <1>7

\* The places of x in a sequence, and how many they are.
Places(q, x) == {i \in DOMAIN q : q[i] = x}
Occurrences(q, x) == Cardinality(Places(q, x))

LEMMA PlacesFinite ==
    ASSUME NEW T, NEW q \in Seq(T), NEW x
    PROVE  IsFiniteSet(Places(q, x)) /\ Occurrences(q, x) \in Nat
  <1>1. IsFiniteSet(DOMAIN q)
    <2>1. DOMAIN q = 1 .. Len(q) /\ 1 \in Int /\ Len(q) \in Int
      OBVIOUS
    <2> QED BY <2>1, FS_Interval
  <1>2. Places(q, x) \in SUBSET DOMAIN q
    BY DEF Places
  <1>3. IsFiniteSet(Places(q, x))
    BY <1>1, <1>2, FS_Subset
  <1> QED BY <1>3, FS_CardinalityType DEF Occurrences

LEMMA NoPlaces ==
    ASSUME NEW x
    PROVE  Occurrences(<<>>, x) = 0
  <1>1. Places(<<>>, x) = {}
    BY DEF Places
  <1> QED BY <1>1, FS_EmptySet DEF Occurrences

\* Putting an element at the end.
LEMMA OccurrencesOfAppend ==
    ASSUME NEW T, NEW q \in Seq(T), NEW y \in T, NEW x
    PROVE  Occurrences(Append(q, y), x) = Occurrences(q, x) + (IF x = y THEN 1 ELSE 0)
  <1>1. /\ Len(q) \in Nat /\ DOMAIN q = 1 .. Len(q) /\ DOMAIN Append(q, y) = 1 .. Len(q) + 1
        /\ \A i \in 1 .. Len(q) : Append(q, y)[i] = q[i]
        /\ Append(q, y)[Len(q) + 1] = y
    OBVIOUS
  <1>2. IsFiniteSet(Places(q, x)) /\ Occurrences(q, x) \in Nat
    BY PlacesFinite
  <1>3. CASE x = y
    <2>1. Places(Append(q, y), x) = Places(q, x) \cup {Len(q) + 1}
      BY <1>1, <1>3 DEF Places
    <2>2. Len(q) + 1 \notin Places(q, x)
      BY <1>1 DEF Places
    <2>3. Cardinality(Places(q, x) \cup {Len(q) + 1}) = Cardinality(Places(q, x)) + 1
      BY <1>2, <2>2, FS_AddElement
    <2> QED BY <1>3, <2>1, <2>3 DEF Occurrences
  <1>4. CASE x # y
    <2>1. Places(Append(q, y), x) = Places(q, x)
      BY <1>1, <1>4 DEF Places
    <2> QED BY <1>2, <1>4, <2>1 DEF Occurrences
  <1> QED BY <1>3, <1>4

\* Taking the first element away.
LEMMA OccurrencesOfTail ==
    ASSUME NEW T, NEW q \in Seq(T), q # <<>>, NEW x
    PROVE  Occurrences(q, x) = Occurrences(Tail(q), x) + (IF x = Head(q) THEN 1 ELSE 0)
  <1>1. /\ Len(q) \in Nat \ {0} /\ DOMAIN q = 1 .. Len(q) /\ DOMAIN Tail(q) = 1 .. Len(q) - 1
        /\ \A i \in 1 .. Len(q) - 1 : Tail(q)[i] = q[i + 1]
        /\ Head(q) = q[1] /\ Tail(q) \in Seq(T)
    OBVIOUS
  <1> DEFINE later == {i \in Places(q, x) : i > 1}
             shift == [i \in Places(Tail(q), x) |-> i + 1]
  <1>2. IsFiniteSet(Places(Tail(q), x)) /\ Occurrences(Tail(q), x) \in Nat
    BY <1>1, PlacesFinite
  <1>3. shift \in Bijection(Places(Tail(q), x), later)
    <2>1. \A i \in Places(Tail(q), x) : shift[i] \in later
      BY <1>1 DEF Places
    <2>2. \A i, j \in Places(Tail(q), x) : shift[i] = shift[j] => i = j
      BY <1>1 DEF Places
    <2>3. \A j \in later : \E i \in Places(Tail(q), x) : shift[i] = j
      <3> SUFFICES ASSUME NEW j \in later PROVE j - 1 \in Places(Tail(q), x) /\ j - 1 + 1 = j
        OBVIOUS
      <3> QED BY <1>1 DEF Places
    <2>4. DOMAIN shift = Places(Tail(q), x)
      OBVIOUS
    <2>5. shift \in [Places(Tail(q), x) -> later]
      <3> HIDE DEF later
      <3> QED BY <2>1
    <2> HIDE DEF later, shift
    <2> QED BY <2>2, <2>3, <2>4, <2>5 DEF Bijection, Injection, Surjection, IsInjective
  <1> HIDE DEF later, shift
  <1>4. IsFiniteSet(later) /\ Cardinality(later) = Occurrences(Tail(q), x)
    BY <1>2, <1>3, FS_Bijection DEF Occurrences, ExistsBijection
  <1>5. CASE x = Head(q)
    <2>1. Places(q, x) = later \cup {1} /\ 1 \notin later
      BY <1>1, <1>5 DEF Places, later
    <2>2. Cardinality(later \cup {1}) = Cardinality(later) + 1
      BY <1>4, <2>1, FS_AddElement
    <2> QED BY <1>4, <1>5, <2>1, <2>2 DEF Occurrences
  <1>6. CASE x # Head(q)
    <2>1. Places(q, x) = later
      BY <1>1, <1>6 DEF Places, later
    <2> QED BY <1>2, <1>4, <1>6, <2>1 DEF Occurrences
  <1> QED BY <1>5, <1>6

\* Putting an element at the end several times.
WithCopies(q, y, n) == q \o [i \in 1 .. n |-> y]

LEMMA OccurrencesOfRepeat ==
    ASSUME NEW T, NEW q \in Seq(T), NEW y \in T, NEW n \in Nat, NEW x
    PROVE  /\ WithCopies(q, y, n) \in Seq(T)
           /\ Occurrences(WithCopies(q, y, n), x) = Occurrences(q, x) + (IF x = y THEN n ELSE 0)
  <1> DEFINE more == [i \in 1 .. n |-> y]
             all == q \o more
             new == Len(q) + 1 .. Len(q) + n
  <1>1. more \in Seq(T) /\ Len(more) = n /\ Len(q) \in Nat /\ DOMAIN q = 1 .. Len(q)
    OBVIOUS
  <1>2. /\ all \in Seq(T) /\ DOMAIN all = 1 .. Len(q) + n
        /\ \A i \in 1 .. Len(q) : all[i] = q[i]
        /\ \A i \in new : all[i] = y
    BY <1>1
  <1>3. IsFiniteSet(Places(q, x)) /\ Occurrences(q, x) \in Nat
    BY PlacesFinite
  <1> HIDE DEF all, more
  <1>4. CASE x = y
    <2>1. Places(all, x) = Places(q, x) \cup new /\ Places(q, x) \cap new = {}
      BY <1>1, <1>2, <1>4 DEF Places
    <2>2. IsFiniteSet(new) /\ Cardinality(new) = n
      <3>1. Len(q) + 1 \in Int /\ Len(q) + n \in Int
        BY <1>1
      <3>2. PICK a, b \in Int : a = Len(q) + 1 /\ b = Len(q) + n
        BY <3>1
      <3>3. IsFiniteSet(a .. b) /\ Cardinality(a .. b) = IF a > b THEN 0 ELSE b - a + 1
        BY FS_Interval
      <3>4. new = a .. b
        BY <3>2
      <3> HIDE DEF new
      <3>5. Cardinality(a .. b) = n
        BY <1>1, <3>2, <3>3
      <3> QED BY <3>3, <3>4, <3>5
    <2> HIDE DEF new
    <2>3. Cardinality(Places(q, x) \cup new) = Cardinality(Places(q, x)) + Cardinality(new) - Cardinality(Places(q, x) \cap new)
      BY <1>3, <2>2, FS_Union
    <2>4. Cardinality(Places(q, x) \cap new) = 0
      BY <2>1, FS_EmptySet
    <2>5. Cardinality(Places(all, x)) = Cardinality(Places(q, x)) + n
      <3>1. Cardinality(Places(q, x)) \in Nat
        BY <1>3 DEF Occurrences
      <3> QED BY <2>1, <2>2, <2>3, <2>4, <3>1
    <2> QED BY <1>2, <1>4, <2>5 DEF Occurrences, WithCopies, all, more
  <1>5. CASE x # y
    <2>1. Places(all, x) = Places(q, x)
      BY <1>1, <1>2, <1>5 DEF Places
    <2> QED BY <1>2, <1>3, <1>5, <2>1 DEF Occurrences, WithCopies, all, more
  <1> QED BY <1>4, <1>5

-----------------------------------------------------------------------------
\* Catalog synchronisation: the probe gate.

SyncSpec == SyncInit /\ [][SyncNext]_syncVars

Phases == {"idle", "retention", "fetch", "rates", "push", "probe", "report"}
RunRec ==
    [phase : Phases, attempt : Nat, payload : {"none", "models", "empty"}, read : Nat, left : Int,
     waiting : Nat, holding : Nat, probing : Nat, checks : {0, 1}, lease : BOOLEAN]
RunTable == [Lanes -> [Slots -> RunRec]]
Seats == Lanes \X Slots

\* The slots a run has, and those of all runs.
Taken(r) == r.holding + r.probing
TakenBy(runs) == [p \in Seats |-> Taken(runs[p[1]][p[2]])]

\* A run that is not at its probes has no workers.
NoWorkers(r) == r.waiting = 0 /\ r.holding = 0 /\ r.probing = 0
WorkersOnlyProbe(r) == r.phase # "probe" => NoWorkers(r)

\* The gate counts n slots, the queue is q, and the runs say the same of both.
GateState(runs, q, n) ==
    /\ runs \in RunTable /\ q \in Seq(Seats)
    /\ n = Cardinality(Points(TakenBy(runs), Seats)) /\ n <= GateLimit
    /\ q # <<>> => n = GateLimit
    /\ \A l \in Lanes, s \in Slots :
          runs[l][s].waiting = Occurrences(q, <<l, s>>) /\ WorkersOnlyProbe(runs[l][s])

GateInv == keys \in Nat /\ GateState(run, queue, slots)

LEMMA SeatsFinite == IsFiniteSet(Seats)
  <1>1. IsFiniteSet(Slots)
    <2>1. IsFiniteSet({"sched"}) /\ IsFiniteSet({"now"})
      BY FS_Singleton
    <2>2. Slots = {"sched"} \cup {"now"}
      BY DEF Slots
    <2> QED BY <2>1, <2>2, FS_Union
  <1>2. IsFiniteSet(Lanes)
    BY SyncAssumption DEF Lanes
  <1> QED BY <1>1, <1>2, FS_Product DEF Seats

\* The table with one run replaced, and the slots it takes.
OneReplaced(runs, new, l, s, r) ==
    /\ new \in RunTable /\ new[l][s] = r
    /\ \A m \in Lanes, t \in Slots : <<m, t>> # <<l, s>> => new[m][t] = runs[m][t]
    /\ Cardinality(Points(TakenBy(new), Seats)) \in Nat /\ Cardinality(Points(TakenBy(runs), Seats)) \in Nat
    /\ Cardinality(Points(TakenBy(new), Seats)) + Taken(runs[l][s]) = Cardinality(Points(TakenBy(runs), Seats)) + Taken(r)

LEMMA OneRunChanges ==
    ASSUME NEW runs \in RunTable, NEW l \in Lanes, NEW s \in Slots, NEW r \in RunRec,
           NEW new, new = [runs EXCEPT ![l][s] = r]
    PROVE  OneReplaced(runs, new, l, s, r)
  <1>1. new \in RunTable /\ new[l][s] = r /\ \A m \in Lanes, t \in Slots : <<m, t>> # <<l, s>> => new[m][t] = runs[m][t]
    <2> DEFINE lane == [runs[l] EXCEPT ![s] = r]
    <2>1. runs[l] \in [Slots -> RunRec] /\ DOMAIN runs = Lanes
      BY DEF RunTable
    <2>2. lane \in [Slots -> RunRec] /\ lane[s] = r /\ \A t \in Slots \ {s} : lane[t] = runs[l][t]
      BY <2>1
    <2>3. new = [runs EXCEPT ![l] = lane]
      OBVIOUS
    <2> HIDE DEF lane
    <2>4. new \in RunTable /\ new[l] = lane /\ \A m \in Lanes \ {l} : new[m] = runs[m]
      BY <2>2, <2>3 DEF RunTable
    <2>5. ASSUME NEW m \in Lanes, NEW t \in Slots, <<m, t>> # <<l, s>>
          PROVE  new[m][t] = runs[m][t]
      <3>1. CASE m = l
        <4>1. t # s
          BY <2>5, <3>1
        <4> QED BY <2>2, <2>4, <3>1, <4>1
      <3>2. CASE m # l
        BY <2>4, <3>2
      <3> QED BY <3>1, <3>2
    <2>6. new[l][s] = r
      BY <2>2, <2>4
    <2> QED BY <2>4, <2>5, <2>6
  <1>2. \A any \in RunTable, p \in Seats : Taken(any[p[1]][p[2]]) \in Nat
    <2> SUFFICES ASSUME NEW any \in RunTable, NEW p \in Seats PROVE Taken(any[p[1]][p[2]]) \in Nat
      OBVIOUS
    <2>1. p[1] \in Lanes /\ p[2] \in Slots
      BY DEF Seats
    <2>2. any[p[1]][p[2]] \in RunRec
      BY <2>1 DEF RunTable
    <2> QED BY <2>2 DEF RunRec, Taken
  <1> DEFINE f == TakenBy(runs)
             g == TakenBy(new)
             place == <<l, s>>
  <1>3. place \in Seats /\ f[place] = Taken(runs[l][s]) /\ g[place] = Taken(r)
    BY <1>1 DEF Seats, TakenBy
  <1>4. \A p \in Seats : f[p] \in Nat /\ g[p] \in Nat
    BY <1>1, <1>2 DEF TakenBy
  <1>5. \A p \in Seats \ {place} : g[p] = f[p]
    <2> SUFFICES ASSUME NEW p \in Seats, p # place PROVE g[p] = f[p]
      OBVIOUS
    <2>1. p[1] \in Lanes /\ p[2] \in Slots /\ p = <<p[1], p[2]>>
      BY DEF Seats
    <2>2. new[p[1]][p[2]] = runs[p[1]][p[2]]
      BY <1>1, <2>1
    <2> QED BY <2>2 DEF TakenBy
  <1> HIDE DEF f, g, place
  <1>6. /\ Cardinality(Points(f, Seats)) \in Nat /\ Cardinality(Points(g, Seats)) \in Nat
        /\ Cardinality(Points(g, Seats)) + f[place] = Cardinality(Points(f, Seats)) + g[place]
    <2>1. PICK at : at = place
      OBVIOUS
    <2>2. at \in Seats /\ \A p \in Seats \ {at} : g[p] = f[p]
      BY <1>3, <1>5, <2>1
    <2>3. /\ Cardinality(Points(f, Seats)) \in Nat /\ Cardinality(Points(g, Seats)) \in Nat
          /\ Cardinality(Points(g, Seats)) + f[at] = Cardinality(Points(f, Seats)) + g[at]
      BY <1>4, <2>2, SeatsFinite, PointsChange
    <2> QED BY <2>1, <2>3
  <1> QED BY <1>1, <1>3, <1>6 DEF OneReplaced, f, g

\* The line after its head has left and a run's workers, `more` of them, joined it.
Relined(q, rest, l, s, more) ==
    \A p \in Seats : Occurrences(rest, p) = Occurrences(Tail(q), p) + (IF p = <<l, s>> THEN more ELSE 0)

LEMMA TakenIsNat == \A x \in RunRec : Taken(x) \in Nat
  BY DEF RunRec, Taken

\* What becomes of a run that is given a slot.
LEMMA GivenSlotIsTaken ==
    ASSUME NEW x \in RunRec, x.waiting >= 1
    PROVE  /\ GivenSlot(x) \in RunRec /\ GivenSlot(x).waiting = x.waiting - 1 /\ GivenSlot(x).phase = x.phase
           /\ GivenSlot(x).read = x.read
           /\ Taken(GivenSlot(x)) = Taken(x) + 1 /\ Taken(x) \in Nat
  <1>1. x.waiting \in Nat /\ x.holding \in Nat /\ x.probing \in Nat
    BY DEF RunRec
  <1>2. x.waiting - 1 \in Nat /\ x.holding + 1 \in Nat
    BY <1>1
  <1> DEFINE u == [x EXCEPT !.holding = x.holding + 1]
  <1>3. u \in RunRec /\ u.holding = x.holding + 1 /\ u.waiting = x.waiting /\ u.probing = x.probing /\ u.phase = x.phase /\ u.read = x.read
    BY <1>2 DEF RunRec
  <1>4. GivenSlot(x) = [u EXCEPT !.waiting = x.waiting - 1]
    BY <1>3 DEF GivenSlot
  <1> HIDE DEF u
  <1> DEFINE v == [u EXCEPT !.waiting = x.waiting - 1]
  <1>5. v \in RunRec /\ v.waiting = x.waiting - 1 /\ v.holding = u.holding /\ v.probing = u.probing /\ v.phase = u.phase /\ v.read = u.read
    BY <1>2, <1>3 DEF RunRec
  <1> HIDE DEF v
  <1>6. GivenSlot(x) = v
    BY <1>4 DEF v
  <1>7. Taken(v) = Taken(x) + 1 /\ Taken(x) \in Nat
    BY <1>1, <1>3, <1>5 DEF Taken
  <1> QED BY <1>3, <1>5, <1>6, <1>7

\* A step of one run that leaves its slots and its place in line as they were.
LEMMA RunMovesOn ==
    ASSUME NEW runs, NEW q, NEW n, GateState(runs, q, n), NEW l \in Lanes, NEW s \in Slots, NEW r \in RunRec,
           NEW new, new = [runs EXCEPT ![l][s] = r],
           Taken(r) = Taken(runs[l][s]), r.waiting = runs[l][s].waiting, WorkersOnlyProbe(r)
    PROVE  GateState(new, q, n)
  <1>1. runs \in RunTable /\ Taken(runs[l][s]) \in Nat /\ Taken(r) \in Nat
    BY DEF GateState, RunTable, RunRec, Taken
  <1>2. OneReplaced(runs, new, l, s, r)
    BY <1>1, OneRunChanges
  <1>3. Cardinality(Points(TakenBy(new), Seats)) = Cardinality(Points(TakenBy(runs), Seats))
    BY <1>1, <1>2 DEF OneReplaced
  <1>4. ASSUME NEW m \in Lanes, NEW t \in Slots
        PROVE  new[m][t].waiting = Occurrences(q, <<m, t>>) /\ WorkersOnlyProbe(new[m][t])
    <2>1. CASE <<m, t>> = <<l, s>>
      BY <1>2, <2>1 DEF GateState, OneReplaced
    <2>2. CASE <<m, t>> # <<l, s>>
      BY <1>2, <2>2 DEF GateState, OneReplaced
    <2> QED BY <2>1, <2>2
  <1> QED BY <1>2, <1>3, <1>4 DEF GateState, OneReplaced

\* The slot of one run is handed to the first waiter.
LEMMA SlotHandedOn ==
    ASSUME NEW runs, NEW q, NEW n, GateState(runs, q, n), q # <<>>, NEW l \in Lanes, NEW s \in Slots, NEW r \in RunRec,
           Taken(r) + 1 = Taken(runs[l][s]), r.phase = "probe",
           NEW more \in Nat, r.waiting = runs[l][s].waiting + more,
           NEW one, one = [runs EXCEPT ![l][s] = r],
           NEW a, NEW b, Head(q) = <<a, b>>,
           NEW new, new = [one EXCEPT ![a][b] = GivenSlot(one[a][b])],
           NEW rest \in Seq(Seats),
           Relined(q, rest, l, s, more)
    PROVE  GateState(new, rest, n)
  <1>1. runs \in RunTable /\ q \in Seq(Seats) /\ n = Cardinality(Points(TakenBy(runs), Seats)) /\ n <= GateLimit /\ n = GateLimit
    BY DEF GateState
  <1>2. Taken(runs[l][s]) \in Nat /\ Taken(r) \in Nat /\ n \in Nat
    <2>1. Taken(runs[l][s]) \in Nat /\ Taken(r) \in Nat
      <3>1. runs[l][s] \in RunRec /\ r \in RunRec
        BY <1>1 DEF RunTable
      <3> QED BY <3>1, TakenIsNat
    <2>2. n \in Nat
      BY <1>1, SyncAssumption
    <2> QED BY <2>1, <2>2
  <1>3. a \in Lanes /\ b \in Slots /\ <<a, b>> \in Seats
    <2>1. <<a, b>> \in Seats
      <3>1. PICK T : T = Seats
        OBVIOUS
      <3>2. q \in Seq(T) /\ q # <<>>
        BY <1>1, <3>1
      <3>3. Head(q) \in T
        BY <3>2
      <3> QED BY <3>1, <3>3
    <2> QED BY <2>1 DEF Seats
  <1>4. OneReplaced(runs, one, l, s, r)
    BY <1>1, OneRunChanges
  <1>5. \A p \in Seats : Occurrences(q, p) = Occurrences(Tail(q), p) + (IF p = <<a, b>> THEN 1 ELSE 0)
    BY <1>1, OccurrencesOfTail
  <1>6. \A p \in Seats : Occurrences(Tail(q), p) \in Nat
    <2>1. Tail(q) \in Seq(Seats)
      BY <1>1
    <2> QED BY <2>1, PlacesFinite
  <1>7. ASSUME NEW m \in Lanes, NEW t \in Slots
        PROVE  /\ one[m][t] \in RunRec /\ WorkersOnlyProbe(one[m][t])
               /\ one[m][t].waiting = Occurrences(q, <<m, t>>) + (IF <<m, t>> = <<l, s>> THEN more ELSE 0)
    <2>1. /\ runs[m][t] \in RunRec /\ WorkersOnlyProbe(runs[m][t])
          /\ runs[m][t].waiting \in Nat /\ runs[m][t].waiting = Occurrences(q, <<m, t>>)
      BY <1>1 DEF GateState, RunTable, RunRec
    <2>2. one[m][t] \in RunRec
      BY <1>4 DEF OneReplaced, RunTable
    <2>3. CASE <<m, t>> = <<l, s>>
      <3>1. m = l /\ t = s
        BY <2>3
      <3>2. one[m][t] = r
        BY <1>4, <3>1 DEF OneReplaced
      <3>3. one[m][t].waiting = Occurrences(q, <<m, t>>) + more
        BY <2>1, <3>1, <3>2
      <3> QED BY <2>2, <2>3, <3>2, <3>3 DEF WorkersOnlyProbe
    <2>4. CASE <<m, t>> # <<l, s>>
      <3>1. one[m][t] = runs[m][t]
        BY <1>4, <2>4 DEF OneReplaced
      <3> QED BY <2>1, <2>2, <2>4, <3>1
    <2> QED BY <2>3, <2>4
  <1> DEFINE x == one[a][b]
             y == GivenSlot(x)
  <1>8. x \in RunRec /\ x.waiting \in Nat /\ x.waiting >= 1 /\ x.phase = "probe"
    <2>1. x \in RunRec /\ WorkersOnlyProbe(x) /\ x.waiting = Occurrences(q, <<a, b>>) + (IF <<a, b>> = <<l, s>> THEN more ELSE 0)
      BY <1>3, <1>7
    <2>2. Occurrences(q, <<a, b>>) \in Nat /\ Occurrences(q, <<a, b>>) >= 1
      <3>1. Occurrences(q, <<a, b>>) = Occurrences(Tail(q), <<a, b>>) + 1 /\ Occurrences(Tail(q), <<a, b>>) \in Nat
        BY <1>3, <1>5, <1>6
      <3> QED BY <3>1
    <2> HIDE DEF x
    <2>3. x.waiting \in Nat /\ x.waiting >= 1
      BY <2>1, <2>2
    <2> QED BY <2>1, <2>3 DEF WorkersOnlyProbe, NoWorkers
  <1> HIDE DEF x
  <1>9. y \in RunRec /\ y.waiting = x.waiting - 1 /\ Taken(y) = Taken(x) + 1 /\ y.phase = "probe" /\ Taken(x) \in Nat
    BY <1>8, GivenSlotIsTaken
  <1>10. OneReplaced(one, new, a, b, y)
    <2>1. one \in RunTable /\ new = [one EXCEPT ![a][b] = y]
      BY <1>4 DEF OneReplaced, x
    <2> HIDE DEF y
    <2> QED BY <1>3, <1>9, <2>1, OneRunChanges
  <1> HIDE DEF y
  <1>11. Cardinality(Points(TakenBy(new), Seats)) = n
    <2>1. /\ Cardinality(Points(TakenBy(one), Seats)) \in Nat
          /\ Cardinality(Points(TakenBy(one), Seats)) + Taken(runs[l][s]) = n + Taken(r)
      BY <1>1, <1>4 DEF OneReplaced
    <2>2. /\ Cardinality(Points(TakenBy(new), Seats)) \in Nat
          /\ Cardinality(Points(TakenBy(new), Seats)) + Taken(x) = Cardinality(Points(TakenBy(one), Seats)) + Taken(y)
      BY <1>10 DEF OneReplaced, x
    <2> QED BY <1>2, <1>9, <2>1, <2>2
  <1>12. ASSUME NEW m \in Lanes, NEW t \in Slots
         PROVE  new[m][t].waiting = Occurrences(rest, <<m, t>>) /\ WorkersOnlyProbe(new[m][t])
    <2>1. <<m, t>> \in Seats
      BY DEF Seats
    <2>2. /\ Occurrences(rest, <<m, t>>) = Occurrences(Tail(q), <<m, t>>) + (IF <<m, t>> = <<l, s>> THEN more ELSE 0)
          /\ Occurrences(q, <<m, t>>) = Occurrences(Tail(q), <<m, t>>) + (IF <<m, t>> = <<a, b>> THEN 1 ELSE 0)
          /\ Occurrences(Tail(q), <<m, t>>) \in Nat
      BY <1>5, <1>6, <2>1 DEF Relined
    <2>3. one[m][t].waiting = Occurrences(q, <<m, t>>) + (IF <<m, t>> = <<l, s>> THEN more ELSE 0)
      BY <1>7
    <2>4. CASE <<m, t>> = <<a, b>>
      <3>1. m = a /\ t = b
        BY <2>4
      <3>2. new[m][t] = y /\ x = one[m][t]
        BY <1>10, <3>1 DEF OneReplaced, x
      <3>3. y.waiting = one[m][t].waiting - 1
        BY <1>9, <3>2
      <3>4. y.waiting = Occurrences(rest, <<m, t>>)
        <4> DEFINE extra == IF <<m, t>> = <<l, s>> THEN more ELSE 0
                   front == Occurrences(Tail(q), <<m, t>>)
                   total == Occurrences(q, <<m, t>>)
                   later == Occurrences(rest, <<m, t>>)
        <4>1. later = front + extra /\ total = front + 1 /\ front \in Nat /\ extra \in Nat
              /\ one[m][t].waiting = total + extra
          BY <2>2, <2>3, <2>4
        <4> HIDE DEF extra, front, total, later
        <4>2. y.waiting = later
          BY <3>3, <4>1
        <4> QED BY <4>2 DEF later
      <3> QED BY <1>9, <3>2, <3>4 DEF WorkersOnlyProbe
    <2>5. CASE <<m, t>> # <<a, b>>
      <3>1. new[m][t] = one[m][t]
        BY <1>10, <2>5 DEF OneReplaced
      <3>2. one[m][t].waiting = Occurrences(rest, <<m, t>>)
        BY <2>2, <2>3, <2>5
      <3> QED BY <1>7, <3>1, <3>2
    <2> QED BY <2>4, <2>5
  <1>13. new \in RunTable
    BY <1>10 DEF OneReplaced
  <1> QED BY <1>1, <1>11, <1>12, <1>13 DEF GateState

\* A slot given back when nobody waits.
LEMMA SlotFreed ==
    ASSUME NEW runs, NEW n, GateState(runs, <<>>, n), NEW l \in Lanes, NEW s \in Slots, NEW r \in RunRec,
           Taken(r) + 1 = Taken(runs[l][s]), r.phase = "probe", r.waiting = runs[l][s].waiting,
           NEW new, new = [runs EXCEPT ![l][s] = r]
    PROVE  GateState(new, <<>>, n - 1)
  <1>1. runs \in RunTable /\ n = Cardinality(Points(TakenBy(runs), Seats)) /\ n <= GateLimit /\ <<>> \in Seq(Seats)
    BY DEF GateState
  <1>2. OneReplaced(runs, new, l, s, r)
    BY <1>1, OneRunChanges
  <1>3. Taken(runs[l][s]) \in Nat /\ Taken(r) \in Nat /\ GateLimit \in Nat
    <2>1. runs[l][s] \in RunRec
      BY <1>1 DEF RunTable
    <2> QED BY <2>1, TakenIsNat, SyncAssumption
  <1>4. Cardinality(Points(TakenBy(new), Seats)) = n - 1 /\ n - 1 <= GateLimit
    BY <1>1, <1>2, <1>3 DEF OneReplaced
  <1>5. ASSUME NEW m \in Lanes, NEW t \in Slots
        PROVE  new[m][t].waiting = Occurrences(<<>>, <<m, t>>) /\ WorkersOnlyProbe(new[m][t])
    <2>1. CASE <<m, t>> = <<l, s>>
      BY <1>2, <2>1 DEF GateState, OneReplaced, WorkersOnlyProbe
    <2>2. CASE <<m, t>> # <<l, s>>
      BY <1>2, <2>2 DEF GateState, OneReplaced
    <2> QED BY <2>1, <2>2
  <1>6. new \in RunTable
    BY <1>2 DEF OneReplaced
  <1> QED BY <1>1, <1>4, <1>5, <1>6 DEF GateState

\* A run's workers enter the gate: some get a slot, the others wait.
LEMMA WorkersEnter ==
    ASSUME NEW runs, NEW q, NEW n, GateState(runs, q, n), NEW l \in Lanes, NEW s \in Slots, NEW r \in RunRec,
           NoWorkers(runs[l][s]), r.phase = "probe", Taken(r) + n <= GateLimit, r.waiting # 0 => Taken(r) + n = GateLimit,
           NEW new, new = [runs EXCEPT ![l][s] = r]
    PROVE  GateState(new, WithCopies(q, <<l, s>>, r.waiting), Taken(r) + n)
  <1> DEFINE line == WithCopies(q, <<l, s>>, r.waiting)
  <1>1. runs \in RunTable /\ q \in Seq(Seats) /\ n = Cardinality(Points(TakenBy(runs), Seats)) /\ n <= GateLimit
        /\ (q # <<>> => n = GateLimit) /\ r.waiting \in Nat /\ <<l, s>> \in Seats
    BY DEF GateState, RunRec, Seats
  <1>2. OneReplaced(runs, new, l, s, r)
    BY <1>1, OneRunChanges
  <1>3. Taken(runs[l][s]) = 0 /\ runs[l][s].waiting = 0 /\ Taken(r) \in Nat /\ GateLimit \in Nat /\ n \in Nat
    <2>1. Taken(r) \in Nat
      BY TakenIsNat
    <2>2. n \in Nat
      BY <1>1, <1>2 DEF OneReplaced
    <2>3. Taken(runs[l][s]) = 0
      BY DEF NoWorkers, Taken
    <2>4. GateLimit \in Nat
      BY SyncAssumption
    <2> QED BY <2>1, <2>2, <2>3, <2>4 DEF NoWorkers
  <1>4. Cardinality(Points(TakenBy(new), Seats)) = Taken(r) + n
    BY <1>1, <1>2, <1>3 DEF OneReplaced
  <1>5. line \in Seq(Seats) /\ \A p : Occurrences(line, p) = Occurrences(q, p) + (IF p = <<l, s>> THEN r.waiting ELSE 0)
    <2>1. PICK at \in Seats : at = <<l, s>>
      BY <1>1
    <2>2. PICK w \in Nat : w = r.waiting
      BY <1>1
    <2> DEFINE more == WithCopies(q, at, w)
    <2>3. line = more
      BY <2>1, <2>2
    <2>4. more \in Seq(Seats) /\ \A p : Occurrences(more, p) = Occurrences(q, p) + (IF p = at THEN w ELSE 0)
      <3>1. ASSUME NEW p PROVE more \in Seq(Seats) /\ Occurrences(more, p) = Occurrences(q, p) + (IF p = at THEN w ELSE 0)
        BY <1>1, OccurrencesOfRepeat
      <3> HIDE DEF more
      <3>2. \A p : more \in Seq(Seats) /\ Occurrences(more, p) = Occurrences(q, p) + (IF p = at THEN w ELSE 0)
        BY <3>1
      <3> QED BY <3>2
    <2> HIDE DEF more, line
    <2> QED BY <2>1, <2>2, <2>3, <2>4
  <1>6. line # <<>> => Taken(r) + n = GateLimit
    <2> SUFFICES ASSUME line # <<>>, r.waiting = 0 PROVE Taken(r) + n = GateLimit
      OBVIOUS
    <2>1. q # <<>>
      <3> SUFFICES ASSUME q = <<>> PROVE FALSE
        OBVIOUS
      <3> QED BY DEF WithCopies
    <2> QED BY <1>1, <1>3, <2>1
  <1> HIDE DEF line
  <1>7. ASSUME NEW m \in Lanes, NEW t \in Slots
        PROVE  new[m][t].waiting = Occurrences(line, <<m, t>>) /\ WorkersOnlyProbe(new[m][t])
    <2>1. runs[m][t].waiting = Occurrences(q, <<m, t>>) /\ WorkersOnlyProbe(runs[m][t])
      BY DEF GateState
    <2>2. CASE <<m, t>> = <<l, s>>
      <3>1. m = l /\ t = s
        BY <2>2
      <3>2. new[m][t] = r
        BY <1>2, <3>1 DEF OneReplaced
      <3>3. Occurrences(line, <<m, t>>) = 0 + r.waiting
        BY <1>3, <1>5, <2>1, <2>2, <3>1
      <3> QED BY <1>1, <3>2, <3>3 DEF WorkersOnlyProbe
    <2>3. CASE <<m, t>> # <<l, s>>
      <3>1. new[m][t] = runs[m][t]
        BY <1>2, <2>3 DEF OneReplaced
      <3>2. Occurrences(line, <<m, t>>) = Occurrences(q, <<m, t>>) + 0 /\ Occurrences(q, <<m, t>>) \in Nat
        BY <1>1, <1>5, <2>3, PlacesFinite
      <3> QED BY <2>1, <3>1, <3>2
    <2> QED BY <2>2, <2>3
  <1>8. new \in RunTable
    BY <1>2 DEF OneReplaced
  <1>9. GateState(new, line, Taken(r) + n)
    BY <1>4, <1>5, <1>6, <1>7, <1>8 DEF GateState
  <1> QED BY <1>9 DEF line

\* What a change of some fields of a run does to the others.
SameWorkers(x, y) == y.waiting = x.waiting /\ y.holding = x.holding /\ y.probing = x.probing

LEMMA PhaseChanges ==
    ASSUME NEW x \in RunRec, NEW p \in Phases
    PROVE  /\ [x EXCEPT !.phase = p] \in RunRec /\ [x EXCEPT !.phase = p].phase = p
           /\ [x EXCEPT !.phase = p].read = x.read /\ SameWorkers(x, [x EXCEPT !.phase = p])
           /\ [x EXCEPT !.phase = p].attempt = x.attempt /\ [x EXCEPT !.phase = p].left = x.left
  BY DEF RunRec, SameWorkers

LEMMA AttemptChanges ==
    ASSUME NEW x \in RunRec, NEW n \in Nat
    PROVE  /\ [x EXCEPT !.attempt = n] \in RunRec /\ [x EXCEPT !.attempt = n].phase = x.phase
           /\ [x EXCEPT !.attempt = n].read = x.read /\ SameWorkers(x, [x EXCEPT !.attempt = n])
  BY DEF RunRec, SameWorkers

LEMMA PayloadChanges ==
    ASSUME NEW x \in RunRec, NEW n \in {"none", "models", "empty"}
    PROVE  /\ [x EXCEPT !.payload = n] \in RunRec /\ [x EXCEPT !.payload = n].phase = x.phase
           /\ [x EXCEPT !.payload = n].read = x.read /\ SameWorkers(x, [x EXCEPT !.payload = n])
  BY DEF RunRec, SameWorkers

LEMMA ReadChanges ==
    ASSUME NEW x \in RunRec, NEW n \in Nat
    PROVE  /\ [x EXCEPT !.read = n] \in RunRec /\ [x EXCEPT !.read = n].phase = x.phase
           /\ [x EXCEPT !.read = n].read = n /\ SameWorkers(x, [x EXCEPT !.read = n])
  BY DEF RunRec, SameWorkers

LEMMA LeaseChanges ==
    ASSUME NEW x \in RunRec, NEW b \in BOOLEAN
    PROVE  /\ [x EXCEPT !.lease = b] \in RunRec /\ [x EXCEPT !.lease = b].phase = x.phase
           /\ [x EXCEPT !.lease = b].read = x.read /\ SameWorkers(x, [x EXCEPT !.lease = b])
  BY DEF RunRec, SameWorkers

LEMMA LeftChanges ==
    ASSUME NEW x \in RunRec, NEW n \in Int
    PROVE  /\ [x EXCEPT !.left = n] \in RunRec /\ [x EXCEPT !.left = n].phase = x.phase
           /\ [x EXCEPT !.left = n].read = x.read /\ SameWorkers(x, [x EXCEPT !.left = n])
  BY DEF RunRec, SameWorkers

LEMMA ChecksChange ==
    ASSUME NEW x \in RunRec, NEW n \in {0, 1}
    PROVE  /\ [x EXCEPT !.checks = n] \in RunRec /\ [x EXCEPT !.checks = n].phase = x.phase
           /\ [x EXCEPT !.checks = n].read = x.read /\ SameWorkers(x, [x EXCEPT !.checks = n])
           /\ [x EXCEPT !.checks = n].left = x.left
  BY DEF RunRec, SameWorkers

LEMMA HoldingChanges ==
    ASSUME NEW x \in RunRec, NEW n \in Nat
    PROVE  /\ [x EXCEPT !.holding = n] \in RunRec /\ [x EXCEPT !.holding = n].phase = x.phase
           /\ [x EXCEPT !.holding = n].read = x.read /\ [x EXCEPT !.holding = n].holding = n
           /\ [x EXCEPT !.holding = n].waiting = x.waiting /\ [x EXCEPT !.holding = n].probing = x.probing
  BY DEF RunRec

LEMMA WaitingChanges ==
    ASSUME NEW x \in RunRec, NEW n \in Nat
    PROVE  /\ [x EXCEPT !.waiting = n] \in RunRec /\ [x EXCEPT !.waiting = n].phase = x.phase
           /\ [x EXCEPT !.waiting = n].read = x.read /\ [x EXCEPT !.waiting = n].waiting = n
           /\ [x EXCEPT !.waiting = n].holding = x.holding /\ [x EXCEPT !.waiting = n].probing = x.probing
  BY DEF RunRec

LEMMA ProbingChanges ==
    ASSUME NEW x \in RunRec, NEW n \in Nat
    PROVE  /\ [x EXCEPT !.probing = n] \in RunRec /\ [x EXCEPT !.probing = n].phase = x.phase
           /\ [x EXCEPT !.probing = n].read = x.read /\ [x EXCEPT !.probing = n].probing = n
           /\ [x EXCEPT !.probing = n].waiting = x.waiting /\ [x EXCEPT !.probing = n].holding = x.holding
           /\ [x EXCEPT !.probing = n].left = x.left
  BY DEF RunRec

LEMMA IdleIsEmpty == IdleRun \in RunRec /\ NoWorkers(IdleRun) /\ IdleRun.phase = "idle"
  BY DEF IdleRun, RunRec, NoWorkers, Phases

LEMMA StartIsEmpty ==
    ASSUME NEW l
    PROVE  /\ Starting(l) \in RunRec /\ NoWorkers(Starting(l)) /\ Starting(l).phase \in {"retention", "fetch"}
  <1>1. Fetcher(l).first \in {"retention", "fetch"}
    BY DEF Fetcher, VeniceFetch, FireworksFetch, DeepInfraFetch, ChutesFetch, TinfoilFetch, NearFetch, PhalaFetch, BedrockFetch
  <1>2. PICK p \in Phases : p = Fetcher(l).first
    BY <1>1 DEF Phases
  <1>3. Starting(l) = [IdleRun EXCEPT !.phase = p]
    BY <1>2 DEF Starting
  <1> QED BY <1>1, <1>2, <1>3, IdleIsEmpty, PhaseChanges DEF SameWorkers, NoWorkers

-----------------------------------------------------------------------------
\* What the callers of an on-demand sync can rely on.

Late == {"push", "probe", "report"}
CallerRec == [state : {"idle", "now", "follow", "ok", "failed"}, lane : Lanes \cup {"none"}, at : Nat, saw : Nat]

\* What a run has read by the time it delivers, if it is the run of that caller.
ReadInv ==
    /\ caller \in [Callers -> CallerRec]
    /\ \A c \in Callers :
          /\ caller[c].at <= keys
          /\ caller[c].lane = "venice" /\ caller[c].state = "ok" => caller[c].saw >= caller[c].at
          /\ caller[c].lane = "venice" /\ caller[c].state = "now" /\ run["venice"]["now"].phase \in Late
                => run["venice"]["now"].read >= caller[c].at

SyncInv == GateInv /\ ReadInv

Replaces(old, new, l, s, r) == new[l][s] = r /\ \A m \in Lanes, t \in Slots : <<m, t>> # <<l, s>> => new[m][t] = old[m][t]

LEMMA RunReplaced ==
    ASSUME GateInv, NEW l \in Lanes, NEW s \in Slots, NEW r \in RunRec, run' = [run EXCEPT ![l][s] = r]
    PROVE  Replaces(run, run', l, s, r)
  <1>1. run \in RunTable
    BY DEF GateInv, GateState
  <1>2. PICK old \in RunTable : old = run
    BY <1>1
  <1>3. PICK new : new = run'
    OBVIOUS
  <1>4. new = [old EXCEPT ![l][s] = r]
    BY <1>2, <1>3
  <1>5. OneReplaced(old, new, l, s, r)
    BY <1>4, OneRunChanges
  <1> QED BY <1>2, <1>3, <1>5 DEF OneReplaced, Replaces

SameSlots(x, y) == y.waiting = x.waiting /\ Taken(y) = Taken(x)

LEMMA GateContinues ==
    ASSUME GateInv, NEW l \in Lanes, NEW s \in Slots, NEW r \in RunRec, run' = [run EXCEPT ![l][s] = r],
           SameSlots(run[l][s], r), WorkersOnlyProbe(r), queue' = queue, slots' = slots, keys' \in Nat
    PROVE  GateInv'
  <1>1. PICK old, q, n, new : old = run /\ q = queue /\ n = slots /\ new = run'
    OBVIOUS
  <1>2. GateState(old, q, n)
    BY <1>1 DEF GateInv
  <1>3. /\ new = [old EXCEPT ![l][s] = r] /\ r.waiting = old[l][s].waiting
        /\ Taken(r) = Taken(old[l][s])
    BY <1>1 DEF SameSlots
  <1>4. GateState(new, q, n)
    BY <1>2, <1>3, RunMovesOn
  <1> QED BY <1>1, <1>4 DEF GateInv

\* No step but PushManifest's reads the keys, none moves a caller's time.
LEMMA ReadsContinue ==
    ASSUME GateInv, ReadInv, caller' = caller, keys' \in Nat, keys' >= keys,
           "venice" \in Lanes /\ run'["venice"]["now"].phase \in Late =>
               \/ run["venice"]["now"].phase \in Late /\ run'["venice"]["now"].read = run["venice"]["now"].read
               \/ run'["venice"]["now"].read = keys
    PROVE  ReadInv'
  <1>1. \A c \in Callers : caller[c] \in CallerRec
    BY DEF ReadInv
  <1>2. ASSUME NEW c \in Callers
        PROVE  /\ caller[c].at <= keys'
               /\ caller[c].lane = "venice" /\ caller[c].state = "ok" => caller[c].saw >= caller[c].at
               /\ caller[c].lane = "venice" /\ caller[c].state = "now" /\ run'["venice"]["now"].phase \in Late
                     => run'["venice"]["now"].read >= caller[c].at
    <2>1. caller[c].at \in Nat /\ caller[c].lane \in Lanes \cup {"none"} /\ keys \in Nat
      BY <1>1 DEF CallerRec, GateInv
    <2>2. caller[c].at <= keys /\ (caller[c].lane = "venice" /\ caller[c].state = "ok" => caller[c].saw >= caller[c].at)
      BY DEF ReadInv
    <2>3. caller[c].at <= keys'
      BY <2>1, <2>2
    <2>4. ASSUME caller[c].lane = "venice", caller[c].state = "now", run'["venice"]["now"].phase \in Late
          PROVE  run'["venice"]["now"].read >= caller[c].at
      <3>1. "venice" \in Lanes
        BY <2>1, <2>4
      <3>2. CASE run["venice"]["now"].phase \in Late /\ run'["venice"]["now"].read = run["venice"]["now"].read
        BY <2>4, <3>2 DEF ReadInv
      <3>3. CASE run'["venice"]["now"].read = keys
        BY <2>1, <2>2, <3>3
      <3> QED BY <2>4, <3>1, <3>2, <3>3
    <2> QED BY <2>2, <2>3, <2>4
  <1> QED BY <1>2 DEF ReadInv

LEMMA StepMoves ==
    ASSUME SyncInv, NEW l \in Lanes, NEW s \in Slots, NEW r \in RunRec, run' = [run EXCEPT ![l][s] = r], caller' = caller,
           SameSlots(run[l][s], r), WorkersOnlyProbe(r), queue' = queue, slots' = slots, keys' = keys,
           l = "venice" /\ r.phase \in Late => (run[l][s].phase \in Late /\ r.read = run[l][s].read) \/ r.read = keys
    PROVE  SyncInv'
  <1>1. GateInv /\ ReadInv /\ run' = [run EXCEPT ![l][s] = r] /\ caller' = caller /\ keys \in Nat
    BY DEF SyncInv, GateInv
  <1>2. GateInv'
    BY <1>1, GateContinues
  <1>3. "venice" \in Lanes /\ run'["venice"]["now"].phase \in Late =>
               \/ run["venice"]["now"].phase \in Late /\ run'["venice"]["now"].read = run["venice"]["now"].read
               \/ run'["venice"]["now"].read = keys
    <2> SUFFICES ASSUME "venice" \in Lanes, run'["venice"]["now"].phase \in Late
                 PROVE  \/ run["venice"]["now"].phase \in Late /\ run'["venice"]["now"].read = run["venice"]["now"].read
                        \/ run'["venice"]["now"].read = keys
      OBVIOUS
    <2>1. run'[l][s] = r /\ \A m \in Lanes, t \in Slots : <<m, t>> # <<l, s>> => run'[m][t] = run[m][t]
      <3>1. Replaces(run, run', l, s, r)
        BY <1>1, RunReplaced
      <3> QED BY <3>1 DEF Replaces
    <2>2. CASE l = "venice" /\ s = "now"
      BY <2>1, <2>2
    <2>3. CASE ~(l = "venice" /\ s = "now")
      <3>1. run'["venice"]["now"] = run["venice"]["now"]
        BY <2>1, <2>3 DEF Slots
      <3> QED BY <3>1
    <2> QED BY <2>2, <2>3
  <1>4. ReadInv'
    BY <1>1, <1>3, ReadsContinue
  <1> QED BY <1>2, <1>4 DEF SyncInv

LEMMA StepContinues ==
    ASSUME SyncInv, NEW l \in Lanes, NEW s \in Slots, NEW r \in RunRec, run' = [run EXCEPT ![l][s] = r], caller' = caller,
           SameWorkers(run[l][s], r), WorkersOnlyProbe(r), queue' = queue, slots' = slots, keys' = keys,
           l = "venice" /\ r.phase \in Late => (run[l][s].phase \in Late /\ r.read = run[l][s].read) \/ r.read = keys
    PROVE  SyncInv'
  <1>1. SameSlots(run[l][s], r)
    BY DEF SameWorkers, SameSlots, Taken
  <1> QED BY <1>1, StepMoves

\* A run ends, and answers its callers.
LEMMA StepSettles ==
    ASSUME SyncInv, NEW l \in Lanes, NEW s \in Slots, NEW ok \in BOOLEAN, Settle(l, s, ok),
           NoWorkers(run[l][s]), ok => run[l][s].phase \in Late, queue' = queue, slots' = slots, keys' = keys
    PROVE  SyncInv'
  <1>1. GateInv /\ ReadInv /\ keys \in Nat /\ run \in RunTable
    BY DEF SyncInv, GateInv, GateState
  <1>2. PICK r \in RunRec : /\ run' = [run EXCEPT ![l][s] = r]
                            /\ NoWorkers(r) /\ r.phase \in {"idle", "retention", "fetch"}
    <2>1. CASE s = "sched"
      BY <2>1, IdleIsEmpty DEF Settle
    <2>2. CASE s # "sched"
      BY <2>2, IdleIsEmpty, StartIsEmpty DEF Settle
    <2> QED BY <2>1, <2>2
  <1>3. SameSlots(run[l][s], r) /\ WorkersOnlyProbe(r) /\ r.phase \notin Late
    BY <1>2 DEF NoWorkers, SameSlots, Taken, WorkersOnlyProbe, Late
  <1>4. GateInv'
    BY <1>1, <1>2, <1>3, GateContinues
  <1>5. run'[l][s] = r /\ \A m \in Lanes, t \in Slots : <<m, t>> # <<l, s>> => run'[m][t] = run[m][t]
    <2>1. Replaces(run, run', l, s, r)
      BY <1>1, <1>2, RunReplaced
    <2> QED BY <2>1 DEF Replaces
  <1>6. CASE s = "sched"
    <2>1. caller' = caller
      BY <1>6 DEF Settle
    <2>2. "venice" \in Lanes => run'["venice"]["now"] = run["venice"]["now"]
      BY <1>5, <1>6 DEF Slots
    <2>3. ReadInv'
      BY <1>1, <2>1, <2>2, ReadsContinue
    <2> QED BY <1>4, <2>3 DEF SyncInv
  <1>7. CASE s = "now"
    <2>1. caller' = [c \in Callers |->
                IF caller[c].lane # l THEN caller[c]
                ELSE CASE caller[c].state = "now" ->
                            [caller[c] EXCEPT !.state = IF ok THEN "ok" ELSE "failed", !.saw = run[l][s].read]
                       [] caller[c].state = "follow" -> [caller[c] EXCEPT !.state = "now"]
                       [] OTHER -> caller[c]]
      BY <1>7 DEF Settle
    <2>2. run[l][s].read \in Nat
      <3>1. run[l][s] \in RunRec
        BY <1>1 DEF RunTable
      <3> QED BY <3>1 DEF RunRec
    <2>3. ASSUME NEW c \in Callers
          PROVE  /\ caller'[c] \in CallerRec /\ caller'[c].at <= keys
                 /\ caller'[c].lane = "venice" /\ caller'[c].state = "ok" => caller'[c].saw >= caller'[c].at
                 /\ caller'[c].lane = "venice" /\ caller'[c].state = "now" /\ run'["venice"]["now"].phase \in Late
                       => run'["venice"]["now"].read >= caller'[c].at
      <3>1. /\ caller[c] \in CallerRec /\ caller[c].at <= keys
            /\ caller[c].lane = "venice" /\ caller[c].state = "ok" => caller[c].saw >= caller[c].at
            /\ caller[c].lane = "venice" /\ caller[c].state = "now" /\ run["venice"]["now"].phase \in Late
                  => run["venice"]["now"].read >= caller[c].at
        BY <1>1 DEF ReadInv
      <3>2. CASE caller[c].lane # l
        <4>1. caller'[c] = caller[c]
          BY <2>1, <3>2
        <4>2. caller[c].lane = "venice" => run'["venice"]["now"] = run["venice"]["now"] \/ "venice" \notin Lanes
          BY <1>5, <3>2 DEF Slots
        <4>3. caller[c].lane \in Lanes \cup {"none"}
          BY <3>1 DEF CallerRec
        <4> QED BY <3>1, <4>1, <4>2, <4>3
      <3>3. CASE caller[c].lane = l /\ caller[c].state = "now"
        <4>1. caller'[c] = [caller[c] EXCEPT !.state = IF ok THEN "ok" ELSE "failed", !.saw = run[l][s].read]
          BY <2>1, <3>3
        <4>2. /\ caller'[c] \in CallerRec /\ caller'[c].at = caller[c].at /\ caller'[c].saw = run[l][s].read
              /\ caller'[c].state = (IF ok THEN "ok" ELSE "failed") /\ caller'[c].lane = l
          BY <2>2, <3>1, <3>3, <4>1 DEF CallerRec
        <4>3. l = "venice" /\ ok => run[l][s].read >= caller[c].at
          BY <1>7, <3>1, <3>3
        <4> QED BY <3>1, <4>2, <4>3
      <3>4. CASE caller[c].lane = l /\ caller[c].state = "follow"
        <4>1. caller'[c] = [caller[c] EXCEPT !.state = "now"]
          BY <2>1, <3>4
        <4>2. /\ caller'[c] \in CallerRec /\ caller'[c].at = caller[c].at /\ caller'[c].saw = caller[c].saw
              /\ caller'[c].state = "now" /\ caller'[c].lane = l
          BY <3>1, <3>4, <4>1 DEF CallerRec
        <4> QED BY <1>3, <1>5, <1>7, <3>1, <4>2
      <3>5. CASE caller[c].lane = l /\ caller[c].state \notin {"now", "follow"}
        <4>1. caller'[c] = caller[c]
          BY <2>1, <3>5
        <4> QED BY <3>1, <3>5, <4>1
      <3> QED BY <3>2, <3>3, <3>4, <3>5
    <2>4. caller' \in [Callers -> CallerRec]
      BY <2>1, <2>3
    <2>5. ReadInv'
      BY <2>3, <2>4 DEF ReadInv
    <2> QED BY <1>4, <2>5 DEF SyncInv
  <1> QED BY <1>6, <1>7 DEF Slots

\* A run passes its slot on to the first waiter, in whatever lane.
LEMMA StepHandsOn ==
    ASSUME SyncInv, queue # <<>>, NEW l \in Lanes, NEW s \in Slots, NEW r \in RunRec, NEW more \in Nat,
           Taken(r) + 1 = Taken(run[l][s]), r.waiting = run[l][s].waiting + more,
           r.phase = "probe", run[l][s].phase = "probe", r.read = run[l][s].read,
           run' = HandedOn([run EXCEPT ![l][s] = r]), slots' = slots, keys' = keys, caller' = caller, queue' \in Seq(Seats),
           Relined(queue, queue', l, s, more)
    PROVE  SyncInv'
  <1>1. GateInv /\ ReadInv /\ keys \in Nat /\ run \in RunTable /\ queue \in Seq(Seats)
    BY DEF SyncInv, GateInv, GateState
  <1>2. PICK old, q, n, new, rest : old = run /\ q = queue /\ n = slots /\ new = run' /\ rest = queue'
    OBVIOUS
  <1>3. PICK a \in Lanes, b \in Slots : Head(q) = <<a, b>>
    <2>1. Head(q) \in Seats
      BY <1>1, <1>2
    <2> QED BY <2>1 DEF Seats
  <1>4. PICK one : one = [old EXCEPT ![l][s] = r]
    OBVIOUS
  <1>5. new = [one EXCEPT ![a][b] = GivenSlot(one[a][b])]
    <2>1. run' = LET h == Head(queue) IN [one EXCEPT ![h[1]][h[2]] = GivenSlot(@)]
      BY <1>2, <1>4 DEF HandedOn
    <2>2. Head(queue)[1] = a /\ Head(queue)[2] = b
      BY <1>2, <1>3
    <2> QED BY <1>2, <2>1, <2>2
  <1>6. GateState(old, q, n)
    BY <1>1, <1>2 DEF GateInv
  <1>7. GateState(new, rest, n)
    <2>1. /\ q # <<>> /\ Taken(r) + 1 = Taken(old[l][s]) /\ r.waiting = old[l][s].waiting + more /\ rest \in Seq(Seats)
          /\ Relined(q, rest, l, s, more)
      BY <1>2
    <2> QED BY <1>3, <1>4, <1>5, <1>6, <2>1, SlotHandedOn
  <1>8. GateInv'
    BY <1>1, <1>2, <1>7 DEF GateInv
  <1>9. ASSUME "venice" \in Lanes PROVE new["venice"]["now"].phase = old["venice"]["now"].phase /\ new["venice"]["now"].read = old["venice"]["now"].read
    <2>1. PICK m \in Lanes, t \in Slots : m = "venice" /\ t = "now"
      BY <1>9 DEF Slots
    <2>2. OneReplaced(old, one, l, s, r)
      BY <1>1, <1>2, <1>4, OneRunChanges
    <2>3. one[m][t].phase = old[m][t].phase /\ one[m][t].read = old[m][t].read
      <3>1. CASE <<m, t>> = <<l, s>>
        BY <1>2, <2>2, <3>1 DEF OneReplaced
      <3>2. CASE <<m, t>> # <<l, s>>
        BY <2>2, <3>2 DEF OneReplaced
      <3> QED BY <3>1, <3>2
    <2>4. one \in RunTable /\ one[a][b] \in RunRec
      BY <2>2 DEF OneReplaced, RunTable
    <2>5. one[a][b].waiting >= 1
      <3>1. one[a][b].waiting >= old[a][b].waiting
        <4>1. old[a][b] \in RunRec /\ old[l][s] \in RunRec
          BY <1>1, <1>2 DEF RunTable
        <4>2. old[a][b].waiting \in Nat
          BY <4>1 DEF RunRec
        <4>3. CASE <<a, b>> = <<l, s>>
          <5>1. one[a][b].waiting = old[a][b].waiting + more
            BY <1>2, <2>2, <4>3 DEF OneReplaced
          <5> QED BY <4>2, <5>1
        <4>4. CASE <<a, b>> # <<l, s>>
          BY <2>2, <4>2, <4>4 DEF OneReplaced
        <4> QED BY <4>3, <4>4
      <3>2. old[a][b].waiting = Occurrences(q, <<a, b>>)
        BY <1>6 DEF GateState
      <3>3. Occurrences(q, <<a, b>>) = Occurrences(Tail(q), <<a, b>>) + 1 /\ Occurrences(Tail(q), <<a, b>>) \in Nat
        <4>1. q \in Seq(Seats) /\ q # <<>> /\ Tail(q) \in Seq(Seats)
          BY <1>1, <1>2
        <4> QED BY <1>3, <4>1, OccurrencesOfTail, PlacesFinite
      <3>4. one[a][b].waiting \in Nat
        BY <2>4 DEF RunRec
      <3> QED BY <3>1, <3>2, <3>3, <3>4
    <2>6. /\ GivenSlot(one[a][b]) \in RunRec /\ GivenSlot(one[a][b]).phase = one[a][b].phase
          /\ GivenSlot(one[a][b]).read = one[a][b].read
      BY <2>4, <2>5, GivenSlotIsTaken
    <2>7. PICK y \in RunRec : y = GivenSlot(one[a][b])
      BY <2>6
    <2>8. OneReplaced(one, new, a, b, y)
      BY <1>5, <2>4, <2>7, OneRunChanges
    <2>9. new[m][t].phase = one[m][t].phase /\ new[m][t].read = one[m][t].read
      <3>1. CASE <<m, t>> = <<a, b>>
        BY <2>6, <2>7, <2>8, <3>1 DEF OneReplaced
      <3>2. CASE <<m, t>> # <<a, b>>
        BY <2>8, <3>2 DEF OneReplaced
      <3> QED BY <3>1, <3>2
    <2> QED BY <2>1, <2>3, <2>9
  <1>10. ReadInv'
    <2>1. keys' \in Nat /\ keys' >= keys
      BY <1>1
    <2>2. "venice" \in Lanes /\ run'["venice"]["now"].phase \in Late =>
               run["venice"]["now"].phase \in Late /\ run'["venice"]["now"].read = run["venice"]["now"].read
      BY <1>2, <1>9
    <2> QED BY <1>1, <2>1, <2>2, ReadsContinue
  <1> QED BY <1>8, <1>10 DEF SyncInv

\* A run gives its slot back.
LEMMA StepReleases ==
    ASSUME SyncInv, NEW l \in Lanes, NEW s \in Slots, NEW r \in RunRec, Release(l, s, r),
           Taken(r) + 1 = Taken(run[l][s]), r.waiting = run[l][s].waiting,
           r.phase = "probe", run[l][s].phase = "probe", r.read = run[l][s].read, keys' = keys
    PROVE  SyncInv'
  <1>1. GateInv /\ ReadInv /\ keys \in Nat /\ run \in RunTable /\ queue \in Seq(Seats) /\ run[l][s] \in RunRec
    BY DEF SyncInv, GateInv, GateState, RunTable
  <1>2. CASE queue # <<>>
    <2>1. queue' = Tail(queue) /\ run' = HandedOn([run EXCEPT ![l][s] = r]) /\ slots' = slots /\ caller' = caller
      BY <1>2 DEF Release, ActiveAfterRelease
    <2>2. queue' \in Seq(Seats)
      BY <1>1, <1>2, <2>1
    <2>3. PICK more \in Nat : more = 0
      OBVIOUS
    <2>4. Relined(queue, queue', l, s, more)
      <3>1. PICK rest \in Seq(Seats) : rest = Tail(queue)
        BY <2>1, <2>2
      <3>2. \A p \in Seats : Occurrences(rest, p) \in Nat
        BY PlacesFinite
      <3>3. queue' = rest
        BY <2>1, <3>1
      <3>4. \A p \in Seats : Occurrences(rest, p) = Occurrences(rest, p) + (IF p = <<l, s>> THEN more ELSE 0)
        BY <2>3, <3>2
      <3> QED BY <3>1, <3>3, <3>4 DEF Relined
    <2>5. r.waiting = run[l][s].waiting + more
      BY <1>1, <2>3 DEF RunRec
    <2> QED BY <1>2, <2>1, <2>2, <2>4, <2>5, StepHandsOn
  <1>3. CASE queue = <<>>
    <2>1. queue' = <<>> /\ run' = [run EXCEPT ![l][s] = r] /\ slots' = slots - 1 /\ caller' = caller
      BY <1>3 DEF Release, ActiveAfterRelease, HandedOn
    <2>2. PICK old, n, new : old = run /\ n = slots /\ new = run'
      OBVIOUS
    <2>3. GateState(old, <<>>, n) /\ new = [old EXCEPT ![l][s] = r]
      BY <1>1, <1>3, <2>1, <2>2 DEF GateInv
    <2>4. GateState(new, <<>>, n - 1)
      <3>1. Taken(r) + 1 = Taken(old[l][s]) /\ r.waiting = old[l][s].waiting
        BY <2>2
      <3> QED BY <2>3, <3>1, SlotFreed
    <2>5. GateInv'
      BY <1>1, <2>1, <2>2, <2>4 DEF GateInv
    <2>6. "venice" \in Lanes /\ run'["venice"]["now"].phase \in Late =>
               run["venice"]["now"].phase \in Late /\ run'["venice"]["now"].read = run["venice"]["now"].read
      <3>1. Replaces(run, run', l, s, r)
        BY <1>1, <2>1, RunReplaced
      <3> SUFFICES ASSUME "venice" \in Lanes
                   PROVE  run'["venice"]["now"].phase = run["venice"]["now"].phase /\ run'["venice"]["now"].read = run["venice"]["now"].read
        OBVIOUS
      <3>2. CASE l = "venice" /\ s = "now"
        BY <3>1, <3>2 DEF Replaces
      <3>3. CASE ~(l = "venice" /\ s = "now")
        BY <3>1, <3>3 DEF Replaces, Slots
      <3> QED BY <3>2, <3>3
    <2>7. keys' \in Nat /\ keys' >= keys
      BY <1>1
    <2>8. ReadInv'
      BY <1>1, <2>1, <2>6, <2>7, ReadsContinue
    <2> QED BY <2>5, <2>8 DEF SyncInv
  <1> QED BY <1>2, <1>3

LEMMA RunFacts ==
    ASSUME SyncInv, NEW l \in Lanes, NEW s \in Slots
    PROVE  run[l][s] \in RunRec /\ WorkersOnlyProbe(run[l][s]) /\ keys \in Nat
  BY DEF SyncInv, GateInv, GateState, RunTable

\* One lemma for each operation of the worker.
LEMMA PollKeeps ==
    ASSUME SyncInv, NEW l \in Lanes, Poll(l)
    PROVE  SyncInv'
  <1>1. PICK r \in RunRec : r = Starting(l)
    BY StartIsEmpty
  <1>2. NoWorkers(r) /\ r.phase \notin Late /\ WorkersOnlyProbe(r)
    BY <1>1, StartIsEmpty DEF Late, WorkersOnlyProbe
  <1>3. PICK s \in Slots : s = "sched"
    BY DEF Slots
  <1>4. NoWorkers(run[l][s])
    BY <1>3, RunFacts DEF Poll, WorkersOnlyProbe
  <1>5. SameWorkers(run[l][s], r)
    BY <1>2, <1>4 DEF NoWorkers, SameWorkers
  <1>6. /\ run' = [run EXCEPT ![l][s] = r] /\ caller' = caller
        /\ queue' = queue /\ slots' = slots /\ keys' = keys
    BY <1>1, <1>3 DEF Poll
  <1> QED BY <1>2, <1>5, <1>6, StepContinues

LEMMA RetentionKeeps ==
    ASSUME SyncInv, NEW l \in Lanes, NEW s \in Slots, RetentionChecked(l, s)
    PROVE  SyncInv'
  <1>1. /\ run[l][s] \in RunRec /\ NoWorkers(run[l][s])
        /\ queue' = queue /\ slots' = slots /\ keys' = keys
    BY RunFacts DEF RetentionChecked, WorkersOnlyProbe
  <1>2. CASE Settle(l, s, FALSE)
    BY <1>1, <1>2, StepSettles
  <1>3. CASE Continue(l, s, [run[l][s] EXCEPT !.phase = "fetch"])
    <2>1. PICK x \in RunRec : x = run[l][s]
      BY <1>1
    <2>2. PICK r \in RunRec : r = [x EXCEPT !.phase = "fetch"]
      BY PhaseChanges DEF Phases
    <2>3. r.phase = "fetch" /\ SameWorkers(x, r)
      BY <2>2, PhaseChanges DEF Phases
    <2>4. WorkersOnlyProbe(r) /\ r.phase \notin Late
      BY <1>1, <2>1, <2>3 DEF SameWorkers, WorkersOnlyProbe, NoWorkers, Late
    <2>5. run' = [run EXCEPT ![l][s] = r] /\ caller' = caller
      BY <1>3, <2>1, <2>2 DEF Continue
    <2> QED BY <1>1, <2>1, <2>3, <2>4, <2>5, StepContinues
  <1> QED BY <1>2, <1>3 DEF RetentionChecked

LEMMA FetchKeeps ==
    ASSUME SyncInv, NEW l \in Lanes, NEW s \in Slots, NEW answer, FetchEnds(l, s, answer)
    PROVE  SyncInv'
  <1>1. /\ run[l][s] \in RunRec /\ NoWorkers(run[l][s])
        /\ queue' = queue /\ slots' = slots /\ keys' = keys
    BY RunFacts DEF FetchEnds, WorkersOnlyProbe
  <1>2. PICK x \in RunRec : x = run[l][s]
    BY <1>1
  <1>3. CASE Settle(l, s, FALSE)
    BY <1>1, <1>3, StepSettles
  <1>4. CASE Continue(l, s, [x EXCEPT !.attempt = @ + 1])
    <2>1. x.attempt + 1 \in Nat
      BY DEF RunRec
    <2>2. PICK r \in RunRec : r = [x EXCEPT !.attempt = x.attempt + 1]
      BY <2>1, AttemptChanges
    <2>3. r.phase = x.phase /\ SameWorkers(x, r)
      BY <2>1, <2>2, AttemptChanges
    <2>4. WorkersOnlyProbe(r) /\ r.phase \notin Late
      BY <1>1, <1>2, <2>3 DEF SameWorkers, WorkersOnlyProbe, NoWorkers, Late, FetchEnds
    <2>5. run' = [run EXCEPT ![l][s] = r] /\ caller' = caller
      BY <1>4, <2>2 DEF Continue
    <2> QED BY <1>1, <1>2, <2>3, <2>4, <2>5, StepContinues
  <1>5. CASE Continue(l, s, [[x EXCEPT !.attempt = 0, !.payload = Payload(l, answer)] EXCEPT !.phase = IF RatesFirst(l) THEN "rates" ELSE "push"])
    <2>1. PICK v \in {"none", "models", "empty"} : v = Payload(l, answer)
      BY DEF Payload
    <2>2. PICK p \in Phases : p = IF RatesFirst(l) THEN "rates" ELSE "push"
      BY DEF Phases
    <2>3. PICK y \in RunRec : y = [x EXCEPT !.attempt = 0]
      BY AttemptChanges
    <2>4. SameWorkers(x, y)
      BY <2>3, AttemptChanges
    <2>5. PICK z \in RunRec : z = [y EXCEPT !.payload = v]
      BY PayloadChanges
    <2>6. SameWorkers(y, z)
      BY <2>5, PayloadChanges
    <2>7. PICK r \in RunRec : r = [z EXCEPT !.phase = p]
      BY PhaseChanges
    <2>8. SameWorkers(z, r) /\ r.phase = p
      BY <2>7, PhaseChanges
    <2>9. SameWorkers(x, r) /\ WorkersOnlyProbe(r)
      BY <1>1, <1>2, <2>4, <2>6, <2>8 DEF SameWorkers, WorkersOnlyProbe, NoWorkers
    <2>10. l = "venice" => r.phase \notin Late
      BY <2>2, <2>8 DEF RatesFirst, Late
    <2>11. z = [x EXCEPT !.attempt = 0, !.payload = v]
      BY <2>3, <2>5
    <2>12. run' = [run EXCEPT ![l][s] = r] /\ caller' = caller
      BY <1>5, <2>1, <2>2, <2>7, <2>11 DEF Continue
    <2> QED BY <1>1, <1>2, <2>9, <2>10, <2>12, StepContinues
  <1>6. Settle(l, s, FALSE) \/ Continue(l, s, [x EXCEPT !.attempt = @ + 1])
        \/ Continue(l, s, [[x EXCEPT !.attempt = 0, !.payload = Payload(l, answer)] EXCEPT !.phase = IF RatesFirst(l) THEN "rates" ELSE "push"])
    <2> DEFINE final == (answer = "final" \/ (answer = "retryable" /\ x.attempt >= Fetcher(l).retries))
               again == (answer = "retryable" /\ x.attempt < Fetcher(l).retries)
               built == [x EXCEPT !.attempt = 0, !.payload = Payload(l, answer)]
               after == IF RatesFirst(l) THEN [built EXCEPT !.phase = "rates"] ELSE [built EXCEPT !.phase = "push"]
    <2>1. (CASE final -> Settle(l, s, FALSE) [] again -> Continue(l, s, [x EXCEPT !.attempt = @ + 1]) [] OTHER -> Continue(l, s, after))
      BY <1>2 DEF FetchEnds
    <2>2. after = [built EXCEPT !.phase = IF RatesFirst(l) THEN "rates" ELSE "push"]
      OBVIOUS
    <2> HIDE DEF final, again, after
    <2>3. Settle(l, s, FALSE) \/ Continue(l, s, [x EXCEPT !.attempt = @ + 1]) \/ Continue(l, s, after)
      BY <2>1
    <2> QED BY <2>2, <2>3
  <1> QED BY <1>3, <1>4, <1>5, <1>6

LEMMA ManifestKeeps ==
    ASSUME SyncInv, NEW l \in Lanes, NEW s \in Slots, PushManifest(l, s)
    PROVE  SyncInv'
  <1>1. /\ run[l][s] \in RunRec /\ NoWorkers(run[l][s]) /\ keys \in Nat
        /\ queue' = queue /\ slots' = slots /\ keys' = keys
    BY RunFacts DEF PushManifest, WorkersOnlyProbe
  <1>2. PICK x \in RunRec, k \in Nat : x = run[l][s] /\ k = keys
    BY <1>1
  <1>3. PICK y \in RunRec : y = [x EXCEPT !.phase = "push"]
    BY PhaseChanges DEF Phases
  <1>4. SameWorkers(x, y) /\ y.phase = "push"
    BY <1>3, PhaseChanges DEF Phases
  <1>5. PICK r \in RunRec : r = [y EXCEPT !.read = k]
    BY ReadChanges
  <1>6. SameWorkers(y, r) /\ r.read = k /\ r.phase = "push"
    BY <1>4, <1>5, ReadChanges
  <1>7. SameWorkers(x, r) /\ WorkersOnlyProbe(r)
    BY <1>1, <1>2, <1>4, <1>6 DEF SameWorkers, WorkersOnlyProbe, NoWorkers
  <1>8. run' = [run EXCEPT ![l][s] = r] /\ caller' = caller
    <2>1. r = [x EXCEPT !.phase = "push", !.read = k]
      BY <1>3, <1>5
    <2> QED BY <1>2, <2>1 DEF PushManifest, Continue
  <1> QED BY <1>1, <1>2, <1>6, <1>7, <1>8, StepContinues

LEMMA PushFailsKeeps ==
    ASSUME SyncInv, NEW l \in Lanes, NEW s \in Slots, PushFails(l, s)
    PROVE  SyncInv'
  <1>1. NoWorkers(run[l][s])
    BY RunFacts DEF PushFails, WorkersOnlyProbe
  <1> QED BY <1>1, StepSettles DEF PushFails

LEMMA ReportKeeps ==
    ASSUME SyncInv, NEW l \in Lanes, NEW s \in Slots, ReportEnds(l, s)
    PROVE  SyncInv'
  <1>1. NoWorkers(run[l][s]) /\ run[l][s].phase \in Late
    BY RunFacts DEF ReportEnds, WorkersOnlyProbe, Late
  <1> QED BY <1>1, StepSettles DEF ReportEnds

LEMMA LeaseKeeps ==
    ASSUME SyncInv, NEW l \in Lanes, NEW s \in Slots, LeaseRunsOut(l, s)
    PROVE  SyncInv'
  <1>1. /\ run[l][s] \in RunRec /\ run[l][s].phase = "probe"
        /\ queue' = queue /\ slots' = slots /\ keys' = keys
    BY RunFacts DEF LeaseRunsOut
  <1>2. PICK x \in RunRec : x = run[l][s]
    BY <1>1
  <1>3. PICK r \in RunRec : r = [x EXCEPT !.lease = FALSE]
    BY LeaseChanges
  <1>4. SameWorkers(x, r) /\ r.phase = "probe" /\ r.read = x.read
    BY <1>1, <1>2, <1>3, LeaseChanges
  <1>5. WorkersOnlyProbe(r)
    BY <1>4 DEF WorkersOnlyProbe
  <1>6. run' = [run EXCEPT ![l][s] = r] /\ caller' = caller
    BY <1>2, <1>3 DEF LeaseRunsOut, Continue
  <1> QED BY <1>1, <1>2, <1>4, <1>5, <1>6, StepContinues DEF Late

LEMMA GateCounts ==
    ASSUME NEW runs, NEW q, NEW n, GateState(runs, q, n)
    PROVE  n \in Nat
  <1> DEFINE f == TakenBy(runs)
  <1>1. \A p \in Seats : f[p] \in Nat
    <2> SUFFICES ASSUME NEW p \in Seats PROVE f[p] \in Nat
      OBVIOUS
    <2>1. p[1] \in Lanes /\ p[2] \in Slots
      BY DEF Seats
    <2>2. runs[p[1]][p[2]] \in RunRec
      BY <2>1 DEF GateState, RunTable
    <2>3. f[p] = Taken(runs[p[1]][p[2]])
      BY DEF TakenBy
    <2> HIDE DEF f
    <2> QED BY <2>2, <2>3, TakenIsNat
  <1> HIDE DEF f
  <1>2. Cardinality(Points(f, Seats)) \in Nat
    BY <1>1, SeatsFinite, PointsFinite
  <1>3. n = Cardinality(Points(f, Seats))
    BY DEF GateState, f
  <1> QED BY <1>2, <1>3

LEMMA PushKeeps ==
    ASSUME SyncInv, NEW l \in Lanes, NEW s \in Slots, NEW targets \in TargetCounts, PushAccepted(l, s, targets)
    PROVE  SyncInv'
  <1>1. /\ run[l][s] \in RunRec /\ NoWorkers(run[l][s]) /\ run[l][s].phase = "push" /\ keys \in Nat /\ keys' = keys
        /\ GateInv /\ ReadInv
    BY RunFacts DEF PushAccepted, WorkersOnlyProbe, SyncInv
  <1>2. CASE targets = 0
    <2>1. Settle(l, s, TRUE) /\ queue' = queue /\ slots' = slots
      BY <1>2 DEF PushAccepted
    <2> QED BY <1>1, <2>1, StepSettles DEF Late
  <1>3. CASE targets # 0
    <2>1. PICK x, old, q, n, new : x \in RunRec /\ x = run[l][s] /\ old = run /\ q = queue /\ n = slots /\ new = run'
      BY <1>1
    <2>2. GateState(old, q, n)
      BY <1>1, <2>1 DEF GateInv
    <2>3. n \in Nat /\ n <= GateLimit /\ GateLimit \in Nat /\ LaneLimit \in Nat /\ targets \in Nat
      <3>1. MaxTargets \in Nat /\ GateLimit \in Nat /\ LaneLimit \in Nat
        BY SyncAssumption
      <3>2. n \in Nat
        BY <2>2, GateCounts
      <3> QED BY <2>2, <3>1, <3>2 DEF GateState, TargetCounts
    <2>4. PICK workers \in Nat, in \in Nat : /\ workers = LeastOf(LaneLimit, targets) /\ in = Admitted(workers)
                                             /\ in <= workers /\ in + n <= GateLimit /\ (in # workers => in + n = GateLimit)
      <3>1. PICK k \in Nat : k = LeastOf(LaneLimit, targets)
        BY <2>3 DEF LeastOf
      <3>2. PICK free \in Nat : free = GateLimit - n
        BY <2>3
      <3>3. PICK m \in Nat : m = LeastOf(k, free) /\ m <= k /\ m <= free /\ (m # k => m = free)
        BY DEF LeastOf
      <3>4. m = Admitted(k)
        BY <2>1, <3>2, <3>3 DEF Admitted
      <3>5. m + n <= GateLimit /\ (m # k => m + n = GateLimit)
        BY <2>3, <3>2, <3>3
      <3> QED BY <3>1, <3>3, <3>4, <3>5
    <2>5. PICK w \in Nat, left \in Int : w = workers - in /\ left = targets - workers
      BY <2>3, <2>4
    <2>6. PICK xa \in RunRec : xa = [x EXCEPT !.phase = "probe"]
      BY <2>1, PhaseChanges DEF Phases
    <2>7. xa.phase = "probe" /\ xa.read = x.read /\ xa.probing = x.probing
      BY <2>6, PhaseChanges DEF Phases, SameWorkers
    <2>8. PICK xb \in RunRec : xb = [xa EXCEPT !.payload = "none"]
      BY PayloadChanges
    <2>9. xb.phase = "probe" /\ xb.read = x.read /\ xb.probing = x.probing
      BY <2>7, <2>8, PayloadChanges DEF SameWorkers
    <2>10. PICK xc \in RunRec : xc = [xb EXCEPT !.lease = TRUE]
      BY LeaseChanges
    <2>11. xc.phase = "probe" /\ xc.read = x.read /\ xc.probing = x.probing
      BY <2>9, <2>10, LeaseChanges DEF SameWorkers
    <2>12. PICK xd \in RunRec : xd = [xc EXCEPT !.left = left]
      BY LeftChanges
    <2>13. xd.phase = "probe" /\ xd.read = x.read /\ xd.probing = x.probing
      BY <2>11, <2>12, LeftChanges DEF SameWorkers
    <2>14. PICK xe \in RunRec : xe = [xd EXCEPT !.holding = in]
      BY HoldingChanges
    <2>15. xe.phase = "probe" /\ xe.read = x.read /\ xe.probing = x.probing /\ xe.holding = in
      BY <2>13, <2>14, HoldingChanges
    <2>16. PICK r \in RunRec : r = [xe EXCEPT !.waiting = w]
      BY WaitingChanges
    <2>17. r.phase = "probe" /\ r.read = x.read /\ r.probing = x.probing /\ r.holding = in /\ r.waiting = w
      BY <2>15, <2>16, WaitingChanges
    <2>18. r = [x EXCEPT !.phase = "probe", !.payload = "none", !.lease = TRUE, !.left = left, !.holding = in, !.waiting = w]
      BY <2>6, <2>8, <2>10, <2>12, <2>14, <2>16
    <2>19. /\ Continue(l, s, r) /\ slots' = slots + in /\ queue' = WithCopies(queue, <<l, s>>, w)
      BY <1>3, <2>1, <2>4, <2>5, <2>18 DEF PushAccepted, Repeat, WithCopies
    <2>20. new = [old EXCEPT ![l][s] = r] /\ run' = [run EXCEPT ![l][s] = r] /\ caller' = caller
      BY <2>1, <2>19 DEF Continue
    <2>21. x.probing = 0
      BY <1>1, <2>1 DEF NoWorkers
    <2>22. Taken(r) = in
      BY <2>17, <2>21 DEF Taken
    <2>23. GateState(new, WithCopies(q, <<l, s>>, r.waiting), Taken(r) + n)
      <3>1. Taken(r) + n <= GateLimit /\ (r.waiting # 0 => Taken(r) + n = GateLimit)
        BY <2>4, <2>5, <2>17, <2>22
      <3>2. NoWorkers(old[l][s]) /\ r.phase = "probe"
        BY <1>1, <2>1, <2>17
      <3> QED BY <2>2, <2>20, <3>1, <3>2, WorkersEnter
    <2>24. GateInv'
      <3>1. run' = new /\ queue' = WithCopies(q, <<l, s>>, r.waiting) /\ slots' = Taken(r) + n
        BY <2>1, <2>3, <2>17, <2>19, <2>22
      <3> QED BY <1>1, <2>23, <3>1 DEF GateInv
    <2>25. "venice" \in Lanes /\ run'["venice"]["now"].phase \in Late =>
               run["venice"]["now"].phase \in Late /\ run'["venice"]["now"].read = run["venice"]["now"].read
      <3>1. Replaces(run, run', l, s, r)
        BY <1>1, <2>20, RunReplaced
      <3>2. CASE l = "venice" /\ s = "now"
        BY <1>1, <2>1, <2>17, <3>1, <3>2 DEF Replaces, Late
      <3>3. CASE ~(l = "venice" /\ s = "now")
        BY <3>1, <3>3 DEF Replaces, Slots
      <3> QED BY <3>2, <3>3
    <2>26. keys' \in Nat /\ keys' >= keys
      BY <1>1
    <2>27. ReadInv'
      BY <1>1, <2>20, <2>25, <2>26, ReadsContinue
    <2> QED BY <2>24, <2>27 DEF SyncInv
  <1> QED BY <1>2, <1>3

LEMMA ProbeOneKeeps ==
    ASSUME SyncInv, NEW l \in Lanes, NEW s \in Slots, ProbeOne(l, s)
    PROVE  SyncInv'
  <1>1. run[l][s] \in RunRec /\ run[l][s].phase = "probe" /\ keys' = keys
    BY RunFacts DEF ProbeOne, WorkersOnlyProbe, NoWorkers
  <1>2. PICK x \in RunRec : x = run[l][s]
    BY <1>1
  <1>3. x.holding - 1 \in Nat /\ x.probing + 1 \in Nat /\ x.holding \in Nat /\ x.probing \in Nat
    BY <1>2 DEF ProbeOne, RunRec
  <1>4. PICK y \in RunRec : y = [x EXCEPT !.holding = x.holding - 1]
    BY <1>3, HoldingChanges
  <1>5. y.phase = x.phase /\ y.read = x.read /\ y.holding = x.holding - 1 /\ y.waiting = x.waiting /\ y.probing = x.probing
    BY <1>3, <1>4, HoldingChanges
  <1>6. CASE Release(l, s, y)
    <2>1. Taken(y) + 1 = Taken(run[l][s])
      BY <1>2, <1>3, <1>5 DEF Taken
    <2>2. y.phase = "probe" /\ y.waiting = run[l][s].waiting /\ y.read = run[l][s].read
      BY <1>1, <1>2, <1>5
    <2> QED BY <1>1, <1>6, <2>1, <2>2, StepReleases
  <1>7. PICK r \in RunRec : r = [y EXCEPT !.probing = x.probing + 1]
    BY <1>3, ProbingChanges
  <1>8. r.phase = x.phase /\ r.read = x.read /\ r.holding = x.holding - 1 /\ r.waiting = x.waiting /\ r.probing = x.probing + 1
    BY <1>3, <1>5, <1>7, ProbingChanges
  <1>9. CASE Continue(l, s, r) /\ queue' = queue /\ slots' = slots
    <2>1. SameSlots(run[l][s], r)
      BY <1>2, <1>3, <1>8 DEF SameSlots, Taken
    <2>2. WorkersOnlyProbe(r) /\ run[l][s].phase \in Late /\ r.read = run[l][s].read
      BY <1>1, <1>2, <1>8 DEF WorkersOnlyProbe, Late
    <2>3. run' = [run EXCEPT ![l][s] = r] /\ caller' = caller
      BY <1>9 DEF Continue
    <2> QED BY <1>1, <1>9, <2>1, <2>2, <2>3, StepMoves
  <1>10. Release(l, s, y) \/ (Continue(l, s, r) /\ queue' = queue /\ slots' = slots)
    <2>1. r = [x EXCEPT !.holding = @ - 1, !.probing = @ + 1]
      BY <1>4, <1>5, <1>7
    <2>2. y = [x EXCEPT !.holding = @ - 1]
      BY <1>4
    <2> QED BY <1>2, <2>1, <2>2 DEF ProbeOne
  <1> QED BY <1>6, <1>9, <1>10

LEMMA ProbeEndsKeeps ==
    ASSUME SyncInv, NEW l \in Lanes, NEW s \in Slots, ProbeEnds(l, s)
    PROVE  SyncInv'
  <1>1. /\ run[l][s] \in RunRec /\ run[l][s].phase = "probe" /\ keys' = keys /\ queue \in Seq(Seats)
    BY RunFacts DEF ProbeEnds, WorkersOnlyProbe, NoWorkers, SyncInv, GateInv, GateState
  <1>2. PICK x \in RunRec : x = run[l][s]
    BY <1>1
  <1>3. x.probing \in Nat /\ x.probing - 1 \in Nat /\ x.holding \in Nat /\ x.waiting \in Nat
    BY <1>2 DEF ProbeEnds, RunRec
  <1>4. PICK xa \in RunRec : xa = [x EXCEPT !.probing = x.probing - 1]
    BY <1>3, ProbingChanges
  <1>5. xa.phase = x.phase /\ xa.read = x.read /\ xa.holding = x.holding /\ xa.waiting = x.waiting /\ xa.probing = x.probing - 1
    BY <1>3, <1>4, ProbingChanges
  <1>6. PICK y \in RunRec : y = [xa EXCEPT !.checks = 1]
    BY ChecksChange
  <1>7. y.phase = "probe" /\ y.read = x.read /\ y.holding = x.holding /\ y.waiting = x.waiting /\ y.probing = x.probing - 1
    BY <1>1, <1>2, <1>5, <1>6, ChecksChange DEF SameWorkers
  <1>8. y = [x EXCEPT !.probing = @ - 1, !.checks = 1]
    BY <1>4, <1>6
  <1>9. CASE Release(l, s, y)
    <2>1. Taken(y) + 1 = Taken(run[l][s])
      BY <1>2, <1>3, <1>7 DEF Taken
    <2>2. y.waiting = run[l][s].waiting /\ y.read = run[l][s].read
      BY <1>2, <1>7
    <2> QED BY <1>1, <1>7, <1>9, <2>1, <2>2, StepReleases
  <1>10. PICK z \in RunRec : z = [y EXCEPT !.left = y.left - 1]
    <2>1. y.left - 1 \in Int
      BY DEF RunRec
    <2> QED BY <2>1, LeftChanges
  <1>11. z.phase = "probe" /\ z.read = x.read /\ z.holding = x.holding /\ z.waiting = x.waiting /\ z.probing = x.probing - 1
    <2>1. y.left - 1 \in Int
      BY DEF RunRec
    <2>2. z.phase = y.phase /\ z.read = y.read /\ SameWorkers(y, z)
      BY <1>10, <2>1, LeftChanges
    <2> QED BY <1>7, <2>2 DEF SameWorkers
  <1>12. CASE queue = <<>> /\ y.left # 0
    <2>1. x.holding + 1 \in Nat
      BY <1>3
    <2>2. PICK r \in RunRec : r = [z EXCEPT !.holding = x.holding + 1]
      BY <2>1, HoldingChanges
    <2>3. r.phase = "probe" /\ r.read = x.read /\ r.holding = x.holding + 1 /\ r.waiting = x.waiting /\ r.probing = x.probing - 1
      BY <1>11, <2>1, <2>2, HoldingChanges
    <2>4. r = [y EXCEPT !.left = @ - 1, !.holding = @ + 1]
      BY <1>7, <1>10, <2>2
    <2>5. Continue(l, s, r) /\ queue' = queue /\ slots' = slots
      BY <1>2, <1>8, <1>12, <2>4 DEF ProbeEnds
    <2>6. SameSlots(run[l][s], r)
      BY <1>2, <1>3, <2>3 DEF SameSlots, Taken
    <2>7. WorkersOnlyProbe(r) /\ run[l][s].phase \in Late /\ r.read = run[l][s].read
      BY <1>1, <1>2, <2>3 DEF WorkersOnlyProbe, Late
    <2>8. run' = [run EXCEPT ![l][s] = r] /\ caller' = caller
      BY <2>5 DEF Continue
    <2> QED BY <1>1, <2>5, <2>6, <2>7, <2>8, StepMoves
  <1>13. CASE queue # <<>> /\ y.left # 0
    <2>1. x.waiting + 1 \in Nat
      BY <1>3
    <2>2. PICK r \in RunRec : r = [z EXCEPT !.waiting = x.waiting + 1]
      BY <2>1, WaitingChanges
    <2>3. r.phase = "probe" /\ r.read = x.read /\ r.holding = x.holding /\ r.waiting = x.waiting + 1 /\ r.probing = x.probing - 1
      BY <1>11, <2>1, <2>2, WaitingChanges
    <2>4. r = [y EXCEPT !.left = @ - 1, !.waiting = @ + 1]
      BY <1>7, <1>10, <2>2
    <2>5. /\ run' = HandedOn([run EXCEPT ![l][s] = r]) /\ queue' = Append(Tail(queue), <<l, s>>)
          /\ caller' = caller /\ slots' = slots
      BY <1>2, <1>8, <1>13, <2>4 DEF ProbeEnds
    <2>6. Taken(r) + 1 = Taken(run[l][s]) /\ r.read = run[l][s].read
      BY <1>2, <1>3, <2>3 DEF Taken
    <2>7. PICK more \in Nat : more = 1
      OBVIOUS
    <2>8. r.waiting = run[l][s].waiting + more
      BY <1>2, <2>3, <2>7
    <2>9. PICK rest \in Seq(Seats), at \in Seats : rest = Tail(queue) /\ at = <<l, s>>
      <3>1. <<l, s>> \in Seats
        BY DEF Seats
      <3>2. Tail(queue) \in Seq(Seats)
        BY <1>1, <1>13
      <3> QED BY <3>1, <3>2
    <2>10. Append(rest, at) \in Seq(Seats) /\ queue' = Append(rest, at)
      BY <2>5, <2>9
    <2>11. Relined(queue, queue', l, s, more)
      <3>1. \A p \in Seats : Occurrences(Append(rest, at), p) = Occurrences(rest, p) + (IF p = at THEN 1 ELSE 0)
        BY OccurrencesOfAppend
      <3> QED BY <2>7, <2>9, <2>10, <3>1 DEF Relined
    <2>12. queue # <<>> /\ queue' \in Seq(Seats)
      BY <1>13, <2>10
    <2> QED BY <1>1, <2>3, <2>5, <2>6, <2>8, <2>11, <2>12, StepHandsOn
  <1>14. y.left # 0 \/ Release(l, s, y)
    BY <1>2, <1>8 DEF ProbeEnds
  <1> QED BY <1>9, <1>12, <1>13, <1>14

LEMMA ProbesDoneKeeps ==
    ASSUME SyncInv, NEW l \in Lanes, NEW s \in Slots, ProbesDone(l, s)
    PROVE  SyncInv'
  <1>1. /\ run[l][s] \in RunRec /\ run[l][s].phase = "probe" /\ queue' = queue /\ slots' = slots /\ keys' = keys
    BY RunFacts DEF ProbesDone
  <1>2. PICK x \in RunRec : x = run[l][s]
    BY <1>1
  <1>3. NoWorkers(x)
    <2>1. x.waiting \in Nat /\ x.holding \in Nat /\ x.probing \in Nat /\ x.waiting + x.holding + x.probing = 0
      BY <1>2 DEF ProbesDone, Workers, RunRec
    <2> QED BY <2>1 DEF NoWorkers
  <1>4. CASE Settle(l, s, TRUE)
    BY <1>1, <1>2, <1>3, <1>4, StepSettles DEF Late
  <1>5. PICK xa \in RunRec : xa = [x EXCEPT !.phase = "report"]
    BY PhaseChanges DEF Phases
  <1>6. xa.phase = "report" /\ xa.read = x.read /\ SameWorkers(x, xa)
    BY <1>5, PhaseChanges DEF Phases
  <1>7. PICK xb \in RunRec : xb = [xa EXCEPT !.left = 0]
    <2>1. PICK none \in Int : none = 0
      OBVIOUS
    <2> QED BY <2>1, LeftChanges
  <1>8. xb.phase = "report" /\ xb.read = x.read /\ SameWorkers(x, xb)
    BY <1>6, <1>7, LeftChanges DEF SameWorkers
  <1>9. PICK xc \in RunRec : xc = [xb EXCEPT !.lease = FALSE]
    BY LeaseChanges
  <1>10. xc.phase = "report" /\ xc.read = x.read /\ SameWorkers(x, xc)
    BY <1>8, <1>9, LeaseChanges DEF SameWorkers
  <1>11. PICK r \in RunRec : r = [xc EXCEPT !.checks = 0]
    BY ChecksChange
  <1>12. r.phase = "report" /\ r.read = x.read /\ SameWorkers(x, r)
    BY <1>10, <1>11, ChecksChange DEF SameWorkers
  <1>13. r = [x EXCEPT !.phase = "report", !.left = 0, !.lease = FALSE, !.checks = 0]
    BY <1>5, <1>7, <1>9, <1>11
  <1>14. CASE Continue(l, s, r)
    <2>1. WorkersOnlyProbe(r)
      BY <1>3, <1>12 DEF WorkersOnlyProbe, NoWorkers, SameWorkers
    <2>2. run' = [run EXCEPT ![l][s] = r] /\ caller' = caller
      BY <1>14 DEF Continue
    <2> QED BY <1>1, <1>2, <1>12, <2>1, <2>2, StepContinues DEF Late
  <1>15. Settle(l, s, TRUE) \/ Continue(l, s, r)
    BY <1>2, <1>13 DEF ProbesDone
  <1> QED BY <1>4, <1>14, <1>15

\* A step that touches neither the runs nor the gate.
LEMMA GateStands ==
    ASSUME GateInv, run' = run, queue' = queue, slots' = slots, keys' \in Nat
    PROVE  GateInv'
  <1>1. PICK old, q, n, new, rest, m : old = run /\ q = queue /\ n = slots /\ new = run' /\ rest = queue' /\ m = slots'
    OBVIOUS
  <1>2. GateState(old, q, n) /\ new = old /\ rest = q /\ m = n
    BY <1>1 DEF GateInv
  <1>3. GateState(new, rest, m)
    BY <1>2
  <1> QED BY <1>1, <1>3 DEF GateInv

LEMMA SyncNowKeeps ==
    ASSUME SyncInv, NEW l \in Lanes, NEW c \in Callers, SyncNow(c, l)
    PROVE  SyncInv'
  <1>1. GateInv /\ ReadInv /\ queue' = queue /\ slots' = slots /\ keys' = keys /\ keys \in Nat
    BY DEF SyncInv, GateInv, SyncNow
  <1> DEFINE r == run[l]["now"]
             follows == r.phase # "idle" /\ ~Joinable(r)
             request == [state |-> IF follows THEN "follow" ELSE "now", lane |-> l, at |-> keys, saw |-> 0]
  <1>2. caller' = [caller EXCEPT ![c] = request]
    BY DEF SyncNow
  <1>3. GateInv' /\ ("venice" \in Lanes => \/ run'["venice"]["now"] = run["venice"]["now"]
                                           \/ run'["venice"]["now"].phase \notin Late)
        /\ (l = "venice" /\ ~follows => run'["venice"]["now"].phase \notin Late)
    <2>1. PICK s \in Slots : s = "now"
      BY DEF Slots
    <2>2. CASE r.phase = "idle"
      <3>1. PICK new \in RunRec : new = Starting(l)
        BY StartIsEmpty
      <3>2. NoWorkers(new) /\ WorkersOnlyProbe(new) /\ new.phase \notin Late
        BY <3>1, StartIsEmpty DEF Late, WorkersOnlyProbe
      <3>3. NoWorkers(run[l][s])
        BY <2>1, <2>2, RunFacts DEF WorkersOnlyProbe
      <3>4. run' = [run EXCEPT ![l][s] = new]
        BY <2>1, <2>2, <3>1 DEF SyncNow
      <3>5. SameSlots(run[l][s], new)
        BY <3>2, <3>3 DEF NoWorkers, SameSlots, Taken
      <3>6. GateInv'
        BY <1>1, <3>2, <3>4, <3>5, GateContinues
      <3>7. Replaces(run, run', l, s, new)
        BY <1>1, <3>4, RunReplaced
      <3> QED BY <2>1, <3>2, <3>6, <3>7 DEF Replaces, Slots
    <2>3. CASE r.phase # "idle"
      <3>1. run' = run
        BY <2>3 DEF SyncNow
      <3>2. GateInv'
        BY <1>1, <3>1, GateStands
      <3>3. l = "venice" /\ ~follows => run'["venice"]["now"].phase \notin Late
        BY <2>3, <3>1 DEF Joinable, Building, Late
      <3> QED BY <3>1, <3>2, <3>3
    <2> QED BY <2>2, <2>3
  <1>4. request \in CallerRec /\ request.at = keys /\ request.lane = l /\ request.state \in {"follow", "now"}
        /\ (request.state = "now" => ~follows)
    BY <1>1 DEF CallerRec
  <1> HIDE DEF request, follows
  <1>5. ASSUME NEW d \in Callers
        PROVE  /\ caller'[d] \in CallerRec /\ caller'[d].at <= keys
               /\ caller'[d].lane = "venice" /\ caller'[d].state = "ok" => caller'[d].saw >= caller'[d].at
               /\ caller'[d].lane = "venice" /\ caller'[d].state = "now" /\ run'["venice"]["now"].phase \in Late
                     => run'["venice"]["now"].read >= caller'[d].at
    <2>1. CASE d = c
      <3>1. caller'[d] = request
        BY <1>1, <1>2, <2>1 DEF ReadInv
      <3> QED BY <1>1, <1>3, <1>4, <3>1
    <2>2. CASE d # c
      <3>1. caller'[d] = caller[d]
        BY <1>1, <1>2, <2>2 DEF ReadInv
      <3>2. /\ caller[d] \in CallerRec /\ caller[d].at <= keys
            /\ caller[d].lane = "venice" /\ caller[d].state = "ok" => caller[d].saw >= caller[d].at
            /\ caller[d].lane = "venice" /\ caller[d].state = "now" /\ run["venice"]["now"].phase \in Late
                  => run["venice"]["now"].read >= caller[d].at
        BY <1>1 DEF ReadInv
      <3>3. caller[d].lane \in Lanes \cup {"none"}
        BY <3>2 DEF CallerRec
      <3> QED BY <1>3, <3>1, <3>2, <3>3
    <2> QED BY <2>1, <2>2
  <1>6. caller' \in [Callers -> CallerRec]
    BY <1>1, <1>2, <1>4 DEF ReadInv
  <1>7. ReadInv'
    BY <1>1, <1>5, <1>6 DEF ReadInv
  <1> QED BY <1>3, <1>7 DEF SyncInv

LEMMA SyncUnavailableKeeps ==
    ASSUME SyncInv, NEW l \in Lanes, NEW c \in Callers, SyncUnavailable(c, l)
    PROVE  SyncInv'
  <1>1. GateInv /\ ReadInv /\ run' = run /\ queue' = queue /\ slots' = slots /\ keys' = keys /\ keys \in Nat
    BY DEF SyncInv, GateInv, SyncUnavailable
  <1>2. caller' = [caller EXCEPT ![c] = [state |-> "failed", lane |-> l, at |-> keys, saw |-> 0]]
    BY DEF SyncUnavailable
  <1>3. GateInv'
    BY <1>1, GateStands
  <1>4. [state |-> "failed", lane |-> l, at |-> keys, saw |-> 0] \in CallerRec
    BY <1>1 DEF CallerRec
  <1>5. caller' \in [Callers -> CallerRec]
    BY <1>1, <1>2, <1>4 DEF ReadInv
  <1>6. ReadInv'
    BY <1>1, <1>2, <1>5 DEF ReadInv
  <1> QED BY <1>3, <1>6 DEF SyncInv

\* The rest of the process: it leaves the runs and their callers alone.
LEMMA ProcessKeeps ==
    ASSUME SyncInv, EditKeys \/ Drain \/ Close
    PROVE  SyncInv'
  <1>1. GateInv /\ ReadInv /\ keys \in Nat
    BY DEF SyncInv, GateInv
  <1>2. run' = run /\ queue' = queue /\ slots' = slots /\ caller' = caller /\ keys' \in {keys, keys + 1}
    BY DEF EditKeys, Drain, Close
  <1>3. keys' \in Nat /\ keys' >= keys
    BY <1>1, <1>2
  <1>4. GateInv'
    BY <1>1, <1>2, <1>3, GateStands
  <1>5. ReadInv'
    BY <1>1, <1>2, <1>3, ReadsContinue
  <1> QED BY <1>4, <1>5 DEF SyncInv

SyncIInv == served \in SyncPools /\ SyncInv

LEMMA SyncStarts == SyncInit => SyncIInv
  <1> SUFFICES ASSUME SyncInit PROVE SyncIInv
    OBVIOUS
  <1>1. run \in RunTable /\ \A l \in Lanes, s \in Slots : NoWorkers(run[l][s]) /\ run[l][s].phase = "idle"
    BY IdleIsEmpty DEF SyncInit, RunTable
  <1>2. Points(TakenBy(run), Seats) = {}
    <2>1. \A p \in Seats : TakenBy(run)[p] = 0
      <3> SUFFICES ASSUME NEW p \in Seats PROVE TakenBy(run)[p] = 0
        OBVIOUS
      <3>1. p[1] \in Lanes /\ p[2] \in Slots
        BY DEF Seats
      <3> QED BY <1>1, <3>1 DEF TakenBy, Taken, NoWorkers
    <2>2. 1 .. 0 = {}
      OBVIOUS
    <2> QED BY <2>1, <2>2 DEF Points
  <1>3. PICK old : old = run
    OBVIOUS
  <1>4. GateState(old, <<>>, 0)
    <2>1. 0 = Cardinality(Points(TakenBy(old), Seats)) /\ 0 <= GateLimit
      <3>1. GateLimit \in Nat
        BY SyncAssumption
      <3>2. Points(TakenBy(old), Seats) = {}
        BY <1>2, <1>3
      <3> QED BY <3>1, <3>2, FS_EmptySet
    <2>2. \A l \in Lanes, s \in Slots : old[l][s].waiting = Occurrences(<<>>, <<l, s>>) /\ WorkersOnlyProbe(old[l][s])
      BY <1>1, <1>3, NoPlaces DEF NoWorkers, WorkersOnlyProbe
    <2>3. <<>> \in Seq(Seats)
      OBVIOUS
    <2> QED BY <1>1, <1>3, <2>1, <2>2, <2>3 DEF GateState
  <1>5. GateInv
    BY <1>3, <1>4 DEF GateInv, SyncInit
  <1>6. ReadInv
    BY DEF SyncInit, ReadInv, CallerRec
  <1> QED BY <1>5, <1>6 DEF SyncIInv, SyncInv, SyncInit

LEMMA SyncSteps == SyncIInv /\ [SyncNext]_syncVars => SyncIInv'
  <1> SUFFICES ASSUME SyncIInv, [SyncNext]_syncVars PROVE SyncIInv'
    OBVIOUS
  <1>1. SyncInv /\ served \in SyncPools /\ \A l \in served : l \in Lanes
    BY DEF SyncIInv, Lanes
  <1>2. CASE UNCHANGED syncVars
    <2>1. /\ run' = run /\ queue' = queue /\ slots' = slots /\ caller' = caller /\ keys' = keys /\ served' = served
      BY <1>2 DEF syncVars
    <2>2. GateInv /\ ReadInv /\ keys \in Nat
      BY <1>1 DEF SyncInv, GateInv
    <2>3. keys' \in Nat /\ keys' >= keys
      BY <2>1, <2>2
    <2>4. GateInv'
      BY <2>1, <2>2, <2>3, GateStands
    <2>5. ReadInv'
      BY <2>1, <2>2, <2>3, ReadsContinue
    <2> QED BY <1>1, <2>1, <2>4, <2>5 DEF SyncIInv, SyncInv
  <1>3. CASE SyncNext
    <2>1. served' = served
      BY <1>3 DEF SyncNext
    <2>2. ASSUME NEW l \in served, Poll(l) PROVE SyncInv'
      BY <1>1, <2>2, PollKeeps
    <2>3. ASSUME NEW c \in Callers, NEW l \in Lanes, SyncNow(c, l) PROVE SyncInv'
      BY <1>1, <2>3, SyncNowKeeps
    <2>4. ASSUME NEW c \in Callers, NEW l \in Lanes, SyncUnavailable(c, l) PROVE SyncInv'
      BY <1>1, <2>4, SyncUnavailableKeeps
    <2>5. ASSUME NEW l \in served, NEW s \in Slots, RetentionChecked(l, s) PROVE SyncInv'
      BY <1>1, <2>5, RetentionKeeps
    <2>6. ASSUME NEW l \in served, NEW s \in Slots, NEW a, FetchEnds(l, s, a) PROVE SyncInv'
      BY <1>1, <2>6, FetchKeeps
    <2>7. ASSUME NEW l \in served, NEW s \in Slots, PushManifest(l, s) PROVE SyncInv'
      BY <1>1, <2>7, ManifestKeeps
    <2>8. ASSUME NEW l \in served, NEW s \in Slots, PushFails(l, s) PROVE SyncInv'
      BY <1>1, <2>8, PushFailsKeeps
    <2>9. ASSUME NEW l \in served, NEW s \in Slots, NEW n \in TargetCounts, PushAccepted(l, s, n) PROVE SyncInv'
      BY <1>1, <2>9, PushKeeps
    <2>10. ASSUME NEW l \in served, NEW s \in Slots, LeaseRunsOut(l, s) PROVE SyncInv'
      BY <1>1, <2>10, LeaseKeeps
    <2>11. ASSUME NEW l \in served, NEW s \in Slots, ProbeOne(l, s) PROVE SyncInv'
      BY <1>1, <2>11, ProbeOneKeeps
    <2>12. ASSUME NEW l \in served, NEW s \in Slots, ProbeEnds(l, s) PROVE SyncInv'
      BY <1>1, <2>12, ProbeEndsKeeps
    <2>13. ASSUME NEW l \in served, NEW s \in Slots, ProbesDone(l, s) PROVE SyncInv'
      BY <1>1, <2>13, ProbesDoneKeeps
    <2>14. ASSUME NEW l \in served, NEW s \in Slots, ReportEnds(l, s) PROVE SyncInv'
      BY <1>1, <2>14, ReportKeeps
    <2>15. ASSUME EditKeys \/ Drain \/ Close PROVE SyncInv'
      BY <1>1, <2>15, ProcessKeeps
    <2>16. SyncInv'
      BY <1>3, <2>2, <2>3, <2>4, <2>5, <2>6, <2>7, <2>8, <2>9, <2>10, <2>11, <2>12, <2>13, <2>14, <2>15 DEF SyncNext
    <2> QED BY <1>1, <2>1, <2>16 DEF SyncIInv
  <1> QED BY <1>2, <1>3

\* The property counts the slots held as triples: lane, run and which of its slots.
LEMMA SlotsAreCounted ==
    ASSUME GateInv
    PROVE  ProbeSlotsAreCounted
  <1>1. PICK runs, q, n : runs = run /\ q = queue /\ n = slots
    OBVIOUS
  <1>2. GateState(runs, q, n)
    BY <1>1 DEF GateInv
  <1> DEFINE f == TakenBy(runs)
             held == {h \in Lanes \X Slots \X (1 .. (GateLimit + MaxTargets)) : h[3] <= runs[h[1]][h[2]].holding + runs[h[1]][h[2]].probing}
             triple == [y \in Points(f, Seats) |-> <<y[1][1], y[1][2], y[2]>>]
  <1>3. \A p \in Seats : f[p] \in Nat /\ f[p] = runs[p[1]][p[2]].holding + runs[p[1]][p[2]].probing
    <2> SUFFICES ASSUME NEW p \in Seats PROVE f[p] \in Nat /\ f[p] = Taken(runs[p[1]][p[2]])
      BY DEF Taken
    <2>1. p[1] \in Lanes /\ p[2] \in Slots
      BY DEF Seats
    <2>2. runs[p[1]][p[2]] \in RunRec
      BY <1>2, <2>1 DEF GateState, RunTable
    <2>3. f[p] = Taken(runs[p[1]][p[2]])
      BY DEF TakenBy
    <2> HIDE DEF f
    <2> QED BY <2>2, <2>3, TakenIsNat
  <1>4. n = Cardinality(Points(f, Seats)) /\ n <= GateLimit /\ (q # <<>> => n = GateLimit)
    BY <1>2 DEF GateState
  <1> HIDE DEF f
  <1>5. IsFiniteSet(Points(f, Seats)) /\ Cardinality(Points(f, Seats)) \in Nat
    BY <1>3, SeatsFinite, PointsFinite
  <1>6. \A p \in Seats : f[p] <= n
    <2> SUFFICES ASSUME NEW p \in Seats PROVE f[p] <= Cardinality(Points(f, Seats))
      BY <1>4
    <2>1. \A x \in Seats : f[x] \in Nat /\ f[x] \in Nat
      BY <1>3
    <2>2. \A x \in Seats \ {p} : f[x] = f[x]
      OBVIOUS
    <2> QED BY <2>1, <2>2, SeatsFinite, PointsChange
  <1>7. GateLimit \in Nat /\ MaxTargets \in Nat
    BY SyncAssumption
  <1>8. triple \in Bijection(Points(f, Seats), held)
    <2>1. ASSUME NEW y \in Points(f, Seats)
          PROVE  triple[y] \in held /\ y = <<<<triple[y][1], triple[y][2]>>, triple[y][3]>>
      <3>1. PICK p \in Seats : \E j \in 1 .. f[p] : y = <<p, j>>
        BY DEF Points
      <3>2. PICK i \in 1 .. f[p] : y = <<p, i>>
        BY <3>1
      <3>3. PICK l \in Lanes, s \in Slots : p = <<l, s>>
        BY DEF Seats
      <3>4. f[p] \in Nat /\ f[p] <= n /\ f[p] = runs[l][s].holding + runs[l][s].probing
        <4>1. p[1] = l /\ p[2] = s
          BY <3>3
        <4> QED BY <1>3, <1>6, <4>1
      <3>5. n \in Nat
        BY <1>4, <1>5
      <3>6. i \in 1 .. (GateLimit + MaxTargets) /\ i <= runs[l][s].holding + runs[l][s].probing
        BY <1>4, <1>7, <3>4, <3>5
      <3>7. <<l, s, i>> \in held
        BY <3>6
      <3>8. triple[y] = <<l, s, i>>
        BY <3>2, <3>3
      <3> QED BY <3>2, <3>3, <3>7, <3>8
    <2>2. ASSUME NEW h \in held
          PROVE  \E y \in Points(f, Seats) : triple[y] = h
      <3>1. PICK l \in Lanes, s \in Slots, i \in 1 .. (GateLimit + MaxTargets) : h = <<l, s, i>>
        OBVIOUS
      <3>2. i <= runs[l][s].holding + runs[l][s].probing
        BY <3>1
      <3>3. <<l, s>> \in Seats
        BY DEF Seats
      <3>4. f[<<l, s>>] \in Nat /\ i <= f[<<l, s>>]
        BY <1>3, <3>2, <3>3
      <3>5. i \in 1 .. f[<<l, s>>]
        BY <1>7, <3>4
      <3>6. <<<<l, s>>, i>> \in Points(f, Seats)
        BY <3>3, <3>5 DEF Points
      <3>7. triple[<<<<l, s>>, i>>] = h
        BY <3>1, <3>6
      <3> QED BY <3>6, <3>7
    <2>3. triple \in [Points(f, Seats) -> held]
      BY <2>1
    <2>4. \A g, h \in Points(f, Seats) : triple[g] = triple[h] => g = h
      BY <2>1
    <2> HIDE DEF triple, held
    <2> QED BY <2>2, <2>3, <2>4 DEF Bijection, Injection, Surjection, IsInjective
  <1> HIDE DEF triple, held
  <1>9. Cardinality(held) = n
    BY <1>4, <1>5, <1>8, FS_Bijection DEF ExistsBijection
  <1> QED BY <1>1, <1>4, <1>9 DEF ProbeSlotsAreCounted, held

\* An operator who revoked a key and synced is told so only after control was
\* sent a manifest read since (syncNow, sync.ts:238-273), and the probe gate's
\* count is the number of slots held over all lanes and runs, never above the
\* limit, with nobody waiting while a slot is free (createGate, roles.ts:306-333).
THEOREM SyncsAreSound == SyncSpec => []SyncIsSound
  <1>1. SyncIInv => SyncIsSound
    <2> SUFFICES ASSUME SyncIInv PROVE SyncIsSound
      OBVIOUS
    <2>1. GateInv /\ ReadInv
      BY DEF SyncIInv, SyncInv
    <2>2. ProbeSlotsAreCounted
      BY <2>1, SlotsAreCounted
    <2>3. SyncReadsAfterCall
      BY <2>1 DEF ReadInv, SyncReadsAfterCall
    <2> QED BY <2>2, <2>3 DEF SyncIsSound
  <1> QED BY <1>1, SyncStarts, SyncSteps, PTL DEF SyncSpec

-----------------------------------------------------------------------------
\* The catalog: what a query answers, and which rows Auto is offered.

CatalogSpec == CatalogInit /\ [][CatalogNext]_catalogVars

\* The columns a row may have.
Availabilities == {"online", "offline", "deprecated", "missing"}
Statuses == {"available", "quarantined", "retired", "frozen", "offline", "unsupported"}
Reviews == {"approved", "pending", "rejected"}
Quarantines == {"none", "pending_operator_review", "tampered", "price_change_threshold"}

Classes == {"anonymous", "private", "tee", "e2ee", "unknown"}

RowColumns ==
    [privacy : Classes, available : Availabilities, status : Statuses,
     listed : BOOLEAN, missing : Int, review : Reviews, quarantine : Quarantines, context : BOOLEAN, maxOutput : BOOLEAN,
     price : [{"in", "out", "unit"} -> Int], enabled : BOOLEAN, routing : BOOLEAN]

\* A row of class c that control may mark for Auto, whatever it holds.
MayBeMarked(r, c) == RowInfo[r].type = "text" /\ c \in {"anonymous", "private"}

RowIsKept(r, w) == w \in RowColumns /\ (w.routing => MayBeMarked(r, w.privacy))

\* The inductive invariant: a sync was never later than now, and what takes a
\* provider down is one of the two things a query looks for.
CatalogIInv ==
    /\ row \in [CatalogRows -> RowColumns]
    /\ \A r \in CatalogRows : RowIsKept(r, row[r])
    /\ success \in [Providers -> Int]
    /\ clockNow \in Int
    /\ down \subseteq Providers \X {"inactive", "emergency"}

\* A row without a fault whose provider is up is sound: its status is one of the
\* six, so that the five excluded leave "available", and a price that is positive
\* and not above its ceiling is within it.
LEMMA FaultlessIsSound ==
    ASSUME CatalogIInv, NEW r \in CatalogRows, Queried(r), ~Faulty(r, row[r], FALSE)
    PROVE  Sound(r)
  <1> DEFINE w == row[r]
             i == RowInfo[r]
  <1>1. /\ w \in RowColumns
        /\ i.provider \in Providers
        /\ success[i.provider] \in Int
        /\ clockNow \in Int
    BY DEF CatalogIInv, Providers
  <1>2. /\ ~IsLegacyMemberRouteId(i.provider, i.ns)
        /\ w.available = "online"
        /\ ~(w.missing >= 3)
        /\ w.status \notin {"retired", "frozen", "offline", "deprecated", "unsupported"}
        /\ i.provider \in managed => ~(success[i.provider] < 0) /\ ~StaleAt(i.provider, clockNow)
        /\ w.review = "approved"
        /\ \A q \in BilledBy(i.type) : Positive(w.price[q])
        /\ ~PriceCeilingBreach(r, w)
        /\ w.status # "quarantined"
        /\ w.quarantine = "none"
        /\ w.listed
    BY DEF Faulty
  <1>3. w.missing \in Int /\ w.price \in [{"in", "out", "unit"} -> Int]
        /\ w.status \in Statuses
    BY <1>1 DEF RowColumns
  <1>4. w.enabled /\ w.missing < 3 /\ w.status = "available"
    BY <1>2, <1>3 DEF Queried, Active, Statuses
  <1>5. i.provider \in managed => success[i.provider] >= 0 /\ clockNow - success[i.provider] <= StaleAfter
    BY <1>1, <1>2, CatalogAssumption DEF StaleAt
  <1>6. \A q \in BilledBy(i.type) : w.price[q] \in 1 .. PriceCeiling[q]
    <2>1. BilledBy(i.type) \subseteq {"in", "out", "unit"}
      BY DEF BilledBy
    <2>2. TAKE q \in BilledBy(i.type)
    <2>3. w.price[q] \in Int /\ PriceCeiling[q] \in Int
      BY <1>3, <2>1, CatalogAssumption
    <2>4. w.price[q] > 0 /\ ~(w.price[q] > PriceCeiling[q])
      BY <1>2 DEF Positive, PriceCeilingBreach
    <2> QED BY <2>3, <2>4
  <1>7. i.ns # "near-ai"
    <2>1. SUFFICES ASSUME i.ns = "near-ai" PROVE FALSE
      OBVIOUS
    <2>2. IsMemberInternalRouteId(i.ns)
      BY <2>1 DEF IsMemberInternalRouteId, RouteIdNamespace, Members
    <2>3. i.provider = "near-ai"
      BY <2>1, <2>2, CatalogAssumption
    <2> QED BY <1>2, <2>1, <2>3 DEF IsLegacyMemberRouteId, RouteIdNamespace, Members
  <1>8. ~ \E d \in down : d[1] = i.provider
    <2>1. SUFFICES ASSUME NEW d \in down, d[1] = i.provider PROVE FALSE
      OBVIOUS
    <2>2. d = <<d[1], "inactive">> \/ d = <<d[1], "emergency">>
      BY DEF CatalogIInv
    <2> QED BY <2>1, <2>2 DEF Queried, Active
  <1> QED BY <1>2, <1>4, <1>5, <1>6, <1>7, <1>8 DEF Sound

\* So what Auto is offered is allowed: the class it was marked with is the one it
\* has, and the reader's own hold list is the one in force.
LEMMA OffersAreAllowed ==
    ASSUME CatalogIInv
    PROVE  AutoOffersAreAllowed
  <1> SUFFICES ASSUME NEW r \in AutoCandidates
               PROVE  /\ Sound(r)
                      /\ RowInfo[r].type = "text"
                      /\ RowInfo[r].provider \notin {"near-ai", "phala-ai"}
                      /\ row[r].privacy \in {"anonymous", "private"}
    BY DEF AutoOffersAreAllowed
  <1>1. r \in CatalogRows /\ Queried(r) /\ RuntimeEligible(r, FALSE)
    BY DEF AutoCandidates, ListEnabledModels
  <1>2. row[r].routing /\ RowInfo[r].provider \notin {"near-ai", "phala-ai"}
    BY DEF AutoCandidates, HeldFromAuto
  <1>3. Sound(r)
    BY <1>1, FaultlessIsSound DEF RuntimeEligible
  <1> QED BY <1>1, <1>2, <1>3 DEF CatalogIInv, RowIsKept, MayBeMarked

\* So whatever a query answers is sound, and withheld only from a probe.
LEMMA AnswersAreSound ==
    ASSUME CatalogIInv
    PROVE  ServedIsSound
  <1>1. ASSUME NEW r \in CatalogRows, NEW b \in BOOLEAN, Queried(r), RuntimeEligible(r, b)
        PROVE  Sound(r) /\ (~b => ~Withheld(r))
    BY <1>1, FaultlessIsSound DEF RuntimeEligible
  <1>2. ASSUME NEW id \in ModelIds, NEW b \in BOOLEAN, NEW r \in ListProviderRoutesForModel(id, b)
        PROVE  r \in CatalogRows /\ Queried(r) /\ RuntimeEligible(r, b)
    BY <1>2 DEF ListProviderRoutesForModel
  <1>3. ASSUME NEW r \in ListEnabledModels
        PROVE  r \in CatalogRows /\ Queried(r) /\ RuntimeEligible(r, FALSE)
    BY <1>3 DEF ListEnabledModels
  <1>4. ASSUME NEW id \in ModelIds, NEW p \in Providers \cup {"any"}, NEW r \in GetEnabledModel(id, p)
        PROVE  r \in CatalogRows /\ Queried(r) /\ RuntimeEligible(r, FALSE)
    BY <1>4 DEF GetEnabledModel
  <1>5. ASSUME NEW r, ~Withheld(r), enforced, RowInfo[r].provider \in DOMAIN GovernedClass,
               row[r].privacy = GovernedClass[RowInfo[r].provider]
        PROVE  <<RowInfo[r].provider, RowInfo[r].canonical, row[r].privacy>> \in VerifiedRoutes
    BY <1>5 DEF Withheld
  <1>6. ASSUME NEW id \in ModelIds, NEW r \in ListProviderRoutesForModel(id, TRUE) PROVE Sound(r)
    BY <1>1, <1>2
  <1>7. ASSUME NEW id \in ModelIds,
               NEW r \in ListProviderRoutesForModel(id, FALSE) \cup ListEnabledModels
                         \cup UNION {GetEnabledModel(id, p) : p \in Providers \cup {"any"}}
        PROVE  Sound(r) /\ ~Withheld(r)
    <2>1. r \in CatalogRows /\ Queried(r) /\ RuntimeEligible(r, FALSE)
      BY <1>2, <1>3, <1>4
    <2> QED BY <2>1, <1>1
  <1> QED BY <1>5, <1>6, <1>7 DEF ServedIsSound

\* Whatever is written to a row, the other variables stay.
LEMMA WriteKeeps ==
    ASSUME CatalogIInv, NEW r \in CatalogRows, NEW w, RowIsKept(r, w), row' = [row EXCEPT ![r] = w],
           success' \in [Providers -> Int], UNCHANGED <<down, clockNow>>
    PROVE  CatalogIInv'
  <1>1. w \in RowColumns
    BY DEF RowIsKept
  <1>2. row' \in [CatalogRows -> RowColumns]
    BY <1>1 DEF CatalogIInv
  <1>3. ASSUME NEW o \in CatalogRows PROVE RowIsKept(o, row'[o])
    <2>1. CASE o = r
      BY <2>1 DEF CatalogIInv
    <2>2. CASE o # r
      BY <2>2 DEF CatalogIInv
    <2> QED BY <2>1, <2>2
  <1> QED BY <1>2, <1>3 DEF CatalogIInv, RowIsKept, MayBeMarked

\* A column may be given any value of its own; only `routing` is the mark, and
\* the class is what it stands for.
SameMark(w, v) == w \in RowColumns /\ w.routing = v.routing /\ w.privacy = v.privacy

LEMMA ColumnsAreFree ==
    ASSUME NEW v \in RowColumns
    PROVE  /\ \A a \in Availabilities : SameMark([v EXCEPT !.available = a], v)
           /\ \A a \in Reviews : SameMark([v EXCEPT !.review = a], v)
           /\ \A a \in Quarantines : SameMark([v EXCEPT !.quarantine = a], v)
           /\ \A s \in Statuses :
                  SameMark([v EXCEPT !.status = s], v)
           /\ \A n \in Int : SameMark([v EXCEPT !.missing = n], v)
           /\ \A f \in [{"in", "out", "unit"} -> Int] : SameMark([v EXCEPT !.price = f], v)
           /\ \A b \in BOOLEAN : /\ SameMark([v EXCEPT !.listed = b], v)
                                /\ SameMark([v EXCEPT !.context = b], v)
                                /\ SameMark([v EXCEPT !.maxOutput = b], v)
                                /\ SameMark([v EXCEPT !.enabled = b], v)
           /\ \A c \in Classes : [v EXCEPT !.privacy = c] \in RowColumns /\ [v EXCEPT !.privacy = c].privacy = c
           /\ \A b \in BOOLEAN : /\ [v EXCEPT !.routing = b] \in RowColumns
                                /\ [v EXCEPT !.routing = b].routing = b
                                /\ [v EXCEPT !.routing = b].privacy = v.privacy
  <1>1. /\ \A a \in Availabilities : SameMark([v EXCEPT !.available = a], v)
        /\ \A a \in Reviews : SameMark([v EXCEPT !.review = a], v)
        /\ \A a \in Quarantines : SameMark([v EXCEPT !.quarantine = a], v)
    BY DEF RowColumns, SameMark
  <1>2. \A s \in Statuses :
           SameMark([v EXCEPT !.status = s], v)
    BY DEF RowColumns, SameMark
  <1>3. \A n \in Int : SameMark([v EXCEPT !.missing = n], v)
    BY DEF RowColumns, SameMark
  <1>4. \A f \in [{"in", "out", "unit"} -> Int] : SameMark([v EXCEPT !.price = f], v)
    BY DEF RowColumns, SameMark
  <1>5. \A b \in BOOLEAN : /\ SameMark([v EXCEPT !.listed = b], v)
                          /\ SameMark([v EXCEPT !.context = b], v)
                          /\ SameMark([v EXCEPT !.maxOutput = b], v)
                          /\ SameMark([v EXCEPT !.enabled = b], v)
    BY DEF RowColumns, SameMark
  <1>6. \A b \in BOOLEAN : /\ [v EXCEPT !.routing = b] \in RowColumns
                          /\ [v EXCEPT !.routing = b].routing = b
                          /\ [v EXCEPT !.routing = b].privacy = v.privacy
    BY DEF RowColumns
  <1>7. \A c \in Classes : [v EXCEPT !.privacy = c] \in RowColumns /\ [v EXCEPT !.privacy = c].privacy = c
    BY DEF RowColumns
  <1> QED BY <1>1, <1>2, <1>3, <1>4, <1>5, <1>6, <1>7

\* Control changes any column but the mark.
LEMMA ControlKeeps ==
    ASSUME CatalogIInv, NEW r \in CatalogRows, ControlWrites(r)
    PROVE  CatalogIInv'
  <1>1. row[r] \in RowColumns /\ (row[r].routing => MayBeMarked(r, row[r].privacy))
    BY DEF CatalogIInv, RowIsKept
  <1>2. PICK v : v = row[r]
    OBVIOUS
  <1>3. v \in RowColumns
    BY <1>1, <1>2
  <1>4. \A q \in {"in", "out", "unit"}, x \in {NoPrice, 2, PriceCeiling["in"] + 1} :
           SameMark([v EXCEPT !.price[q] = x], v)
    <2>1. TAKE q \in {"in", "out", "unit"}, x \in {NoPrice, 2, PriceCeiling["in"] + 1}
    <2>2. x \in Int
      BY CatalogAssumption DEF NoPrice
    <2>3. v.price \in [{"in", "out", "unit"} -> Int]
      BY <1>3 DEF RowColumns
    <2>4. [v.price EXCEPT ![q] = x] \in [{"in", "out", "unit"} -> Int]
      BY <2>2, <2>3
    <2> QED BY <1>3, <2>4, ColumnsAreFree
  <1>5. \E w : SameMark(w, v) /\ Write(r, w)
    <2>1. CASE \E a \in {"online", "offline", "deprecated", "missing"} : Write(r, [v EXCEPT !.available = a])
      BY <1>3, <2>1, ColumnsAreFree DEF Availabilities
    <2>2. CASE \E s \in {"quarantined", "retired", "frozen"} : Write(r, [v EXCEPT !.status = s])
      BY <1>3, <2>2, ColumnsAreFree DEF Statuses
    <2>3. CASE \E a \in {"pending", "rejected"} : Write(r, [v EXCEPT !.review = a])
      BY <1>3, <2>3, ColumnsAreFree DEF Reviews
    <2>4. CASE \E q \in BilledBy(RowInfo[r].type), x \in {NoPrice, 2, PriceCeiling["in"] + 1} :
                 Write(r, [v EXCEPT !.price[q] = x])
      <3>1. BilledBy(RowInfo[r].type) \subseteq {"in", "out", "unit"}
        BY DEF BilledBy
      <3> QED BY <1>4, <2>4, <3>1
    <2>5. CASE \E a \in {"pending_operator_review", "tampered"} : Write(r, [v EXCEPT !.quarantine = a])
      BY <1>3, <2>5, ColumnsAreFree DEF Quarantines
    <2>6. CASE Write(r, [v EXCEPT !.missing = 3])
      BY <1>3, <2>6, ColumnsAreFree
    <2>7. CASE Write(r, [v EXCEPT !.context = FALSE])
      BY <1>3, <2>7, ColumnsAreFree
    <2>8. CASE Write(r, [v EXCEPT !.maxOutput = FALSE])
      BY <1>3, <2>8, ColumnsAreFree
    <2>9. CASE Write(r, [v EXCEPT !.listed = FALSE])
      BY <1>3, <2>9, ColumnsAreFree
    <2>10. CASE Write(r, [v EXCEPT !.enabled = FALSE])
      BY <1>3, <2>10, ColumnsAreFree
    <2> QED BY <1>2, <2>1, <2>2, <2>3, <2>4, <2>5, <2>6, <2>7, <2>8, <2>9, <2>10, Zenon DEF ControlWrites
  <1> QED BY <1>1, <1>2, <1>5, WriteKeeps DEF Write, RowIsKept, CatalogIInv, SameMark

\* A sync marks a row only when its decision did.
LEMMA SnapshotKeeps ==
    ASSUME CatalogIInv, NEW r \in CatalogRows, NEW x \in {NoPrice, 1, 2, 3}, NEW c \in ListedClasses, SnapshotWrites(r, x, c)
    PROVE  CatalogIInv'
  <1> DEFINE p == RowInfo[r].provider
             next == [row[r] EXCEPT !.privacy = c, !.price = [q \in DOMAIN @ |-> x], !.missing = 0]
             base == BaseEnablement(r, next)
             jumped == \E q \in BilledBy(RowInfo[r].type) : PriceQuarantineTriggered(row[r].price[q], x)
             status == IF jumped THEN "quarantined"
                       ELSE IF EnablementFrozen(p) /\ next.price # row[r].price THEN "frozen"
                       ELSE base.status
             new == [next EXCEPT !.listed = base.listed,
                                 !.status = status,
                                 !.quarantine = IF jumped THEN "price_change_threshold" ELSE @,
                                 !.routing = base.routing /\ ~jumped]
  <1>1. row[r] \in RowColumns
    BY DEF CatalogIInv
  <1>2. x \in Int
    BY DEF NoPrice
  <1>3. next \in RowColumns /\ next.privacy = c
    <2>1. [q \in DOMAIN row[r].price |-> x] \in [{"in", "out", "unit"} -> Int]
      BY <1>1, <1>2 DEF RowColumns
    <2>2. PICK v0 : v0 = [row[r] EXCEPT !.privacy = c]
      OBVIOUS
    <2>3. PICK f : f = [q \in DOMAIN row[r].price |-> x]
      OBVIOUS
    <2>4. PICK v1 : v1 = [v0 EXCEPT !.price = f]
      OBVIOUS
    <2>5. next = [v1 EXCEPT !.missing = 0]
      BY <1>1, <2>2, <2>4, <2>3 DEF RowColumns
    <2>6. c \in Classes
      BY CatalogAssumption DEF Classes
    <2>7. v0 \in RowColumns /\ v0.privacy = c
      BY <1>1, <2>2, <2>6, ColumnsAreFree
    <2>8. v1 \in RowColumns /\ v1.privacy = c
      <3>1. f \in [{"in", "out", "unit"} -> Int]
        BY <2>1, <2>3
      <3>2. SameMark([v0 EXCEPT !.price = f], v0)
        BY <2>7, <3>1, ColumnsAreFree
      <3> QED BY <2>4, <2>7, <3>2 DEF SameMark
    <2> HIDE DEF next
    <2> QED BY <2>5, <2>8, ColumnsAreFree DEF SameMark
  <1>4. base.listed \in BOOLEAN /\ base.routing \in BOOLEAN
        /\ base.status \in {"available", "offline", "unsupported"}
    BY DEF BaseEnablement
  <1>5. base.routing => MayBeMarked(r, next.privacy)
    BY DEF BaseEnablement, MayBeMarked, IsAutoRoutableRoute, IsAutoRoutablePrivacy
  <1>6. status \in Statuses
    BY <1>4 DEF Statuses
  <1> HIDE DEF status, base, jumped
  <1>7. new \in RowColumns /\ (new.routing => base.routing) /\ new.privacy = c
    <2>1. PICK v0 : v0 = next
      OBVIOUS
    <2>2. PICK v1 : v1 = [v0 EXCEPT !.listed = base.listed]
      OBVIOUS
    <2>3. PICK v2 : v2 = [v1 EXCEPT !.status = status]
      OBVIOUS
    <2>4. PICK a : a = (IF jumped THEN "price_change_threshold" ELSE v2.quarantine)
      OBVIOUS
    <2>5. PICK v3 : v3 = [v2 EXCEPT !.quarantine = a]
      OBVIOUS
    <2>6. PICK b : b = (base.routing /\ ~jumped)
      OBVIOUS
    <2>7. new = [v3 EXCEPT !.routing = b]
      BY <2>1, <2>2, <2>3, <2>4, <2>5, <2>6
    <2>8. v1 \in RowColumns /\ v1.privacy = c
      <3>1. v0 \in RowColumns /\ v0.privacy = c
        BY <1>3, <2>1
      <3>2. SameMark([v0 EXCEPT !.listed = base.listed], v0)
        BY <1>4, <3>1, ColumnsAreFree
      <3> QED BY <2>2, <3>1, <3>2 DEF SameMark
    <2>9. v2 \in RowColumns /\ v2.privacy = c
      BY <1>6, <2>3, <2>8, ColumnsAreFree DEF SameMark
    <2>10. a \in Quarantines
      <3>1. v2.quarantine \in Quarantines
        BY <2>9 DEF RowColumns
      <3> QED BY <2>4, <3>1 DEF Quarantines
    <2>11. v3 \in RowColumns /\ v3.privacy = c
      BY <2>5, <2>9, <2>10, ColumnsAreFree DEF SameMark
    <2>12. b \in BOOLEAN /\ (b => base.routing)
      BY <1>4, <2>6
    <2> QED BY <2>7, <2>11, <2>12, ColumnsAreFree
  <1>8. row' = [row EXCEPT ![r] = new] /\ success' = [success EXCEPT ![p] = clockNow] /\ UNCHANGED <<down, clockNow>>
    BY DEF SnapshotWrites, status, base, jumped
  <1> HIDE DEF new
  <1>9. success' \in [Providers -> Int]
    BY <1>8 DEF CatalogIInv
  <1> QED BY <1>3, <1>5, <1>7, <1>8, <1>9, WriteKeeps DEF RowIsKept

\* An operator marks a row by the same two conditions.
LEMMA EnableKeeps ==
    ASSUME CatalogIInv, NEW r \in CatalogRows, EnableRow(r)
    PROVE  CatalogIInv'
  <1> DEFINE new == [row[r] EXCEPT !.review = "approved", !.quarantine = "none", !.status = "available",
                                   !.enabled = TRUE, !.routing = RoutingEligible(r)]
  <1>1. row[r] \in RowColumns
    BY DEF CatalogIInv
  <1>2. RoutingEligible(r) \in BOOLEAN /\ (RoutingEligible(r) => MayBeMarked(r, row[r].privacy))
    BY DEF RoutingEligible, MayBeMarked, IsAutoRoutableRoute, IsAutoRoutablePrivacy
  <1>3. new \in RowColumns /\ new.routing = RoutingEligible(r) /\ new.privacy = row[r].privacy
    <2>1. PICK v1 : v1 = [row[r] EXCEPT !.review = "approved"]
      OBVIOUS
    <2>2. PICK v2 : v2 = [v1 EXCEPT !.quarantine = "none"]
      OBVIOUS
    <2>3. PICK v3 : v3 = [v2 EXCEPT !.status = "available"]
      OBVIOUS
    <2>4. PICK v4 : v4 = [v3 EXCEPT !.enabled = TRUE]
      OBVIOUS
    <2>5. new = [v4 EXCEPT !.routing = RoutingEligible(r)]
      BY <2>1, <2>2, <2>3, <2>4
    <2>6. v1 \in RowColumns /\ v1.privacy = row[r].privacy
      BY <1>1, <2>1, ColumnsAreFree DEF SameMark, Reviews
    <2>7. v2 \in RowColumns /\ v2.privacy = row[r].privacy
      BY <2>2, <2>6, ColumnsAreFree DEF SameMark, Quarantines
    <2>8. v3 \in RowColumns /\ v3.privacy = row[r].privacy
      BY <2>3, <2>7, ColumnsAreFree DEF SameMark, Statuses
    <2>9. v4 \in RowColumns /\ v4.privacy = row[r].privacy
      BY <2>4, <2>8, ColumnsAreFree DEF SameMark
    <2> QED BY <1>2, <2>5, <2>9, ColumnsAreFree
  <1>4. row' = [row EXCEPT ![r] = new] /\ UNCHANGED <<success, down, clockNow>>
    BY DEF EnableRow, Write
  <1> HIDE DEF new
  <1> QED BY <1>2, <1>3, <1>4, WriteKeeps DEF RowIsKept, CatalogIInv

\* What a query answers is sound and what Auto is offered is allowed, for any
\* rows, providers, policy, releases of control and clock.
THEOREM CatalogIsSound == CatalogSpec => [](ServedIsSound /\ AutoOffersAreAllowed)
  <1>1. CatalogInit => CatalogIInv
    <2>1. ASSUME NEW r \in CatalogRows PROVE Healthy(r) \in RowColumns /\ ~Healthy(r).routing
      <3>1. PICK f : f = [in |-> 1, out |-> 1, unit |-> 1]
        OBVIOUS
      <3>2. f \in [{"in", "out", "unit"} -> Int]
        BY <3>1
      <3>3. Healthy(r) = [privacy |-> RowInfo[r].privacy, available |-> "online", status |-> "available", listed |-> TRUE,
                          missing |-> 0, review |-> "approved", quarantine |-> "none", context |-> TRUE, maxOutput |-> TRUE,
                          price |-> f, enabled |-> TRUE, routing |-> FALSE]
        BY <3>1 DEF Healthy
      <3>4. PICK c \in Classes : c = RowInfo[r].privacy
        BY CatalogAssumption DEF Classes
      <3> QED BY <3>2, <3>3, <3>4 DEF RowColumns, Availabilities, Statuses, Reviews, Quarantines
    <2> QED BY <2>1 DEF CatalogInit, CatalogIInv, RowIsKept
  <1>2. CatalogIInv /\ [CatalogNext]_catalogVars => CatalogIInv'
    <2> SUFFICES ASSUME CatalogIInv, [CatalogNext]_catalogVars PROVE CatalogIInv'
      OBVIOUS
    <2>1. CASE \E r \in CatalogRows : ControlWrites(r) \/ EnableRow(r)
      BY <2>1, ControlKeeps, EnableKeeps
    <2>2. CASE \E r \in CatalogRows, x \in {NoPrice, 1, 2, 3}, c \in ListedClasses : SnapshotWrites(r, x, c)
      BY <2>2, SnapshotKeeps
    <2>3. CASE \E p \in Providers, k \in {"inactive", "emergency"} : TakeDown(p, k)
      BY <2>3 DEF TakeDown, CatalogIInv
    <2>4. CASE CatalogTick
      BY <2>4 DEF CatalogTick, CatalogIInv
    <2>5. CASE UNCHANGED catalogVars
      BY <2>5 DEF catalogVars, CatalogIInv
    <2>6. CASE (\E p \in Providers : ManageProvider(p)) \/ (\E list \in HoldLists : DeployControl(list))
      BY <2>6 DEF ManageProvider, DeployControl, CatalogIInv
    <2> QED BY <2>1, <2>2, <2>3, <2>4, <2>5, <2>6 DEF CatalogNext
  <1>3. CatalogIInv => ServedIsSound /\ AutoOffersAreAllowed
    BY AnswersAreSound, OffersAreAllowed
  <1> QED BY <1>1, <1>2, <1>3, PTL DEF CatalogSpec
-----------------------------------------------------------------------------
\* The gateway: what a client accepts, and what it is bound to accept.

GatewaySpec == GatewayInit /\ [][GatewayNext]_gatewayVars

Verdict(d, quoted, reprint, x) == VerifyGatewayAttestation(Mixed(d, quoted, reprint), x).failed

\* The log of an instance: four events, of which the third is the measured compose hash.
IsLog(log, b, n) ==
    /\ DOMAIN log = 1 .. 4
    /\ log[1] = [imr |-> 0, name |-> "boot", payload |-> "firmware", digest |-> <<"boot", "firmware">>, preimage |-> {}]
    /\ log[2] = [imr |-> 3, name |-> "app-id", payload |-> b.app, digest |-> <<"app-id", b.app>>, preimage |-> {}]
    /\ log[3] = [imr |-> 3, name |-> "compose-hash", payload |-> b.compose, digest |-> <<"compose-hash", b.compose>>,
                 preimage |-> {<<"compose-hash", b.compose>>}]
    /\ log[4] = [imr |-> 3, name |-> "instance-id", payload |-> ToString(n), digest |-> <<>>, preimage |-> {}]

LEMMA LogIsFour ==
    ASSUME NEW b, NEW n
    PROVE  IsLog(EventLog(b, n), b, n)
  <1> DEFINE log == EventLog(b, n)
             e1 == Event(0, "boot", "firmware")
             e2 == Event(3, "app-id", b.app)
             e3 == [Event(3, "compose-hash", b.compose) EXCEPT !.preimage = {<<"compose-hash", b.compose>>}]
             e4 == [Event(3, "instance-id", ToString(n)) EXCEPT !.digest = <<>>]
  <1>1. log = <<e1, e2, e3, e4>>
    BY DEF EventLog
  <1>2. e1 = [imr |-> 0, name |-> "boot", payload |-> "firmware", digest |-> <<"boot", "firmware">>, preimage |-> {}]
    BY DEF Event
  <1>3. e2 = [imr |-> 3, name |-> "app-id", payload |-> b.app, digest |-> <<"app-id", b.app>>, preimage |-> {}]
    BY DEF Event
  <1>4. e3 = [imr |-> 3, name |-> "compose-hash", payload |-> b.compose, digest |-> <<"compose-hash", b.compose>>,
              preimage |-> {<<"compose-hash", b.compose>>}]
    BY DEF Event
  <1>5. e4 = [imr |-> 3, name |-> "instance-id", payload |-> ToString(n), digest |-> <<>>, preimage |-> {}]
    <2>1. PICK s : s = ToString(n)
      OBVIOUS
    <2>2. Event(3, "instance-id", s) = [imr |-> 3, name |-> "instance-id", payload |-> s, digest |-> <<"instance-id", s>>, preimage |-> {}]
      BY DEF Event
    <2>3. e4 = [Event(3, "instance-id", s) EXCEPT !.digest = <<>>]
      BY <2>1
    <2>4. PICK t : t = <<"instance-id", s>>
      OBVIOUS
    <2>5. PICK u : u = <<>>
      OBVIOUS
    <2>6. e4 = [imr |-> 3, name |-> "instance-id", payload |-> s, digest |-> u, preimage |-> {}]
      <3>1. e4 = [[imr |-> 3, name |-> "instance-id", payload |-> s, digest |-> t, preimage |-> {}] EXCEPT !.digest = u]
        BY <2>2, <2>3, <2>4, <2>5
      <3> HIDE DEF e4
      <3> QED BY <3>1
    <2> HIDE DEF e4
    <2> QED BY <2>1, <2>5, <2>6
  <1> HIDE DEF log, e1, e2, e3, e4
  <1>6. DOMAIN log = 1 .. 4 /\ log[1] = e1 /\ log[2] = e2 /\ log[3] = e3 /\ log[4] = e4
    BY <1>1
  <1>7. IsLog(log, b, n)
    BY <1>2, <1>3, <1>4, <1>5, <1>6 DEF IsLog
  <1> QED BY <1>7 DEF log

\* A check that is not among the failures passed.
LEMMA ChecksPassed ==
    ASSUME NEW checks, Failures(checks) = {}
    PROVE  \A n \in DOMAIN checks : checks[n]
  BY Zenon DEF Failures

\* What no failed check says: the checks of the quote, of the log and of the pins
\* that the verdict rests on all passed.
LEMMA NothingFailed ==
    ASSUME NEW v, NEW x, VerifyGatewayAttestation(v, x).failed = {}
    PROVE  /\ v.quote.report = v.binding /\ ~v.quote.debug
           /\ v.binding.nonce = x.nonce
           /\ \A i \in DOMAIN v.log : v.log[i].imr = 3 => Rtmr3EventDigestIsSelfConsistent(v.log[i])
           /\ SingleEventPayload(v.log, "compose-hash") = {v.binding.compose}
           /\ v.binding.compose \in Pinned.composes
           /\ Pinned.inTeeTls => x.observed \subseteq {v.binding.spki}
  <1>1. /\ Failures(QuoteChecks(v, x)) = {}
        /\ Failures(LogChecks(v)) = {}
        /\ Failures(PinChecks(v, x)) = {}
    BY DEF VerifyGatewayAttestation
  <1>2. v.quote.report = v.binding /\ ~v.quote.debug /\ v.binding.nonce = x.nonce
    <2> DEFINE q == QuoteChecks(v, x)
    <2>1. /\ "report_data_binds_binding" \in DOMAIN q
          /\ "quote_not_debug" \in DOMAIN q
          /\ "nonce_matches_request" \in DOMAIN q
      BY DEF QuoteChecks
    <2>2. q["report_data_binds_binding"] /\ q["quote_not_debug"] /\ q["nonce_matches_request"]
      <3>1. Failures(q) = {}
        BY <1>1
      <3> HIDE DEF q
      <3> QED BY <2>1, <3>1, ChecksPassed, Zenon
    <2> QED BY <2>2 DEF QuoteChecks
  <1>3. /\ \A i \in DOMAIN v.log : v.log[i].imr = 3 => Rtmr3EventDigestIsSelfConsistent(v.log[i])
        /\ SingleEventPayload(v.log, "compose-hash") = {v.binding.compose}
    <2> DEFINE q == LogChecks(v)
    <2>1. /\ "event_digests_commit_to_payloads" \in DOMAIN q
          /\ "compose_hash_measured_in_rtmr3" \in DOMAIN q
      BY DEF LogChecks
    <2>2. q["event_digests_commit_to_payloads"] /\ q["compose_hash_measured_in_rtmr3"]
      <3>1. Failures(q) = {}
        BY <1>1
      <3> HIDE DEF q
      <3> QED BY <2>1, <3>1, ChecksPassed, Zenon
    <2> QED BY <2>2 DEF LogChecks
  <1>4. v.binding.compose \in Pinned.composes /\ (Pinned.inTeeTls => x.observed \subseteq {v.binding.spki})
    <2> DEFINE q == PinChecks(v, x)
    <2>1. /\ "compose_hash_pinned" \in DOMAIN q
          /\ "tls_certificate_bound_to_quote" \in DOMAIN q
      BY DEF PinChecks
    <2>2. q["compose_hash_pinned"] /\ q["tls_certificate_bound_to_quote"]
      <3>1. Failures(q) = {}
        BY <1>1
      <3> HIDE DEF q
      <3> QED BY <2>1, <3>1, ChecksPassed, Zenon
    <2> QED BY <2>2 DEF PinChecks
  <1> QED BY <1>2, <1>3, <1>4

\* So a document accepted with the quote of another binds what that one bound, and
\* the compose hash its log prints, whoever printed it, is the one that was
\* measured: an event that commits to another payload fails its own digest.
LEMMA AcceptedIsQuoted ==
    ASSUME NEW d, NEW quoted, NEW reprint \in BOOLEAN, NEW x, Verdict(d, quoted, reprint, x) = {}
    PROVE  /\ Binding(d) = Binding(quoted)
           /\ quoted.client = x.nonce
           /\ ~quoted.build.debug
           /\ quoted.build.compose \in Pinned.composes
           /\ Pinned.inTeeTls => x.observed \subseteq {quoted.key}
  <1> DEFINE v == Mixed(d, quoted, reprint)
  <1>1. PICK log : log = EventLog(quoted.build, quoted.instance)
    OBVIOUS
  <1>2. v.binding = Binding(d) /\ v.quote = GetQuote(quoted)
        /\ v.log = IF reprint THEN Reprinted(log, d.build.claims) ELSE log
    BY <1>1 DEF Mixed
  <1>3. v.quote.report = Binding(quoted) /\ v.quote.debug = quoted.build.debug
    BY <1>2 DEF GetQuote
  <1> HIDE DEF v
  <1>4. VerifyGatewayAttestation(v, x).failed = {}
    BY DEF Verdict, v
  <1>5. /\ v.quote.report = v.binding /\ ~v.quote.debug
        /\ v.binding.nonce = x.nonce
        /\ \A i \in DOMAIN v.log : v.log[i].imr = 3 => Rtmr3EventDigestIsSelfConsistent(v.log[i])
        /\ SingleEventPayload(v.log, "compose-hash") = {v.binding.compose}
        /\ v.binding.compose \in Pinned.composes
        /\ Pinned.inTeeTls => x.observed \subseteq {v.binding.spki}
    BY <1>4, NothingFailed
  <1>6. Binding(d) = Binding(quoted)
    BY <1>2, <1>3, <1>5
  <1>7. Binding(quoted).nonce = quoted.client /\ Binding(quoted).spki = quoted.key
        /\ Binding(d).compose = d.build.claims
    BY DEF Binding
  <1>8. d.build.claims = quoted.build.compose
    <2>1. /\ DOMAIN log = 1 .. 4
          /\ log[3] = [imr |-> 3, name |-> "compose-hash", payload |-> quoted.build.compose,
                       digest |-> <<"compose-hash", quoted.build.compose>>,
                       preimage |-> {<<"compose-hash", quoted.build.compose>>}]
      <3>1. IsLog(log, quoted.build, quoted.instance)
        BY <1>1, LogIsFour
      <3> QED BY <3>1 DEF IsLog
    <2>2. CASE ~reprint
      <3>1. v.log = log
        BY <1>2, <2>2
      <3>2. 3 \in Named(v.log, "compose-hash") /\ v.log[3].payload = quoted.build.compose
        BY <2>1, <3>1 DEF Named
      <3>3. quoted.build.compose \in SingleEventPayload(v.log, "compose-hash")
        BY <3>2 DEF SingleEventPayload
      <3> QED BY <1>2, <1>5, <1>7, <3>3
    <2>3. CASE reprint
      <3>1. v.log = Reprinted(log, d.build.claims)
        BY <1>2, <2>3
      <3>2. PICK e : e = v.log[3]
        OBVIOUS
      <3>3. 3 \in DOMAIN v.log /\ e = [log[3] EXCEPT !.payload = d.build.claims]
        BY <2>1, <3>1, <3>2 DEF Reprinted
      <3>4. /\ e.imr = 3 /\ e.name = "compose-hash" /\ e.payload = d.build.claims
            /\ e.digest = <<"compose-hash", quoted.build.compose>>
            /\ e.preimage = {<<"compose-hash", quoted.build.compose>>}
        BY <2>1, <3>3
      <3>5. Rtmr3EventDigest(e) # {}
        BY <1>5, <3>2, <3>3, <3>4 DEF Rtmr3EventDigestIsSelfConsistent
      <3>6. e.digest = Commitment(e)
        BY <3>4, <3>5 DEF Rtmr3EventDigest
      <3> QED BY <3>4, <3>6 DEF Commitment
    <2> QED BY <2>2, <2>3
  <1> QED BY <1>2, <1>3, <1>5, <1>6, <1>7, <1>8
\* A binding, and what the client that reads it knows.
LEMMA BindingIsRead ==
    ASSUME NEW d
    PROVE  /\ Binding(d).wellformed /\ Binding(d).nonce = d.client /\ Binding(d).app = d.build.app
           /\ Binding(d).instance = ToString(d.instance) /\ Binding(d).compose = d.build.claims
           /\ Binding(d).release = d.build.release /\ Binding(d).origin = d.target
           /\ Binding(d).transport = Transport /\ Binding(d).spki = d.key
  <1>1. PICK s : s = ToString(d.instance)
    OBVIOUS
  <1>2. Binding(d) = [wellformed |-> TRUE, nonce |-> d.client, app |-> d.build.app, instance |-> s, compose |-> d.build.claims,
                      release |-> d.build.release, origin |-> d.target, transport |-> Transport, spki |-> d.key]
    BY <1>1 DEF Binding
  <1> QED BY <1>1, <1>2

\* Of the log of an instance: every event of register 3 commits to its payload,
\* and the named ones are alone.
LEMMA LogIsConsistent ==
    ASSUME NEW log, NEW b, NEW n, IsLog(log, b, n)
    PROVE  /\ ParseEventLog(log)
           /\ \A k \in DOMAIN log : log[k].imr = 3 =>
                 Rtmr3EventDigest(log[k]) = {Commitment(log[k])} /\ Rtmr3EventDigestIsSelfConsistent(log[k])
           /\ \A k \in DOMAIN log : log[k].imr # 3 => log[k].digest = Commitment(log[k])
           /\ Named(log, "compose-hash") = {3} /\ Named(log, "app-id") = {2} /\ Named(log, "instance-id") = {4}
           /\ Named(log, "key-provider") = {} /\ Named(log, "os-image-hash") = {}
           /\ log[2].imr = 3 /\ log[3].imr = 3 /\ log[4].imr = 3
           /\ log[2].payload = b.app /\ log[3].payload = b.compose /\ log[4].payload = ToString(n)
  <1>1. DOMAIN log = {1, 2, 3, 4}
    BY DEF IsLog
  <1>2. PICK s : s = ToString(n)
    OBVIOUS
  <1>3. /\ log[1].imr = 0 /\ log[1].name = "boot" /\ log[1].payload = "firmware"
        /\ log[1].digest = <<"boot", "firmware">> /\ log[1].preimage = {}
    BY DEF IsLog
  <1>4. /\ log[2].imr = 3 /\ log[2].name = "app-id" /\ log[2].payload = b.app
        /\ log[2].digest = <<"app-id", b.app>> /\ log[2].preimage = {}
    BY DEF IsLog
  <1>5. /\ log[3].imr = 3 /\ log[3].name = "compose-hash" /\ log[3].payload = b.compose
        /\ log[3].digest = <<"compose-hash", b.compose>> /\ log[3].preimage = {<<"compose-hash", b.compose>>}
    BY DEF IsLog
  <1>6. /\ log[4].imr = 3 /\ log[4].name = "instance-id" /\ log[4].payload = s
        /\ log[4].digest = <<>> /\ log[4].preimage = {}
    BY <1>2 DEF IsLog
  <1>7. /\ Commitment(log[1]) = <<"boot", "firmware">> /\ Commitment(log[2]) = <<"app-id", b.app>>
        /\ Commitment(log[3]) = <<"compose-hash", b.compose>> /\ Commitment(log[4]) = <<"instance-id", s>>
    BY <1>3, <1>4, <1>5, <1>6 DEF Commitment
  <1>8. /\ Rtmr3EventDigest(log[2]) = {Commitment(log[2])}
        /\ Rtmr3EventDigest(log[4]) = {Commitment(log[4])}
    BY <1>4, <1>6 DEF Rtmr3EventDigest
  <1>9. Rtmr3EventDigest(log[3]) = {Commitment(log[3])}
    <2>1. PICK m : m = <<"compose-hash", b.compose>>
      OBVIOUS
    <2>2. log[3].digest = m /\ log[3].preimage = {m} /\ Commitment(log[3]) = m
      BY <1>5, <1>7, <2>1
    <2> QED BY <2>2 DEF Rtmr3EventDigest
  <1>10. /\ Rtmr3EventDigestIsSelfConsistent(log[2])
         /\ Rtmr3EventDigestIsSelfConsistent(log[3])
         /\ Rtmr3EventDigestIsSelfConsistent(log[4])
    <2>1. log[2].digest = Commitment(log[2]) /\ log[3].digest = Commitment(log[3]) /\ log[4].digest = <<>>
      BY <1>4, <1>5, <1>6, <1>7
    <2> QED BY <1>8, <1>9, <2>1 DEF Rtmr3EventDigestIsSelfConsistent
  <1>11. ParseEventLog(log)
    BY <1>1, <1>3, <1>4, <1>5, <1>6 DEF ParseEventLog
  <1>12. /\ Named(log, "compose-hash") = {3} /\ Named(log, "app-id") = {2} /\ Named(log, "instance-id") = {4}
         /\ Named(log, "key-provider") = {} /\ Named(log, "os-image-hash") = {}
    BY <1>1, <1>3, <1>4, <1>5, <1>6 DEF Named
  <1>13. log[1].digest = Commitment(log[1])
    BY <1>3, <1>7
  <1>14. \A k \in DOMAIN log : log[k].imr = 3 =>
            Rtmr3EventDigest(log[k]) = {Commitment(log[k])} /\ Rtmr3EventDigestIsSelfConsistent(log[k])
    BY <1>1, <1>3, <1>8, <1>9, <1>10
  <1>15. \A k \in DOMAIN log : log[k].imr # 3 => log[k].digest = Commitment(log[k])
    BY <1>1, <1>4, <1>5, <1>6, <1>13
  <1> QED BY <1>2, <1>4, <1>5, <1>6, <1>11, <1>12, <1>14, <1>15

\* So replaying it gives the registers the hardware measured.
LEMMA ReplayIsMeasured ==
    ASSUME NEW log, NEW b, NEW n, IsLog(log, b, n), NEW i \in 0 .. 3
    PROVE  ReplayRegister(log, i) = Measured(log, i)
  <1> DEFINE R(k) == IF log[k].imr # i THEN <<>>
                     ELSE IF i # 3 THEN <<log[k].digest>>
                     ELSE IF Rtmr3EventDigest(log[k]) = {} THEN <<<<"unhashable">>>>
                     ELSE <<CHOOSE d \in Rtmr3EventDigest(log[k]) : TRUE>>
             M(k) == IF log[k].imr = i THEN <<Commitment(log[k])>> ELSE <<>>
  <1>1. ASSUME NEW k \in DOMAIN log PROVE R(k) = M(k)
    <2>1. CASE log[k].imr # i
      BY <2>1
    <2>2. CASE log[k].imr = i /\ i # 3
      <3>1. log[k].digest = Commitment(log[k])
        BY <2>2, LogIsConsistent
      <3> QED BY <2>2, <3>1
    <2>3. CASE log[k].imr = i /\ i = 3
      <3>1. Rtmr3EventDigest(log[k]) = {Commitment(log[k])}
        BY <2>3, LogIsConsistent
      <3>2. PICK m : m = Commitment(log[k])
        OBVIOUS
      <3>3. Rtmr3EventDigest(log[k]) = {m} /\ (CHOOSE d \in {m} : TRUE) = m
        BY <3>1, <3>2
      <3> QED BY <2>3, <3>2, <3>3
    <2> QED BY <2>1, <2>2, <2>3
  <1>2. [k \in DOMAIN log |-> R(k)] = [k \in DOMAIN log |-> M(k)]
    <2> HIDE DEF R, M
    <2> QED BY <1>1
  <1> QED BY <1>2 DEF ReplayRegister, Measured

\* A document that comes as it was issued, of a reviewed build, passes every check
\* of a client that connected to its origin and sees the key it binds.
LEMMA IntactPasses ==
    ASSUME NEW d, NEW x, Reviewed(d.build), d.target \in OriginSet,
           (Transport = "in-tee-tls") <=> (d.key # NoKey),
           x.nonce = d.client, x.origin = d.target, x.chain = "good",
           Transport = "in-tee-tls" => x.observed \subseteq {d.key}
    PROVE  Verdict(d, d, FALSE, x) = {}
  <1>1. PICK v : v = Mixed(d, d, FALSE)
    OBVIOUS
  <1>2. PICK log : log = EventLog(d.build, d.instance)
    OBVIOUS
  <1>3. v.binding = Binding(d) /\ v.quote = GetQuote(d) /\ v.manifest = d.build.manifest /\ v.vm = {} /\ v.log = log
    BY <1>1, <1>2 DEF Mixed
  <1>4. PICK r : r = [i \in 0 .. 3 |-> Measured(log, i)]
    OBVIOUS
  <1>5. /\ v.quote.parses /\ v.quote.tdx /\ v.quote.debug = d.build.debug /\ v.quote.report = v.binding
        /\ v.quote.rtmr = r
    <2>1. GetQuote(d) = [parses |-> TRUE, tdx |-> TRUE, debug |-> d.build.debug, report |-> Binding(d), platform |-> "platform", rtmr |-> r]
      BY <1>2, <1>4 DEF GetQuote
    <2> QED BY <1>3, <2>1
  <1>6. /\ v.binding.wellformed /\ v.binding.nonce = d.client /\ v.binding.app = d.build.app
        /\ v.binding.instance = ToString(d.instance) /\ v.binding.compose = d.build.claims
        /\ v.binding.release = d.build.release /\ v.binding.origin = d.target
        /\ v.binding.transport = Transport /\ v.binding.spki = d.key
    BY <1>3, BindingIsRead
  <1>7. IsLog(log, d.build, d.instance)
    BY <1>2, LogIsFour
  <1>8. NormalizeGatewayBinding(v.binding)
    BY <1>6 DEF NormalizeGatewayBinding
  <1>9. Failures(QuoteChecks(v, x)) = {}
    <2>1. v.quote.tdx /\ ~v.quote.debug /\ v.quote.report = v.binding /\ v.binding.nonce = x.nonce /\ v.binding.origin = x.origin
      BY <1>5, <1>6 DEF Reviewed
    <2>2. QuoteChecks(v, x) = [quote_is_tdx |-> TRUE, quote_not_debug |-> TRUE, report_data_binds_binding |-> TRUE,
                               nonce_matches_request |-> TRUE, origin_matches_connection |-> TRUE]
      BY <1>5, <2>1 DEF QuoteChecks
    <2> QED BY <2>2 DEF Failures
  <1>10. Failures(LogChecks(v)) = {}
    <2>1. /\ ParseEventLog(log)
          /\ \A k \in DOMAIN log : log[k].imr = 3 => Rtmr3EventDigestIsSelfConsistent(log[k])
          /\ Named(log, "compose-hash") = {3} /\ Named(log, "app-id") = {2} /\ Named(log, "instance-id") = {4}
          /\ Named(log, "key-provider") = {} /\ Named(log, "os-image-hash") = {}
          /\ log[2].imr = 3 /\ log[3].imr = 3 /\ log[4].imr = 3
          /\ log[2].payload = d.build.app /\ log[3].payload = d.build.compose /\ log[4].payload = ToString(d.instance)
      BY <1>7, LogIsConsistent
    <2>2. DOMAIN log = {1, 2, 3, 4}
      BY <1>7 DEF IsLog
    <2>3. LogIsRead(log)
      <3>1. ASSUME NEW m, NEW k \in DOMAIN log, Named(log, m) = {k}, log[k].imr = 3, Rtmr3EventDigestIsSelfConsistent(log[k])
            PROVE  ~SingleEventFails(log, m)
        <4>1. Cardinality(Named(log, m)) = 1
          BY <3>1, FS_Singleton
        <4> QED BY <3>1, <4>1 DEF SingleEventFails
      <3>2. ASSUME NEW m, Named(log, m) = {} PROVE ~SingleEventFails(log, m)
        <4>1. Cardinality(Named(log, m)) = 0
          BY <3>2, FS_EmptySet
        <4> QED BY <3>2, <4>1 DEF SingleEventFails
      <3> QED BY <2>1, <2>2, <3>1, <3>2 DEF LogIsRead
    <2>4. \A i \in 0 .. 3 : ReplayRegister(v.log, i) = v.quote.rtmr[i]
      BY <1>3, <1>4, <1>5, <1>7, ReplayIsMeasured
    <2>5. /\ SingleEventPayload(log, "compose-hash") = {d.build.compose}
          /\ SingleEventPayload(log, "app-id") = {d.build.app}
          /\ SingleEventPayload(log, "instance-id") = {ToString(d.instance)}
          /\ SingleEventPayload(log, "os-image-hash") = {}
      BY <2>1 DEF SingleEventPayload
    <2>6. Pinned.keyProvider = {} /\ Pinned.platforms = {}
      BY GatewayAssumption
    <2>7. d.build.claims = d.build.compose
      BY DEF Reviewed
    <2>8. /\ LogIsRead(v.log)
          /\ \A i \in DOMAIN v.log : v.log[i].imr = 3 => Rtmr3EventDigestIsSelfConsistent(v.log[i])
          /\ SingleEventPayload(v.log, "compose-hash") = {v.binding.compose}
          /\ SingleEventPayload(v.log, "instance-id") \subseteq {v.binding.instance}
          /\ SingleEventPayload(v.log, "app-id") = {v.binding.app}
          /\ SingleEventPayload(v.log, "os-image-hash") = {}
      <3>1. SingleEventPayload(log, "instance-id") \subseteq {v.binding.instance}
        BY <1>6, <2>5
      <3> QED BY <1>3, <1>6, <2>1, <2>3, <2>5, <2>7, <3>1
    <2>9. LogChecks(v) = [event_log_replays_rtmrs |-> TRUE, event_digests_commit_to_payloads |-> TRUE,
                          compose_hash_measured_in_rtmr3 |-> TRUE, instance_id_measured |-> TRUE, app_id_measured |-> TRUE,
                          key_provider_pinned |-> TRUE, vm_config_matches_measured_os_image |-> TRUE, os_image_pinned |-> TRUE]
      BY <2>4, <2>6, <2>8 DEF LogChecks
    <2> QED BY <2>9 DEF Failures
  <1>11. Failures(ManifestChecks(v)) = {}
    <2>1. ReadAttestedAppCompose(v.manifest) = {d.build.manifest}
      BY <1>3 DEF ReadAttestedAppCompose, Reviewed
    <2>2. PICK m : m = d.build.manifest
      OBVIOUS
    <2>3. /\ m.hash = v.binding.compose
          /\ Pinned.privateLogs => m.publicLogs = "false"
          /\ Pinned.digests => m.images # {} /\ \A i \in m.images : i.pinned
      BY <1>6, <2>2 DEF Reviewed
    <2>4. ReadAttestedAppCompose(v.manifest) = {m}
      BY <2>1, <2>2
    <2>5. ManifestChecks(v) = [app_compose_parsed |-> TRUE, app_compose_matches_measurement |-> TRUE,
                               compose_public_logs_disabled |-> TRUE, compose_images_digest_pinned |-> TRUE]
      BY <2>3, <2>4 DEF ManifestChecks
    <2> QED BY <2>5 DEF Failures
  <1>12. Failures(PinChecks(v, x)) = {}
    <2>1. /\ v.binding.app \in Pinned.apps /\ v.binding.compose \in Pinned.composes /\ v.binding.release \in Pinned.releases
      BY <1>6 DEF Reviewed
    <2>2. /\ v.binding.origin \in Pinned.origins /\ Pinned.platforms = {}
          /\ Pinned.inTeeTls => v.binding.transport = "in-tee-tls"
      BY <1>6, GatewayAssumption DEF OriginSet
    <2>3. Pinned.inTeeTls => x.observed \subseteq {v.binding.spki} \ {NoKey}
      BY <1>6, <2>2
    <2>4. PinChecks(v, x) = [app_id_pinned |-> TRUE, compose_hash_pinned |-> TRUE, release_pinned |-> TRUE, origin_pinned |-> TRUE,
                             platform_measurements_pinned |-> TRUE, transport_terminates_in_tee |-> TRUE,
                             tls_certificate_bound_to_quote |-> TRUE, quote_signature_chain |-> TRUE]
      BY <2>1, <2>2, <2>3 DEF PinChecks
    <2> QED BY <2>4 DEF Failures
  <1>13. VerifyGatewayAttestation(v, x).failed = {}
    BY <1>5, <1>8, <1>9, <1>10, <1>11, <1>12 DEF VerifyGatewayAttestation
  <1> QED BY <1>1, <1>13 DEF Verdict
\* The inductive invariant.  What is cached of a certificate is current unless it
\* was renewed since; a waiting client has seen, and been given, the key of its
\* name at a time no renewal of the last cache lifetime precedes; a document
\* belongs to the one request of its client, and a verdict to two documents.

\* Of one origin: its certificate s, renewed at t, and what is cached of it at time n.
CacheIsDated(kept, o, s, t, n) ==
    \A e \in kept : e.at \in Int /\ e.at <= n /\ e.key # NoKey /\ (t < e.at => e.key = KeyOf(o, s))

\* Of one request that waits: a, when certificates are s, renewed at t, at time n.
AskIsDated(a, s, t) ==
    /\ \A k \in a.key : /\ (Transport = "in-tee-tls") <=> (k # NoKey)
                        /\ Transport = "in-tee-tls" /\ t[a.target] + TlsTtl <= a.at => k = KeyOf(a.target, s[a.target])
    /\ \A k \in a.observed : t[a.origin] + TlsTtl <= a.at => k = KeyOf(a.origin, s[a.origin])
    /\ "tls" \notin a.has => Transport = "in-tee-tls"

AskIsTyped(a, n) ==
    /\ {"stage", "has", "key"} \subseteq DOMAIN a
    /\ a.origin \in OriginSet /\ a.target \in OriginSet
    /\ a.at \in Int /\ a.at <= n

ClockInv ==
    /\ gatewayNow \in Nat
    /\ serial \in [OriginSet -> Int]
    /\ renewedAt \in [OriginSet -> Int]
    /\ observing \subseteq OriginSet
    /\ DOMAIN observer = OriginSet
    /\ \A o \in OriginSet : CacheIsDated(observer[o], o, serial[o], renewedAt[o], gatewayNow)

AskInv ==
    /\ DOMAIN ask = Clients
    /\ \A c \in Clients : AskIsTyped(ask[c], gatewayNow)
    /\ \A c \in Clients : ask[c].stage = "asked" => AskIsDated(ask[c], serial, renewedAt)

\* d was issued for the request a.
Issued(d, a) ==
    /\ a.stage \in {"issued", "verified"}
    /\ d.target = a.target
    /\ (Transport = "in-tee-tls") <=> (d.key # NoKey)
    /\ d.steady /\ a.target = a.origin /\ Transport = "in-tee-tls" => a.observed \subseteq {d.key}

\* v is the verdict on two of the documents ds for the request a of client c.
Judged(v, c, a, ds) ==
    /\ a.stage = "verified"
    /\ v.bound \in ds /\ v.quoted \in ds /\ v.reprint \in BOOLEAN
    /\ v.x.nonce = c /\ v.x.origin = a.origin /\ v.x.observed = a.observed
    /\ v.failed = Verdict(v.bound, v.quoted, v.reprint, v.x)

PaperInv ==
    /\ \A d \in documents : d.client \in Clients /\ Issued(d, ask[d.client])
    /\ DOMAIN verdict = Clients
    /\ \A c \in Clients : \A v \in verdict[c] : Judged(v, c, ask[c], documents)

GatewayIInv == ClockInv /\ AskInv /\ PaperInv

\* What leaves the requests of a step that are past waiting, the documents and
\* the verdicts as they were keeps what is said of them.
LEMMA PapersStay ==
    ASSUME GatewayIInv, UNCHANGED <<documents, verdict>>,
           \A c \in Clients : ask[c].stage \in {"issued", "verified"} => ask'[c] = ask[c]
    PROVE  PaperInv'
  <1>1. ASSUME NEW d \in documents PROVE d.client \in Clients /\ Issued(d, ask'[d.client])
    <2>1. d.client \in Clients /\ Issued(d, ask[d.client])
      BY DEF GatewayIInv, PaperInv
    <2>2. ask[d.client].stage \in {"issued", "verified"}
      BY <2>1 DEF Issued
    <2> QED BY <2>1, <2>2
  <1>2. ASSUME NEW c \in Clients, NEW v \in verdict[c] PROVE Judged(v, c, ask'[c], documents)
    <2>1. Judged(v, c, ask[c], documents)
      BY DEF GatewayIInv, PaperInv
    <2>2. ask[c].stage \in {"issued", "verified"}
      BY <2>1 DEF Judged
    <2> QED BY <2>1, <2>2
  <1>3. PICK ds, vs : ds = documents /\ vs = verdict
    OBVIOUS
  <1>4. documents' = ds /\ verdict' = vs
    BY <1>3
  <1>5. PICK a : a = ask'
    OBVIOUS
  <1>6. \A d \in ds : d.client \in Clients /\ Issued(d, a[d.client])
    BY <1>1, <1>3, <1>5
  <1>7. \A c \in Clients : \A v \in vs[c] : Judged(v, c, a[c], ds)
    BY <1>2, <1>3, <1>5
  <1>8. DOMAIN vs = Clients
    BY <1>3 DEF GatewayIInv, PaperInv
  <1>9. \A d \in documents' : d.client \in Clients /\ Issued(d, ask'[d.client])
    BY <1>4, <1>5, <1>6
  <1>10. \A c \in Clients : \A v \in verdict'[c] : Judged(v, c, ask'[c], documents')
    BY <1>4, <1>5, <1>7
  <1>11. DOMAIN verdict' = Clients
    BY <1>4, <1>8
  <1> QED BY <1>9, <1>10, <1>11 DEF PaperInv, Issued, Judged
\* The request of a client changes while certificates and clock stay.
LEMMA AsksChange ==
    ASSUME GatewayIInv, UNCHANGED <<serial, renewedAt, gatewayNow>>, DOMAIN ask' = Clients,
           \A c \in Clients : \/ ask'[c] = ask[c]
                              \/ /\ AskIsTyped(ask'[c], gatewayNow)
                                 /\ ask'[c].stage = "asked" => AskIsDated(ask'[c], serial, renewedAt)
    PROVE  AskInv'
  <1>1. \A c \in Clients : AskIsTyped(ask'[c], gatewayNow)
    BY DEF GatewayIInv, AskInv
  <1>2. \A c \in Clients : ask'[c].stage = "asked" => AskIsDated(ask'[c], serial, renewedAt)
    BY DEF GatewayIInv, AskInv
  <1>3. PICK n, s, t : n = gatewayNow /\ s = serial /\ t = renewedAt
    OBVIOUS
  <1>4. gatewayNow' = n /\ serial' = s /\ renewedAt' = t
    BY <1>3
  <1>5. \A c \in Clients : AskIsTyped(ask'[c], n) /\ (ask'[c].stage = "asked" => AskIsDated(ask'[c], s, t))
    BY <1>1, <1>2, <1>3
  <1>6. \A c \in Clients : AskIsTyped(ask'[c], gatewayNow') /\ (ask'[c].stage = "asked" => AskIsDated(ask'[c], serial', renewedAt'))
    BY <1>4, <1>5
  <1> QED BY <1>6 DEF AskInv, AskIsTyped, AskIsDated

\* Nothing that is cached or renewed changes.
LEMMA ClockStays ==
    ASSUME GatewayIInv, UNCHANGED <<observer, serial, renewedAt, gatewayNow>>, observing' \subseteq OriginSet
    PROVE  ClockInv'
  <1> QED BY DEF GatewayIInv, ClockInv, CacheIsDated

\* The canonical origin is one that is served, and any Host names one.
LEMMA CanonicalIsServed ==
    /\ GatewayOrigins[1] \in OriginSet
    /\ \A h : SelectAttestedOrigin(h) \in OriginSet
  <1>1. 1 \in DOMAIN GatewayOrigins
    BY GatewayAssumption, EmptySeq
  <1>2. GatewayOrigins[1] \in OriginSet
    BY <1>1 DEF OriginSet, ToSet
  <1> QED BY <1>2 DEF SelectAttestedOrigin

\* A failed request is typed and waits for nothing.
LEMMA FailKeeps ==
    ASSUME GatewayIInv, NEW cs, \A c \in cs : ask[c].stage = "asked", FailAsks(cs),
           UNCHANGED <<serial, renewedAt, documents, verdict, gatewayNow>>
    PROVE  AskInv' /\ PaperInv'
  <1> DEFINE failed == [Unasked EXCEPT !.stage = "failed"]
  <1>1. failed.stage = "failed" /\ AskIsTyped(failed, gatewayNow)
    <2>1. PICK o : o = GatewayOrigins[1]
      OBVIOUS
    <2>2. failed = [stage |-> "failed", origin |-> o, target |-> o, observed |-> {}, at |-> 0, has |-> {}, key |-> {}]
      BY <2>1 DEF Unasked
    <2>3. o \in OriginSet /\ gatewayNow \in Nat
      BY <2>1, CanonicalIsServed DEF GatewayIInv, ClockInv
    <2> HIDE DEF failed
    <2> QED BY <2>2, <2>3 DEF AskIsTyped
  <1> HIDE DEF failed
  <1>2. DOMAIN ask' = Clients /\ \A c \in Clients : ask'[c] = IF c \in cs THEN failed ELSE ask[c]
    BY DEF FailAsks, failed
  <1>3. AskInv'
    BY <1>1, <1>2, AsksChange
  <1>4. PaperInv'
    BY <1>2, PapersStay
  <1> QED BY <1>3, <1>4

\* What arrives at those that wait for it.
LEMMA ArrivalKeeps ==
    ASSUME GatewayIInv, NEW cs \in SUBSET Clients, NEW what, NEW key, Arrived(cs, what, key),
           UNCHANGED <<serial, renewedAt, documents, verdict, gatewayNow>>,
           \A c \in cs : ask[c].stage = "asked",
           \A c \in cs : \A k \in key : /\ Transport = "in-tee-tls" /\ k # NoKey
                                        /\ k = KeyOf(ask[c].target, serial[ask[c].target])
    PROVE  AskInv' /\ PaperInv'
  <1>1. DOMAIN ask' = Clients
        /\ \A c \in Clients : ask'[c] = IF c \in cs THEN [ask[c] EXCEPT !.has = @ \cup {what}, !.key = @ \cup key] ELSE ask[c]
    BY DEF Arrived
  <1>2. ASSUME NEW c \in cs
        PROVE  AskIsTyped(ask'[c], gatewayNow) /\ AskIsDated(ask'[c], serial, renewedAt)
    <2>1. PICK a, b : a = ask[c] /\ b = ask'[c]
      OBVIOUS
    <2>2. b = [a EXCEPT !.has = a.has \cup {what}, !.key = a.key \cup key]
      BY <1>1, <1>2, <2>1
    <2>3. AskIsTyped(a, gatewayNow) /\ AskIsDated(a, serial, renewedAt)
      BY <1>2, <2>1 DEF GatewayIInv, AskInv
    <2>4. a.origin \in OriginSet /\ a.target \in OriginSet /\ a.at \in Int
      BY <2>3 DEF AskIsTyped
    <2>5. b.origin = a.origin /\ b.target = a.target /\ b.at = a.at /\ b.observed = a.observed
      BY <2>2
    <2>6. b.key = a.key \cup key /\ b.has = a.has \cup {what} /\ DOMAIN b = DOMAIN a
      BY <2>2, <2>3 DEF AskIsTyped
    <2>7. AskIsTyped(b, gatewayNow)
      BY <2>3, <2>5, <2>6 DEF AskIsTyped
    <2>8. AskIsDated(b, serial, renewedAt)
      BY <1>2, <2>1, <2>3, <2>5, <2>6 DEF AskIsDated
    <2> QED BY <2>1, <2>7, <2>8
  <1>3. AskInv'
    BY <1>1, <1>2, AsksChange
  <1>4. PaperInv'
    BY <1>1, PapersStay
  <1> QED BY <1>3, <1>4

\* A request that starts takes from the cache what no renewal of the last cache
\* lifetime has made old.
LEMMA AttestKeeps ==
    ASSUME GatewayIInv, NEW c \in Clients, Attest(c)
    PROVE  GatewayIInv'
  <1>1. PICK k \in Connections :
          LET t == SelectAttestedOrigin(k.host)
              tls == Transport # "in-tee-tls" \/ CachedKey(t) # {}
          IN /\ ask' = [ask EXCEPT ![c] =
                   [stage |-> "asked", origin |-> k.origin, target |-> t,
                    observed |-> IF k.sees THEN {KeyOf(k.origin, serial[k.origin])} ELSE {}, at |-> gatewayNow,
                    has |-> (IF identity # {} THEN {"identity"} ELSE {}) \cup (IF tls THEN {"tls"} ELSE {}),
                    key |-> IF Transport = "in-tee-tls" THEN CachedKey(t) ELSE {NoKey}]]
             /\ observing' = IF tls THEN observing ELSE observing \cup {ObserverFor(t)}
    BY DEF Attest
  <1>2. UNCHANGED <<observer, serial, renewedAt, documents, verdict, gatewayNow>> /\ ask[c].stage = "idle"
    BY DEF Attest
  <1>3. PICK t : t = SelectAttestedOrigin(k.host)
    OBVIOUS
  <1>4. PICK tls \in BOOLEAN : tls = (Transport # "in-tee-tls" \/ CachedKey(t) # {})
    OBVIOUS
  <1>5. PICK seen : seen = IF k.sees THEN {KeyOf(k.origin, serial[k.origin])} ELSE {}
    OBVIOUS
  <1>6. PICK has : has = (IF identity # {} THEN {"identity"} ELSE {}) \cup (IF tls THEN {"tls"} ELSE {})
    OBVIOUS
  <1>7. PICK key : key = IF Transport = "in-tee-tls" THEN CachedKey(t) ELSE {NoKey}
    OBVIOUS
  <1>8. PICK a : a = [stage |-> "asked", origin |-> k.origin, target |-> t, observed |-> seen, at |-> gatewayNow, has |-> has, key |-> key]
    OBVIOUS
  <1>9. ask' = [ask EXCEPT ![c] = a] /\ observing' = IF tls THEN observing ELSE observing \cup {ObserverFor(t)}
    BY <1>1, <1>3, <1>4, <1>5, <1>6, <1>7, <1>8
  <1>10. t \in OriginSet /\ k.origin \in OriginSet
    BY <1>3, CanonicalIsServed, GatewayAssumption DEF OriginSet
  <1>11. gatewayNow \in Nat /\ serial \in [OriginSet -> Int] /\ renewedAt \in [OriginSet -> Int] /\ TlsTtl \in Nat
         /\ CacheIsDated(observer[t], t, serial[t], renewedAt[t], gatewayNow)
    BY <1>10, GatewayAssumption DEF GatewayIInv, ClockInv
  <1>12. AskIsTyped(a, gatewayNow)
    BY <1>8, <1>10, <1>11 DEF AskIsTyped
  <1>13. AskIsDated(a, serial, renewedAt)
    <2>1. /\ a.key = key /\ a.observed = seen /\ a.has = has /\ a.at = gatewayNow /\ a.origin = k.origin /\ a.target = t
      BY <1>8
    <2>2. ASSUME NEW x \in key
          PROVE  /\ (Transport = "in-tee-tls") <=> (x # NoKey)
                 /\ Transport = "in-tee-tls" /\ renewedAt[t] + TlsTtl <= gatewayNow => x = KeyOf(t, serial[t])
      <3>1. CASE Transport # "in-tee-tls"
        BY <1>7, <2>2, <3>1
      <3>2. CASE Transport = "in-tee-tls"
        <4>1. PICK e \in observer[t] : gatewayNow - e.at < TlsTtl /\ x = e.key
          BY <1>7, <2>2, <3>2 DEF CachedKey, ObserverFor
        <4>2. e.at \in Int /\ e.key # NoKey /\ (renewedAt[t] < e.at => e.key = KeyOf(t, serial[t]))
          BY <1>11 DEF CacheIsDated
        <4>3. renewedAt[t] \in Int
          BY <1>10, <1>11
        <4>4. renewedAt[t] + TlsTtl <= gatewayNow => renewedAt[t] < e.at
          BY <1>11, <4>1, <4>2, <4>3
        <4> QED BY <3>2, <4>1, <4>2, <4>4
      <3> QED BY <3>1, <3>2
    <2>3. \A x \in seen : x = KeyOf(k.origin, serial[k.origin])
      BY <1>5
    <2>4. "tls" \notin has => Transport = "in-tee-tls"
      BY <1>4, <1>6
    <2> QED BY <2>1, <2>2, <2>3, <2>4 DEF AskIsDated
  <1>14. DOMAIN ask' = Clients /\ \A o \in Clients : ask'[o] = IF o = c THEN a ELSE ask[o]
    BY <1>9 DEF GatewayIInv, AskInv
  <1>15. AskInv'
    BY <1>2, <1>12, <1>13, <1>14, AsksChange
  <1>16. PaperInv'
    BY <1>2, <1>14, PapersStay
  <1>17. ClockInv'
    <2>1. observing' \subseteq OriginSet
      BY <1>9, <1>10 DEF GatewayIInv, ClockInv, ObserverFor
    <2> QED BY <1>2, <2>1, ClockStays
  <1> QED BY <1>15, <1>16, <1>17 DEF GatewayIInv

\* A handshake brings the certificate that is served now.
LEMMA ObservedKeeps ==
    ASSUME GatewayIInv, NEW o \in OriginSet, Observed(o)
    PROVE  GatewayIInv'
  <1>1. PICK key, n : key = KeyOf(o, serial[o]) /\ n = gatewayNow
    OBVIOUS
  <1>2. /\ observer' = [observer EXCEPT ![o] = {[key |-> key, at |-> n]}]
        /\ Arrived(Observers(o), "tls", {key})
        /\ observing' = observing \ {o}
        /\ UNCHANGED <<serial, renewedAt, documents, verdict, gatewayNow>>
    BY <1>1 DEF Observed
  <1>3. key # NoKey
    BY <1>1 DEF KeyOf, NoKey
  <1>4. ASSUME NEW c \in Observers(o)
        PROVE  /\ c \in Clients /\ ask[c].stage = "asked" /\ Transport = "in-tee-tls"
               /\ key = KeyOf(ask[c].target, serial[ask[c].target])
    <2>1. c \in Clients /\ ask[c].stage = "asked" /\ "tls" \notin ask[c].has /\ ask[c].target = o
      BY <1>4 DEF Observers, Waiting, ObserverFor
    <2>2. AskIsDated(ask[c], serial, renewedAt)
      BY <2>1 DEF GatewayIInv, AskInv
    <2> QED BY <1>1, <2>1, <2>2 DEF AskIsDated
  <1>5. AskInv' /\ PaperInv'
    <2>1. PICK cs : cs = Observers(o)
      OBVIOUS
    <2>2. cs \in SUBSET Clients
      BY <2>1 DEF Observers, Waiting
    <2>3. \A c \in cs : ask[c].stage = "asked"
      BY <1>4, <2>1
    <2>4. \A c \in cs : \A k \in {key} : /\ Transport = "in-tee-tls" /\ k # NoKey
                                         /\ k = KeyOf(ask[c].target, serial[ask[c].target])
      BY <1>3, <1>4, <2>1
    <2>5. Arrived(cs, "tls", {key})
      BY <1>2, <2>1
    <2> QED BY <1>2, <2>2, <2>3, <2>4, <2>5, ArrivalKeeps
  <1>6. ClockInv'
    <2>1. DOMAIN observer' = OriginSet /\ \A p \in OriginSet : observer'[p] = IF p = o THEN {[key |-> key, at |-> n]} ELSE observer[p]
      BY <1>2 DEF GatewayIInv, ClockInv
    <2>2. n \in Nat
      BY <1>1 DEF GatewayIInv, ClockInv
    <2>3. ASSUME NEW p \in OriginSet PROVE CacheIsDated(observer'[p], p, serial[p], renewedAt[p], n)
      <3>1. CASE p # o
        BY <1>1, <2>1, <3>1 DEF GatewayIInv, ClockInv
      <3>2. CASE p = o
        <4>1. PICK e : e = [key |-> key, at |-> n]
          OBVIOUS
        <4>2. observer'[p] = {e} /\ e.at = n /\ e.key = key
          BY <2>1, <3>2, <4>1
        <4> QED BY <1>1, <1>3, <2>2, <3>2, <4>2 DEF CacheIsDated
      <3> QED BY <3>1, <3>2
    <2>4. PICK s, t : s = serial /\ t = renewedAt
      OBVIOUS
    <2>5. \A p \in OriginSet : CacheIsDated(observer'[p], p, s[p], t[p], n)
      BY <2>3, <2>4
    <2>6. serial' = s /\ renewedAt' = t /\ gatewayNow' = n
      BY <1>1, <1>2, <2>4
    <2>7. s \in [OriginSet -> Int] /\ t \in [OriginSet -> Int] /\ observing' \subseteq OriginSet
      BY <1>2, <2>4 DEF GatewayIInv, ClockInv
    <2> QED BY <2>1, <2>2, <2>5, <2>6, <2>7 DEF ClockInv, CacheIsDated
  <1> QED BY <1>5, <1>6 DEF GatewayIInv

\* The identity arrives, and what fails fails who waits for it.
LEMMA IdentityKeeps ==
    ASSUME GatewayIInv, IdentityLoads \/ IdentityFails \/ (\E o \in OriginSet : ObservationFails(o)) \/ (\E c \in Clients : QuoteFails(c))
    PROVE  GatewayIInv'
  <1>1. CASE IdentityLoads
    <2>1. Waiting("identity") \in SUBSET Clients /\ \A c \in Waiting("identity") : ask[c].stage = "asked"
      BY DEF Waiting
    <2>2. AskInv' /\ PaperInv'
      BY <1>1, <2>1, ArrivalKeeps DEF IdentityLoads
    <2>3. ClockInv'
      BY <1>1, ClockStays DEF IdentityLoads, GatewayIInv, ClockInv
    <2> QED BY <2>2, <2>3 DEF GatewayIInv
  <1>2. CASE IdentityFails
    <2>1. AskInv' /\ PaperInv'
      BY <1>2, FailKeeps DEF IdentityFails, Waiting
    <2>2. ClockInv'
      BY <1>2, ClockStays DEF IdentityFails, GatewayIInv, ClockInv
    <2> QED BY <2>1, <2>2 DEF GatewayIInv
  <1>3. CASE \E o \in OriginSet : ObservationFails(o)
    <2>1. PICK o \in OriginSet : ObservationFails(o)
      BY <1>3
    <2>2. \A c \in Observers(o) : ask[c].stage = "asked"
      BY DEF Observers, Waiting
    <2>3. AskInv' /\ PaperInv'
      BY <2>1, <2>2, FailKeeps DEF ObservationFails
    <2>4. ClockInv'
      BY <2>1, ClockStays DEF ObservationFails, GatewayIInv, ClockInv
    <2> QED BY <2>3, <2>4 DEF GatewayIInv
  <1>4. CASE \E c \in Clients : QuoteFails(c)
    <2>1. PICK c \in Clients : QuoteFails(c)
      BY <1>4
    <2>2. AskInv' /\ PaperInv'
      BY <2>1, FailKeeps DEF QuoteFails
    <2>3. ClockInv'
      BY <2>1, ClockStays DEF QuoteFails, GatewayIInv, ClockInv
    <2> QED BY <2>2, <2>3 DEF GatewayIInv
  <1> QED BY <1>1, <1>2, <1>3, <1>4

\* A document binds the key its request was given; when that certificate was
\* steady, it is the one the client saw.
LEMMA QuoteKeeps ==
    ASSUME GatewayIInv, NEW c \in Clients, QuoteArrives(c)
    PROVE  GatewayIInv'
  <1>1. PICK b \in identity, k \in ask[c].key :
          documents' = documents \cup
            {[client |-> c, build |-> b, instance |-> deploys, target |-> ask[c].target, key |-> k,
              steady |-> renewedAt[ask[c].target] + TlsTtl <= ask[c].at]}
    BY DEF QuoteArrives
  <1>2. /\ ask[c].stage = "asked" /\ ask' = [ask EXCEPT ![c].stage = "issued"]
        /\ UNCHANGED <<observer, observing, serial, renewedAt, verdict, gatewayNow>>
    BY DEF QuoteArrives
  <1>3. PICK a, s, t : a = ask[c] /\ s = serial /\ t = renewedAt
    OBVIOUS
  <1>4. PICK steady : steady = (t[a.target] + TlsTtl <= a.at)
    OBVIOUS
  <1>5. PICK d : d = [client |-> c, build |-> b, instance |-> deploys, target |-> a.target, key |-> k, steady |-> steady]
    OBVIOUS
  <1>6. PICK ds : ds = documents
    OBVIOUS
  <1>7. documents' = ds \cup {d}
    BY <1>1, <1>3, <1>4, <1>5, <1>6
  <1>8. PICK issued : issued = [a EXCEPT !.stage = "issued"]
    OBVIOUS
  <1>9. DOMAIN ask' = Clients /\ \A o \in Clients : ask'[o] = IF o = c THEN issued ELSE ask[o]
    BY <1>2, <1>3, <1>8 DEF GatewayIInv, AskInv
  <1>10. AskIsTyped(a, gatewayNow) /\ AskIsDated(a, s, t)
    BY <1>2, <1>3 DEF GatewayIInv, AskInv
  <1>11. /\ issued.stage = "issued" /\ DOMAIN issued = DOMAIN a /\ issued.origin = a.origin /\ issued.target = a.target
         /\ issued.at = a.at /\ issued.observed = a.observed
    BY <1>8, <1>10 DEF AskIsTyped
  <1>12. AskInv'
    <2>1. AskIsTyped(issued, gatewayNow)
      BY <1>10, <1>11 DEF AskIsTyped
    <2> QED BY <1>2, <1>9, <1>11, <2>1, AsksChange
  <1>13. Issued(d, issued)
    <2>1. d.target = a.target /\ d.key = k /\ d.steady = steady
      BY <1>5
    <2>2. k \in a.key
      BY <1>1, <1>3
    <2>3. (Transport = "in-tee-tls") <=> (k # NoKey)
      BY <1>10, <2>2 DEF AskIsDated
    <2>4. ASSUME steady, a.target = a.origin, Transport = "in-tee-tls" PROVE a.observed \subseteq {k}
      <3>1. k = KeyOf(a.target, s[a.target])
        BY <1>4, <1>10, <2>2, <2>4 DEF AskIsDated
      <3>2. \A x \in a.observed : x = KeyOf(a.origin, s[a.origin])
        BY <1>4, <1>10, <2>4 DEF AskIsDated
      <3> QED BY <2>4, <3>1, <3>2
    <2> QED BY <1>11, <2>1, <2>3, <2>4 DEF Issued
  <1>14. PaperInv'
    <2>1. PICK q : q = ask'
      OBVIOUS
    <2>2. PICK vs : vs = verdict
      OBVIOUS
    <2>3. verdict' = vs
      BY <1>2, <2>2
    <2>4. d.client = c
      BY <1>5
    <2>5. \A e \in ds : e.client \in Clients /\ Issued(e, ask[e.client])
      BY <1>6 DEF GatewayIInv, PaperInv
    <2>6. \A e \in ds : e.client # c
      BY <1>2, <2>5 DEF Issued
    <2>7. \A e \in ds \cup {d} : e.client \in Clients /\ Issued(e, q[e.client])
      BY <1>9, <1>13, <2>1, <2>4, <2>5, <2>6
    <2>8. \A o \in Clients : \A v \in vs[o] : Judged(v, o, ask[o], ds)
      BY <1>6, <2>2 DEF GatewayIInv, PaperInv
    <2>9. \A o \in Clients : \A v \in vs[o] : o # c
      BY <1>2, <2>8 DEF Judged
    <2>10. \A o \in Clients : \A v \in vs[o] : Judged(v, o, q[o], ds \cup {d})
      BY <1>9, <2>1, <2>8, <2>9 DEF Judged
    <2>11. DOMAIN vs = Clients
      BY <2>2 DEF GatewayIInv, PaperInv
    <2>12. \A e \in documents' : e.client \in Clients /\ Issued(e, ask'[e.client])
      BY <1>7, <2>1, <2>7
    <2>13. \A o \in Clients : \A v \in verdict'[o] : Judged(v, o, ask'[o], documents')
      BY <1>7, <2>1, <2>3, <2>10
    <2> QED BY <2>3, <2>11, <2>12, <2>13 DEF PaperInv, Issued, Judged
  <1>15. ClockInv'
    BY <1>2, ClockStays DEF GatewayIInv, ClockInv
  <1> QED BY <1>12, <1>14, <1>15 DEF GatewayIInv

\* A verdict is the verifier's on two documents, for what the client knows.
LEMMA DecideKeeps ==
    ASSUME GatewayIInv, NEW c \in Clients, ask[c].stage \in {"asked", "issued"},
           NEW d \in documents, NEW quoted \in documents, NEW reprint \in BOOLEAN, NEW chain,
           Decide(c, d, quoted, reprint, chain)
    PROVE  GatewayIInv'
  <1>1. PICK a, ds : a = ask[c] /\ ds = documents
    OBVIOUS
  <1>2. PICK x : x = [nonce |-> c, origin |-> a.origin, observed |-> a.observed, chain |-> chain]
    OBVIOUS
  <1>3. PICK v : v = [failed |-> Verdict(d, quoted, reprint, x), bound |-> d, quoted |-> quoted, reprint |-> reprint, x |-> x]
    OBVIOUS
  <1>4. /\ verdict' = [verdict EXCEPT ![c] = {v}]
        /\ ask' = [ask EXCEPT ![c].stage = "verified"]
        /\ documents' = ds
        /\ UNCHANGED <<observer, observing, serial, renewedAt, gatewayNow>>
    BY <1>1, <1>2, <1>3 DEF Decide, Verdict
  <1>5. PICK done : done = [a EXCEPT !.stage = "verified"]
    OBVIOUS
  <1>6. DOMAIN ask' = Clients /\ \A o \in Clients : ask'[o] = IF o = c THEN done ELSE ask[o]
    BY <1>1, <1>4, <1>5 DEF GatewayIInv, AskInv
  <1>7. AskIsTyped(a, gatewayNow)
    BY <1>1 DEF GatewayIInv, AskInv
  <1>8. /\ done.stage = "verified" /\ DOMAIN done = DOMAIN a /\ done.origin = a.origin /\ done.target = a.target
        /\ done.at = a.at /\ done.observed = a.observed
    BY <1>5, <1>7 DEF AskIsTyped
  <1>9. AskInv'
    <2>1. AskIsTyped(done, gatewayNow)
      BY <1>7, <1>8 DEF AskIsTyped
    <2> QED BY <1>4, <1>6, <1>8, <2>1, AsksChange
  <1>10. Judged(v, c, done, ds)
    <2>1. /\ v.bound = d /\ v.quoted = quoted /\ v.reprint = reprint /\ v.x = x
          /\ v.failed = Verdict(d, quoted, reprint, x)
      BY <1>3
    <2>2. x.nonce = c /\ x.origin = a.origin /\ x.observed = a.observed
      BY <1>2
    <2> QED BY <1>1, <1>8, <2>1, <2>2 DEF Judged
  <1>11. PaperInv'
    <2>1. PICK q, vs : q = ask' /\ vs = verdict
      OBVIOUS
    <2>2. \A e \in ds : e.client \in Clients /\ Issued(e, ask[e.client])
      BY <1>1 DEF GatewayIInv, PaperInv
    <2>3. \A e \in ds : Issued(e, q[e.client])
      <3>1. TAKE e \in ds
      <3>2. e.client \in Clients /\ Issued(e, ask[e.client])
        BY <2>2
      <3>3. CASE e.client = c
        BY <1>1, <1>6, <1>8, <2>1, <3>2, <3>3 DEF Issued
      <3>4. CASE e.client # c
        BY <1>6, <2>1, <3>2, <3>4
      <3> QED BY <3>3, <3>4
    <2>4. DOMAIN vs = Clients /\ \A o \in Clients : \A w \in vs[o] : Judged(w, o, ask[o], ds)
      BY <1>1, <2>1 DEF GatewayIInv, PaperInv
    <2>5. DOMAIN verdict' = Clients /\ \A o \in Clients : verdict'[o] = IF o = c THEN {v} ELSE vs[o]
      BY <1>4, <2>1, <2>4
    <2>6. \A o \in Clients : \A w \in verdict'[o] : Judged(w, o, q[o], ds)
      BY <1>6, <1>10, <2>1, <2>4, <2>5
    <2>7. \A e \in documents' : e.client \in Clients /\ Issued(e, ask'[e.client])
      BY <1>4, <2>1, <2>2, <2>3
    <2>8. \A o \in Clients : \A w \in verdict'[o] : Judged(w, o, ask'[o], documents')
      BY <1>4, <2>1, <2>6
    <2> QED BY <2>5, <2>7, <2>8 DEF PaperInv, Issued, Judged
  <1>12. ClockInv'
    BY <1>4, ClockStays DEF GatewayIInv, ClockInv
  <1> QED BY <1>9, <1>11, <1>12 DEF GatewayIInv

\* A renewal makes everything that was cached or asked before it undated.
LEMMA RenewKeeps ==
    ASSUME GatewayIInv, NEW o \in OriginSet, RenewCertificate(o)
    PROVE  GatewayIInv'
  <1>1. PICK n : n = gatewayNow
    OBVIOUS
  <1>2. /\ serial' = [serial EXCEPT ![o] = @ + 1]
        /\ renewedAt' = [renewedAt EXCEPT ![o] = n]
        /\ UNCHANGED <<observer, observing, ask, documents, verdict, gatewayNow>>
    BY <1>1 DEF RenewCertificate
  <1>3. n \in Nat /\ TlsTtl \in Nat \ {0}
    BY <1>1, GatewayAssumption DEF GatewayIInv, ClockInv
  <1>4. PICK s, t : s = serial' /\ t = renewedAt'
    OBVIOUS
  <1>5. /\ s \in [OriginSet -> Int] /\ t \in [OriginSet -> Int]
        /\ \A p \in OriginSet : IF p = o THEN t[p] = n ELSE t[p] = renewedAt[p] /\ s[p] = serial[p]
    BY <1>2, <1>3, <1>4 DEF GatewayIInv, ClockInv
  <1>6. ClockInv'
    <2>1. ASSUME NEW p \in OriginSet PROVE CacheIsDated(observer[p], p, s[p], t[p], n)
      <3>1. CacheIsDated(observer[p], p, serial[p], renewedAt[p], n)
        BY <1>1 DEF GatewayIInv, ClockInv
      <3> QED BY <1>3, <1>5, <3>1 DEF CacheIsDated
    <2>2. PICK w : w = observer
      OBVIOUS
    <2>3. observer' = w /\ serial' = s /\ renewedAt' = t /\ gatewayNow' = n /\ DOMAIN w = OriginSet /\ observing' \subseteq OriginSet
      BY <1>1, <1>2, <1>4, <2>2 DEF GatewayIInv, ClockInv
    <2>4. \A p \in OriginSet : CacheIsDated(w[p], p, s[p], t[p], n)
      BY <2>1, <2>2
    <2> QED BY <1>3, <1>5, <2>3, <2>4 DEF ClockInv, CacheIsDated
  <1>7. AskInv'
    <2>1. ASSUME NEW c \in Clients, ask[c].stage = "asked" PROVE AskIsDated(ask[c], s, t)
      <3>1. PICK a : a = ask[c]
        OBVIOUS
      <3>2. AskIsDated(a, serial, renewedAt) /\ a.origin \in OriginSet /\ a.target \in OriginSet /\ a.at \in Int /\ a.at <= n
        BY <1>1, <2>1, <3>1 DEF GatewayIInv, AskInv, AskIsTyped
      <3>3. ~(n + TlsTtl <= a.at)
        BY <1>3, <3>2
      <3>4. AskIsDated(a, s, t)
        BY <1>5, <3>2, <3>3 DEF AskIsDated
      <3> QED BY <3>1, <3>4
    <2>2. PICK q : q = ask
      OBVIOUS
    <2>3. ask' = q /\ serial' = s /\ renewedAt' = t /\ gatewayNow' = n
      BY <1>1, <1>2, <1>4, <2>2
    <2>4. DOMAIN q = Clients /\ \A c \in Clients : AskIsTyped(q[c], n) /\ (q[c].stage = "asked" => AskIsDated(q[c], s, t))
      BY <1>1, <2>1, <2>2 DEF GatewayIInv, AskInv
    <2> QED BY <2>3, <2>4 DEF AskInv, AskIsTyped, AskIsDated
  <1>8. PaperInv'
    BY <1>2, PapersStay
  <1> QED BY <1>6, <1>7, <1>8 DEF GatewayIInv

\* A deployment forgets what was cached and fails who waits.
LEMMA RedeployKeeps ==
    ASSUME GatewayIInv, Redeploy
    PROVE  GatewayIInv'
  <1>1. /\ observer' = [o \in OriginSet |-> {}] /\ observing' = {}
        /\ FailAsks({c \in Clients : ask[c].stage = "asked"})
        /\ UNCHANGED <<serial, renewedAt, documents, verdict, gatewayNow>>
    BY DEF Redeploy
  <1>2. PICK cs : cs = {c \in Clients : ask[c].stage = "asked"}
    OBVIOUS
  <1>3. AskInv' /\ PaperInv'
    BY <1>1, <1>2, FailKeeps
  <1>4. ClockInv'
    BY <1>1 DEF GatewayIInv, ClockInv, CacheIsDated
  <1> QED BY <1>3, <1>4 DEF GatewayIInv

\* Time passes.
LEMMA TickKeeps ==
    ASSUME GatewayIInv, GatewayTick
    PROVE  GatewayIInv'
  <1>1. PICK n : n = gatewayNow
    OBVIOUS
  <1>2. /\ gatewayNow' = n + 1 /\ n \in Nat
        /\ UNCHANGED <<observer, observing, serial, renewedAt, ask, documents, verdict>>
    BY <1>1 DEF GatewayTick, GatewayIInv, ClockInv
  <1>3. ClockInv'
    <2>1. \A o \in OriginSet : CacheIsDated(observer[o], o, serial[o], renewedAt[o], n + 1)
      BY <1>1, <1>2 DEF GatewayIInv, ClockInv, CacheIsDated
    <2>2. PICK w, s, t : w = observer /\ s = serial /\ t = renewedAt
      OBVIOUS
    <2>3. observer' = w /\ serial' = s /\ renewedAt' = t
      BY <1>2, <2>2
    <2>4. \A o \in OriginSet : CacheIsDated(w[o], o, s[o], t[o], n + 1)
      BY <2>1, <2>2
    <2>5. /\ s \in [OriginSet -> Int] /\ t \in [OriginSet -> Int] /\ DOMAIN w = OriginSet
          /\ observing' \subseteq OriginSet
      BY <1>2, <2>2 DEF GatewayIInv, ClockInv
    <2>6. n + 1 \in Nat
      BY <1>2
    <2> QED BY <1>2, <2>3, <2>4, <2>5, <2>6 DEF ClockInv, CacheIsDated
  <1>4. AskInv'
    <2>1. \A c \in Clients : AskIsTyped(ask[c], n + 1) /\ (ask[c].stage = "asked" => AskIsDated(ask[c], serial, renewedAt))
      BY <1>1, <1>2 DEF GatewayIInv, AskInv, AskIsTyped
    <2>2. PICK q, s, t : q = ask /\ s = serial /\ t = renewedAt
      OBVIOUS
    <2>3. ask' = q /\ serial' = s /\ renewedAt' = t
      BY <1>2, <2>2
    <2>4. DOMAIN q = Clients /\ \A c \in Clients : AskIsTyped(q[c], n + 1) /\ (q[c].stage = "asked" => AskIsDated(q[c], s, t))
      BY <2>1, <2>2 DEF GatewayIInv, AskInv
    <2> QED BY <1>2, <2>3, <2>4 DEF AskInv, AskIsTyped, AskIsDated
  <1>5. PaperInv'
    BY <1>2, PapersStay
  <1> QED BY <1>3, <1>4, <1>5 DEF GatewayIInv

\* The invariant gives both halves: an accepted verdict's quote is of a document
\* made for the client, and an intact document of a reviewed build passes.
LEMMA VerdictsAreExact ==
    ASSUME GatewayIInv
    PROVE  AcceptanceIsExact
  <1>1. ASSUME NEW c \in Clients, NEW v \in verdict[c], v.failed = {}
        PROVE  \E d \in documents :
                 /\ d.client = c
                 /\ Binding(v.bound) = Binding(d) /\ GetQuote(v.quoted) = GetQuote(d)
                 /\ d.build.compose \in Pinned.composes /\ ~d.build.debug
                 /\ Pinned.inTeeTls => v.x.observed \subseteq {d.key}
    <2>1. Judged(v, c, ask[c], documents)
      BY DEF GatewayIInv, PaperInv
    <2>2. v.quoted \in documents /\ v.reprint \in BOOLEAN /\ v.x.nonce = c
          /\ Verdict(v.bound, v.quoted, v.reprint, v.x) = {}
      BY <1>1, <2>1 DEF Judged
    <2>3. /\ Binding(v.bound) = Binding(v.quoted)
          /\ v.quoted.client = c
          /\ ~v.quoted.build.debug
          /\ v.quoted.build.compose \in Pinned.composes
          /\ Pinned.inTeeTls => v.x.observed \subseteq {v.quoted.key}
      BY <2>2, AcceptedIsQuoted
    <2> QED BY <2>2, <2>3
  <1>2. ASSUME NEW c \in Clients, NEW v \in verdict[c],
               v.bound.client = c, v.quoted = v.bound, ~v.reprint, Reviewed(v.bound.build),
               ask[c].target = ask[c].origin, v.bound.steady, v.x.chain = "good"
        PROVE  v.failed = {}
    <2>1. Judged(v, c, ask[c], documents)
      BY DEF GatewayIInv, PaperInv
    <2>2. PICK d, x, a : d = v.bound /\ x = v.x /\ a = ask[c]
      OBVIOUS
    <2>3. d \in documents /\ v.reprint = FALSE /\ x.nonce = c /\ x.origin = a.origin /\ x.observed = a.observed
          /\ v.failed = Verdict(d, d, FALSE, x)
      BY <1>2, <2>1, <2>2 DEF Judged
    <2>4. Issued(d, a)
      BY <1>2, <2>2, <2>3 DEF GatewayIInv, PaperInv
    <2>5. d.target = a.target /\ ((Transport = "in-tee-tls") <=> (d.key # NoKey))
          /\ (Transport = "in-tee-tls" => x.observed \subseteq {d.key})
      BY <1>2, <2>2, <2>3, <2>4 DEF Issued
    <2>6. a.target \in OriginSet
      BY <2>2 DEF GatewayIInv, AskInv, AskIsTyped
    <2>7. Reviewed(d.build) /\ x.nonce = d.client /\ x.origin = d.target /\ x.chain = "good"
      BY <1>2, <2>2, <2>3, <2>5
    <2> QED BY <2>3, <2>5, <2>6, <2>7, IntactPasses
  <1> QED BY <1>1, <1>2 DEF AcceptanceIsExact, AcceptedIsMeasured, IntactIsAccepted

\* Acceptance is exact for any clients, builds, origins, connections, renewals and
\* deployments, and for any policy released with the deployment.
THEOREM AcceptanceStaysExact == GatewaySpec => []AcceptanceIsExact
  <1>1. GatewayInit => GatewayIInv
    <2> SUFFICES ASSUME GatewayInit PROVE GatewayIInv
      OBVIOUS
    <2>1. TlsTtl \in Nat
      BY GatewayAssumption
    <2>2. ClockInv
      BY <2>1 DEF GatewayInit, ClockInv, CacheIsDated
    <2>3. AskInv
      <3>1. PICK u : u = Unasked
        OBVIOUS
      <3>2. PICK o : o = GatewayOrigins[1]
        OBVIOUS
      <3>3. u = [stage |-> "idle", origin |-> o, target |-> o, observed |-> {}, at |-> 0, has |-> {}, key |-> {}]
        BY <3>1, <3>2 DEF Unasked
      <3>4. AskIsTyped(u, 0) /\ u.stage # "asked"
        BY <3>2, <3>3, CanonicalIsServed DEF AskIsTyped
      <3>5. gatewayNow = 0 /\ ask = [c \in Clients |-> u]
        BY <3>1 DEF GatewayInit
      <3> QED BY <3>4, <3>5 DEF AskInv
    <2>4. PaperInv
      BY DEF GatewayInit, PaperInv
    <2> QED BY <2>2, <2>3, <2>4 DEF GatewayIInv
  <1>2. GatewayIInv /\ [GatewayNext]_gatewayVars => GatewayIInv'
    <2> SUFFICES ASSUME GatewayIInv, [GatewayNext]_gatewayVars PROVE GatewayIInv'
      OBVIOUS
    <2>1. ASSUME NEW c \in Clients, VerifyIntact(c) PROVE GatewayIInv'
      <3>1. PICK d \in documents, chain \in Chains : Decide(c, d, d, FALSE, chain)
        BY <2>1 DEF VerifyIntact
      <3>2. ask[c].stage \in {"asked", "issued"}
        BY <2>1 DEF VerifyIntact
      <3> QED BY <3>1, <3>2, DecideKeeps
    <2>2. ASSUME NEW c \in Clients, VerifyMixed(c) PROVE GatewayIInv'
      <3>1. PICK d1 \in documents, d2 \in documents, chain \in Chains, reprint \in BOOLEAN : Decide(c, d1, d2, reprint, chain)
        BY <2>2 DEF VerifyMixed
      <3>2. ask[c].stage \in {"asked", "issued"}
        BY <2>2 DEF VerifyMixed
      <3> QED BY <3>1, <3>2, DecideKeeps
    <2>3. CASE UNCHANGED gatewayVars
      BY <2>3 DEF gatewayVars, GatewayIInv, ClockInv, AskInv, PaperInv, CacheIsDated, AskIsTyped, AskIsDated, Issued, Judged
    <2> QED BY <2>1, <2>2, <2>3, AttestKeeps, QuoteKeeps, ObservedKeeps, IdentityKeeps, RenewKeeps, RedeployKeeps, TickKeeps DEF GatewayNext
  <1> QED BY <1>1, <1>2, VerdictsAreExact, PTL DEF GatewaySpec

-----------------------------------------------------------------------------
\* Provider listings: what each normalizer says of the class of a row.

ListingSpec == ListingInit /\ [][ListingNext]_listingVars

\* What a callable row of any provider promises by itself.
Earned(r) ==
    /\ r.class \in {"tee", "e2ee"} => Attests(r)
    /\ r.class = "private" => NamesOneProcessor(r)

LEMMA DeepInfraEarns ==
    ASSUME NEW l \in Published["deepinfra"], "deepinfra" \in DOMAIN Published,
           NEW r \in NormalizeDeepInfra(l)
    PROVE  r.provider = "deepinfra" /\ Earned(r)
  <1>1. PICK n \in DOMAIN l : Discovered(l[n]) /\ r = DeepInfraRow(l[n])
    BY DEF NormalizeDeepInfra
  <1>2. l[n].partner \in {"yes", "no"}
    BY <1>1, ListingsAssumption DEF Discovered
  <1>3. r.provider = "deepinfra" /\ r.class = DeepInfraClass(l[n]) /\ r.from = l[n]
    BY <1>1 DEF DeepInfraRow, Route0
  <1>4. Earned(r)
    BY <1>2, <1>3 DEF Earned, DeepInfraClass, NamesOneProcessor
  <1> QED BY <1>3, <1>4

LEMMA PhalaEarns ==
    ASSUME NEW l \in Published["phala-ai"], "phala-ai" \in DOMAIN Published,
           NEW r \in NormalizePhala(l)
    PROVE  r.provider = "phala-ai" /\ (CanBeCalled(r) => Earned(r))
  <1>1. PICK n \in DOMAIN l : "phala" \in l[n].upstreams /\ r = PhalaRow(l[n])
    BY DEF NormalizePhala
  <1>2. r.provider = "phala-ai" /\ r.class = "private" /\ r.from = l[n]
        /\ r.online = ~(PhalaHolds[l[n].id] \/ Cardinality(l[n].upstreams) > 1)
    BY <1>1 DEF PhalaRow, Route0
  <1>3. ASSUME CanBeCalled(r) PROVE Earned(r)
    <2>1. ~(Cardinality(l[n].upstreams) > 1)
      BY <1>2, <1>3 DEF CanBeCalled
    <2>2. IsFiniteSet(l[n].upstreams)
      BY ListingsAssumption
    <2>3. Cardinality(l[n].upstreams) \in Nat
      BY <2>2, FS_CardinalityType
    <2>4. Cardinality({"phala"}) = 1 /\ IsFiniteSet({"phala"})
      BY FS_Singleton
    <2>5. {"phala"} \subseteq l[n].upstreams
      BY <1>1
    <2>6. l[n].upstreams = {"phala"}
      BY <2>1, <2>2, <2>3, <2>4, <2>5, FS_Subset
    <2> QED BY <1>2, <2>6 DEF Earned, NamesOneProcessor
  <1> QED BY <1>2, <1>3

LEMMA ChutesEarns ==
    ASSUME NEW l, NEW r \in NormalizeChutes(l)
    PROVE  r.provider = "chutes" /\ Earned(r)
  <1>1. PICK n \in DOMAIN l : r = ChutesRow(l[n])
    BY DEF NormalizeChutes
  <1>2. r.provider = "chutes" /\ r.from = l[n]
        /\ r.class = (IF ~l[n].confidential THEN "private" ELSE IF ChutesApproved[l[n].id].embedding THEN "tee" ELSE "e2ee")
    BY <1>1 DEF ChutesRow, Route0
  <1>3. Earned(r)
    BY <1>2 DEF Earned, Attests, NamesOneProcessor
  <1> QED BY <1>2, <1>3

LEMMA TinfoilEarns ==
    ASSUME NEW l, NEW r \in NormalizeTinfoil(l)
    PROVE  r.provider = "tinfoil" /\ Earned(r)
  <1>1. PICK n \in DOMAIN l : r = TinfoilRow(l[n])
    BY DEF NormalizeTinfoil
  <1>2. r.provider = "tinfoil" /\ r.class = "tee"
    BY <1>1 DEF TinfoilRow, Route0
  <1>3. Earned(r)
    BY <1>2 DEF Earned, Attests
  <1> QED BY <1>2, <1>3

LEMMA FireworksEarns ==
    ASSUME NEW l, NEW r \in NormalizeFireworks(l)
    PROVE  r.provider = "fireworks" /\ Earned(r)
  <1>1. PICK n \in DOMAIN l : r = FireworksRow(l[n])
    BY DEF NormalizeFireworks
  <1>2. r.provider = "fireworks" /\ r.class = "private"
    BY <1>1 DEF FireworksRow, Route0
  <1>3. Earned(r)
    BY <1>2 DEF Earned, NamesOneProcessor
  <1> QED BY <1>2, <1>3

LEMMA BedrockEarns ==
    ASSUME NEW l, NEW r \in NormalizeBedrock(l)
    PROVE  r.provider = "aws-bedrock" /\ Earned(r)
  <1>1. PICK n \in DOMAIN l : IsEffectiveNone(l[n]) /\ r = BedrockRow(l[n])
    BY DEF NormalizeBedrock
  <1>2. r.provider = "aws-bedrock" /\ r.class = "private" /\ r.from = l[n]
    BY <1>1 DEF BedrockRow, Route0
  <1>3. l[n].mode = "none"
    BY <1>1 DEF IsEffectiveNone
  <1>4. Earned(r)
    BY <1>2, <1>3 DEF Earned, NamesOneProcessor
  <1> QED BY <1>2, <1>4

LEMMA VeniceEarns ==
    ASSUME NEW l, NEW r \in NormalizeVenice(l)
    PROVE  r.provider = "venice" /\ Earned(r)
  <1>1. PICK n \in DOMAIN l : r = VeniceRow(l[n])
    BY DEF NormalizeVenice
  <1>2. r.provider = "venice" /\ r.class = ClassifyPrivacy(l[n]) /\ r.from = l[n]
    BY <1>1 DEF VeniceRow, Route0
  <1>3. Earned(r)
    BY <1>2 DEF Earned, Attests, NamesOneProcessor, ClassifyPrivacy
  <1> QED BY <1>2, <1>3

-----------------------------------------------------------------------------
\* NEAR: a direct row is confidential and backed by its owner; a relayed one is
\* anonymous, and the only row of its native id.

LEMMA DirectRowEarns ==
    ASSUME NEW e, e.owner \notin NearRelayOwners
    PROVE  /\ NearDirectRow(e).provider = "near-ai" /\ NearDirectRow(e).id = e.id
           /\ NearDirectRow(e).class \in {"e2ee", "tee"}
           /\ Earned(NearDirectRow(e))
  <1> DEFINE r == NearDirectRow(e)
  <1>1. r.provider = "near-ai" /\ r.id = e.id /\ r.class = (IF NearApproved[e.id] = "direct-tee" THEN "e2ee" ELSE "tee") /\ r.from = e
    BY DEF NearDirectRow, Route0
  <1> HIDE DEF r
  <1>2. Earned(r)
    BY <1>1 DEF Earned, Attests
  <1>3. r.class \in {"e2ee", "tee"}
    BY <1>1
  <1>4. r.provider = "near-ai" /\ r.id = e.id /\ r.class \in {"e2ee", "tee"} /\ Earned(r)
    BY <1>1, <1>2, <1>3
  <1> QED BY <1>4 DEF r

\* The families of the relay.
RelayFamilyNames == {"anthropic", "openai", "google", "x-ai", "deepseek-openrouter", "qwen"}

LEMMA FamiliesAreKnown ==
    ASSUME NEW e, RelayAdmits(e)
    PROVE  /\ RelayRoutes[e.id].family \in RelayFamilyNames
           /\ e.id \in DOMAIN RelayRoutes /\ e.owner = RelayRoutes[e.id].owner
           /\ e.owner = "anthropic" => RelayRoutes[e.id].family = "anthropic"
           /\ NearRelayFamilies[RelayRoutes[e.id].family].class = "anonymous"
           /\ NearRelayFamilies[RelayRoutes[e.id].family].caching \in {"automatic", "unavailable"}
           /\ RelayRoutes[e.id].family = "anthropic" => NearRelayFamilies[RelayRoutes[e.id].family].caching = "unavailable"
  <1>1. e.id \in DOMAIN RelayRoutes /\ e.owner = RelayRoutes[e.id].owner
    BY DEF RelayAdmits
  <1>2. RelayRoutes[e.id].family \in RelayFamilyNames
        /\ (RelayRoutes[e.id].owner = "anthropic" => RelayRoutes[e.id].family = "anthropic")
    BY <1>1, ListingsAssumption DEF RelayFamilyNames
  <1>3. \A f \in RelayFamilyNames :
            NearRelayFamilies[f] = [class |-> "anonymous", caching |-> IF f \in {"anthropic", "google"} THEN "unavailable" ELSE "automatic"]
    BY DEF NearRelayFamilies, RelayFamilyNames
  <1>4. PICK f \in RelayFamilyNames : f = RelayRoutes[e.id].family
    BY <1>2
  <1>5. /\ NearRelayFamilies[f].class = "anonymous"
        /\ NearRelayFamilies[f].caching \in {"automatic", "unavailable"}
        /\ f = "anthropic" => NearRelayFamilies[f].caching = "unavailable"
    <2>1. PICK c : c = (IF f \in {"anthropic", "google"} THEN "unavailable" ELSE "automatic")
      OBVIOUS
    <2>2. NearRelayFamilies[f] = [class |-> "anonymous", caching |-> c]
      BY <1>3, <2>1
    <2> QED BY <2>1, <2>2
  <1>6. /\ NearRelayFamilies[RelayRoutes[e.id].family].class = "anonymous"
        /\ NearRelayFamilies[RelayRoutes[e.id].family].caching \in {"automatic", "unavailable"}
        /\ RelayRoutes[e.id].family = "anthropic" => NearRelayFamilies[RelayRoutes[e.id].family].caching = "unavailable"
    BY <1>4, <1>5
  <1> QED BY <1>1, <1>2, <1>6

LEMMA RelayRowEarns ==
    ASSUME NEW e, RelayAdmits(e)
    PROVE  /\ RelayRow(e).provider = "near-ai" /\ RelayRow(e).id = e.id /\ RelayRow(e).from = e
           /\ RelayRow(e).class = "anonymous"
           /\ Earned(RelayRow(e))
  <1> DEFINE r == RelayRow(e)
  <1>1. r.provider = "near-ai" /\ r.id = e.id /\ r.from = e /\ r.class = NearRelayFamilies[RelayRoutes[e.id].family].class
    BY DEF RelayRow, Route0
  <1> HIDE DEF r
  <1>2. r.class = "anonymous"
    BY <1>1, FamiliesAreKnown
  <1>3. Earned(r)
    BY <1>2 DEF Earned
  <1>4. r.provider = "near-ai" /\ r.id = e.id /\ r.from = e /\ r.class = "anonymous" /\ Earned(r)
    BY <1>1, <1>2, <1>3
  <1> QED BY <1>4 DEF r

\* The rows of NEAR that are not relayed, and those that are.
DirectRows(l) ==
    {NearDirectRow(l[n]) : n \in {n \in DOMAIN l : l[n].id \in DOMAIN NearApproved /\ l[n].owner \notin NearRelayOwners}}
DirectIds(l) == {r.id : r \in DirectRows(l)}

LEMMA DirectRowIsDirect ==
    ASSUME NEW l, NEW r \in DirectRows(l)
    PROVE  r.provider = "near-ai" /\ r.class \in {"e2ee", "tee"} /\ Earned(r) /\ r.id \in DirectIds(l)
  <1>1. PICK n \in DOMAIN l : l[n].owner \notin NearRelayOwners /\ r = NearDirectRow(l[n])
    BY DEF DirectRows
  <1>2. r.id \in DirectIds(l)
    BY DEF DirectIds
  <1> QED BY <1>1, <1>2, DirectRowEarns

LEMMA RelayedRowIsRelayed ==
    ASSUME NEW l, NEW excluded, NEW r \in NormalizeNearRelay(l, excluded)
    PROVE  \E n \in DOMAIN l :
              /\ RelayAdmits(l[n]) /\ l[n].id \notin excluded /\ r = RelayRow(l[n])
              /\ ~\E m \in 1..(n - 1) : RelayAdmits(l[m]) /\ l[m].id = l[n].id
              /\ r.provider = "near-ai" /\ r.class = "anonymous" /\ Earned(r) /\ r.id = l[n].id
  <1>1. PICK n \in DOMAIN l : /\ RelayAdmits(l[n]) /\ l[n].id \notin excluded /\ r = RelayRow(l[n])
                              /\ ~\E m \in 1..(n - 1) : RelayAdmits(l[m]) /\ l[m].id = l[n].id
    BY DEF NormalizeNearRelay
  <1> QED BY <1>1, RelayRowEarns

\* The first entry of an id that is let through is one entry.
LEMMA RelayedRowIsUnique ==
    ASSUME "near-ai" \in DOMAIN Published, NEW l \in Published["near-ai"], NEW excluded,
           NEW r \in NormalizeNearRelay(l, excluded), NEW o \in NormalizeNearRelay(l, excluded), o.id = r.id
    PROVE  o = r
  <1>1. PICK n \in DOMAIN l : /\ RelayAdmits(l[n]) /\ r = RelayRow(l[n]) /\ r.id = l[n].id
                              /\ ~\E m \in 1..(n - 1) : RelayAdmits(l[m]) /\ l[m].id = l[n].id
    BY RelayedRowIsRelayed
  <1>2. PICK k \in DOMAIN l : /\ RelayAdmits(l[k]) /\ o = RelayRow(l[k]) /\ o.id = l[k].id
                              /\ ~\E m \in 1..(k - 1) : RelayAdmits(l[m]) /\ l[m].id = l[k].id
    BY RelayedRowIsRelayed
  <1>3. DOMAIN l = 1..Len(l) /\ Len(l) \in Nat
    BY ListingsAssumption
  <1>4. n \in Nat /\ k \in Nat /\ n >= 1 /\ k >= 1
    BY <1>3
  <1>5. k \notin 1..(n - 1) /\ n \notin 1..(k - 1)
    BY <1>1, <1>2
  <1>6. n = k
    BY <1>4, <1>5
  <1> QED BY <1>1, <1>2, <1>6

LEMMA NearEarns ==
    ASSUME "near-ai" \in DOMAIN Published, NEW l \in Published["near-ai"],
           NEW r \in NormalizeNear(l)
    PROVE  /\ r.provider = "near-ai" /\ Earned(r)
           /\ \A o \in NormalizeNear(l) : o.id = r.id /\ "anonymous" \in {r.class, o.class} => o = r
  <1> DEFINE R == NormalizeNearRelay(l, DirectIds(l))
  <1>1. NormalizeNear(l) = DirectRows(l) \cup R
    BY DEF NormalizeNear, DirectRows, DirectIds
  <1>2. \A s \in DirectRows(l) : s.provider = "near-ai" /\ s.class \in {"e2ee", "tee"} /\ Earned(s) /\ s.id \in DirectIds(l)
    BY DirectRowIsDirect
  <1>3. \A s \in R : s.provider = "near-ai" /\ Earned(s) /\ s.id \notin DirectIds(l)
    BY RelayedRowIsRelayed
  <1>4. \A s \in R, o \in R : o.id = s.id => o = s
    BY RelayedRowIsUnique
  <1> HIDE DEF R
  <1> QED BY <1>1, <1>2, <1>3, <1>4

\* Whatever a provider publishes, a callable row of it has earned its class, and
\* of NEAR's a relayed id is one row.
EarnedRows(S) ==
    \A r \in S : CanBeCalled(r) =>
        Earned(r) /\ \A o \in S : r.provider = "near-ai" /\ o.id = r.id /\ "anonymous" \in {r.class, o.class} => o = r

\* Only NEAR's normalizer makes NEAR's rows.
EarnedProvider(p, l) == \A r \in Normalize(p, l) : r.provider = "near-ai" => p = "near-ai"

LEMMA NormalizedIsOfProvider ==
    ASSUME NEW p \in DOMAIN Published, NEW l \in Published[p]
    PROVE  EarnedProvider(p, l)
  <1> SUFFICES ASSUME NEW r \in Normalize(p, l), p # "near-ai" PROVE r.provider # "near-ai"
    BY DEF EarnedProvider
  <1>2. CASE p = "deepinfra"
    BY <1>2, DeepInfraEarns DEF Normalize
  <1>3. CASE p = "phala-ai"
    BY <1>3, PhalaEarns DEF Normalize
  <1>4. CASE p = "chutes"
    BY <1>4, ChutesEarns DEF Normalize
  <1>5. CASE p = "tinfoil"
    BY <1>5, TinfoilEarns DEF Normalize
  <1>6. CASE p = "fireworks"
    BY <1>6, FireworksEarns DEF Normalize
  <1>7. CASE p = "aws-bedrock"
    BY <1>7, BedrockEarns DEF Normalize
  <1>8. CASE p \notin {"near-ai", "deepinfra", "phala-ai", "chutes", "tinfoil", "fireworks", "aws-bedrock"}
    BY <1>8, VeniceEarns DEF Normalize
  <1> QED BY <1>2, <1>3, <1>4, <1>5, <1>6, <1>7, <1>8

LEMMA NormalizedIsEarned ==
    ASSUME NEW p \in DOMAIN Published, NEW l \in Published[p]
    PROVE  EarnedRows(Normalize(p, l))
  <1> SUFFICES ASSUME NEW r \in Normalize(p, l), CanBeCalled(r)
               PROVE  Earned(r) /\ \A o \in Normalize(p, l) :
                          r.provider = "near-ai" /\ o.id = r.id /\ "anonymous" \in {r.class, o.class} => o = r
    BY DEF EarnedRows
  <1>1. CASE p = "near-ai"
    BY <1>1, NearEarns DEF Normalize
  <1>2. CASE p = "deepinfra"
    BY <1>2, DeepInfraEarns DEF Normalize
  <1>3. CASE p = "phala-ai"
    BY <1>3, PhalaEarns DEF Normalize
  <1>4. CASE p = "chutes"
    BY <1>4, ChutesEarns DEF Normalize
  <1>5. CASE p = "tinfoil"
    BY <1>5, TinfoilEarns DEF Normalize
  <1>6. CASE p = "fireworks"
    BY <1>6, FireworksEarns DEF Normalize
  <1>7. CASE p = "aws-bedrock"
    BY <1>7, BedrockEarns DEF Normalize
  <1>8. CASE p \notin {"near-ai", "deepinfra", "phala-ai", "chutes", "tinfoil", "fireworks", "aws-bedrock"}
    BY <1>8, VeniceEarns DEF Normalize
  <1> QED BY <1>1, <1>2, <1>3, <1>4, <1>5, <1>6, <1>7, <1>8

-----------------------------------------------------------------------------
\* A relayed request: in the tier its route is billed at, and with a body the
\* live entry takes.

LEMMA RelayRowFields ==
    ASSUME NEW e
    PROVE  /\ RelayRow(e).type = "text" /\ RelayRow(e).context = RelayContext(e)
           /\ RelayRow(e).in = AboveZero(e.in) /\ RelayRow(e).out = AboveZero(e.out)
           /\ RelayRow(e).read = (IF NearRelayFamilies[RelayRoutes[e.id].family].caching = "automatic" THEN PerToken(e.read) ELSE Absent)
           /\ RelayRow(e).write = (IF NearRelayFamilies[RelayRoutes[e.id].family].caching = "automatic" THEN DefaultTier(e).write ELSE Absent)
           /\ RelayRow(e).reviewed = IsReviewedNearRelayEntry(e)
  BY DEF RelayRow, Route0

\* The context is capped at every threshold somebody prices by.
LEMMA ContextIsCapped ==
    ASSUME NEW e, IsNearEntry(e), RelayContext(e) > 0
    PROVE  /\ ~DefaultTier(e).open /\ RelayContext(e) \in Nat
           /\ DefaultTier(e).threshold # Absent => RelayContext(e) <= DefaultTier(e).threshold
           /\ e.id \in TieredUpstream => RelayContext(e) <= UpstreamBase
  <1> DEFINE t == DefaultTier(e).threshold
             u == UpstreamThreshold(e.id)
             S == ({t, u} \ {Absent}) \cup {e.context}
  <1>1. e.context \in Int /\ e.threshold \in Int /\ e.long \in BOOLEAN
    BY DEF IsNearEntry
  <1>2. UpstreamBase \in Nat
    BY ListingsAssumption
  <1>3. t \in Int /\ (t # Absent => t > 0)
    BY <1>1 DEF DefaultTier, AboveZero, Absent
  <1>4. u \in Int /\ (u # Absent => u \in Nat) /\ (e.id \in TieredUpstream => u = UpstreamBase)
    BY <1>2 DEF UpstreamThreshold, Absent
  <1>5. RelayContext(e) = IF AboveZero(e.context) = Absent \/ DefaultTier(e).open THEN Absent
                          ELSE CHOOSE x \in S : \A c \in S : x <= c
    BY DEF RelayContext
  <1>6. ~DefaultTier(e).open /\ AboveZero(e.context) # Absent /\ RelayContext(e) = CHOOSE x \in S : \A c \in S : x <= c
    BY <1>5 DEF Absent
  <1>7. e.context \in Nat
    BY <1>1, <1>6 DEF AboveZero, Absent
  <1>8. S \in SUBSET Nat /\ S # {}
    BY <1>3, <1>4, <1>7 DEF Absent
  <1>9. (t # Absent => t \in S) /\ (u # Absent => u \in S)
    OBVIOUS
  <1> HIDE DEF S
  <1>10. RelayContext(e) \in S /\ \A c \in S : RelayContext(e) <= c
    BY <1>6, <1>8, LeastNatural
  <1>11. UpstreamBase # Absent
    BY <1>2 DEF Absent
  <1> HIDE DEF t, u
  <1>12. t # Absent => RelayContext(e) <= t
    BY <1>9, <1>10
  <1>13. e.id \in TieredUpstream => RelayContext(e) <= UpstreamBase
    BY <1>4, <1>9, <1>10, <1>11
  <1> QED BY <1>6, <1>8, <1>10, <1>12, <1>13 DEF t

LEMMA NoLongRate ==
    ASSUME NEW e, IsNearEntry(e), RelayContext(e) > 0, NEW prompt \in 1..RelayContext(e)
    PROVE  ~LongRate(e, prompt)
  <1>1. e.threshold \in Int /\ e.long \in BOOLEAN
    BY DEF IsNearEntry
  <1>2. /\ ~DefaultTier(e).open /\ RelayContext(e) \in Nat
        /\ DefaultTier(e).threshold # Absent => RelayContext(e) <= DefaultTier(e).threshold
        /\ e.id \in TieredUpstream => RelayContext(e) <= UpstreamBase
    BY ContextIsCapped
  <1>3. UpstreamBase \in Nat
    BY ListingsAssumption
  <1>4. PICK c \in Nat : c = RelayContext(e)
    BY <1>2
  <1>5. prompt \in Nat /\ prompt <= c
    BY <1>4
  <1>6. e.id \in TieredUpstream => ~(prompt > UpstreamBase)
    BY <1>2, <1>3, <1>4, <1>5
  <1>7. ASSUME e.long PROVE AboveZero(e.threshold) # Absent /\ ~(prompt > e.threshold)
    <2>1. AboveZero(e.threshold) # Absent /\ DefaultTier(e).threshold = AboveZero(e.threshold)
      BY <1>2, <1>7 DEF DefaultTier
    <2>2. AboveZero(e.threshold) = e.threshold
      BY <2>1 DEF AboveZero
    <2> QED BY <1>1, <1>2, <1>4, <1>5, <2>1, <2>2
  <1> QED BY <1>6, <1>7 DEF LongRate

\* What a callable relayed row was made from: a priced entry, with the
\* parameters it was reviewed with.
LEMMA CallableIsReviewed ==
    ASSUME NEW e, IsNearEntry(e), CanBeCalled(RelayRow(e))
    PROVE  /\ RelayContext(e) > 0 /\ e.in > 0 /\ e.out > 0
           /\ e.id \in DOMAIN NearReviewed /\ NearReviewed[e.id].params = e.params
  <1> DEFINE r == RelayRow(e)
  <1>1. /\ r.type = "text" /\ r.context = RelayContext(e) /\ r.in = AboveZero(e.in) /\ r.out = AboveZero(e.out)
        /\ r.reviewed = IsReviewedNearRelayEntry(e)
    BY RelayRowFields
  <1> HIDE DEF r
  <1>2. CanBeCalled(r)
    BY DEF r
  <1>3. r.reviewed /\ r.context > 0 /\ r.in > 0 /\ r.out > 0
    BY <1>1, <1>2 DEF CanBeCalled
  <1>4. e.in \in Int /\ e.out \in Int
    BY DEF IsNearEntry
  <1>5. e.in > 0 /\ e.out > 0
    BY <1>1, <1>3, <1>4 DEF AboveZero, Absent
  <1>6. e.id \in DOMAIN NearReviewed /\ RelayFingerprint(NearReviewed[e.id]) = RelayFingerprint(e)
    BY <1>1, <1>3 DEF IsReviewedNearRelayEntry
  <1>7. IsNearEntry(NearReviewed[e.id])
    BY <1>6, ListingsAssumption
  <1>8. \A x : IsNearEntry(x) => RelayFingerprint(x)["params"] = x.params
    BY DEF IsNearEntry, RelayFingerprint
  <1> QED BY <1>1, <1>3, <1>5, <1>6, <1>7, <1>8

\* What a side charges: the prompt's uncached, read and written tokens, and the output.
Sum4(q, x, y, o, a, b, c, d) == q * a + x * b + y * c + o * d

LEMMA SumIsNumber ==
    ASSUME NEW q \in Int, NEW x \in Int, NEW y \in Int, NEW o \in Int,
           NEW a \in Int, NEW b \in Int, NEW c \in Int, NEW d \in Int
    PROVE  Sum4(q, x, y, o, a, b, c, d) \in Int
  <1>1. q * a \in Int /\ x * b \in Int /\ y * c \in Int /\ o * d \in Int
    OBVIOUS
  <1> QED BY <1>1 DEF Sum4

\* Nothing read and nothing written cost nothing, at any price.
LEMMA NoCacheSameSum ==
    ASSUME NEW q \in Int, NEW o \in Int, NEW a \in Int, NEW b \in Int, NEW c \in Int, NEW d \in Int,
           NEW b2 \in Int, NEW c2 \in Int
    PROVE  Sum4(q, 0, 0, o, a, b, c, d) = Sum4(q, 0, 0, o, a, b2, c2, d)
  <1>1. 0 * b = 0 /\ 0 * c = 0 /\ 0 * b2 = 0 /\ 0 * c2 = 0
    OBVIOUS
  <1> QED BY <1>1 DEF Sum4

\* calculateCostUsd takes no more cached tokens than the prompt has.
LEMMA CachedFitsPrompt ==
    ASSUME NEW p \in Nat, NEW x \in Nat, NEW y \in Nat, x + y <= p
    PROVE  /\ Smaller(p, y) = y /\ Smaller(p - y, x) = x
           /\ p - y - x = p - x - y /\ p - x - y \in Int
  BY DEF Smaller

\* The bill of a callable relayed route is what NEAR and its upstream charge.
LEMMA BillIsCharge ==
    ASSUME NEW e, IsNearEntry(e), RelayAdmits(e), CanBeCalled(RelayRow(e)),
           NEW prompt \in 1..RelayContext(e), NEW b, b.breakpoints = {},
           NEW u, u.read \in Nat, u.write \in Nat, u.out \in Nat,
           u.read + u.write <= prompt, u.read + u.write > 0 => MayCache(e, b)
    PROVE  CalculateCost(RelayRow(e), prompt, u) = ProviderCharge(e, prompt, u) /\ CalculateCost(RelayRow(e), prompt, u) \in Int
  <1> DEFINE r == RelayRow(e)
             rr == IF r.read >= 0 THEN r.read ELSE r.in
             rw == IF r.write >= 0 THEN r.write ELSE r.in
             cr == IF e.read > 0 THEN PerMillion * e.read ELSE e.in
             cw == IF e.owner = "anthropic" THEN (5 * e.in) \div 4 ELSE IF e.write > 0 THEN e.write ELSE e.in
             caching == NearRelayFamilies[RelayRoutes[e.id].family].caching
  <1>1. RelayContext(e) > 0 /\ e.in > 0 /\ e.out > 0
    BY CallableIsReviewed
  <1>2. /\ e.in \in Int /\ e.out \in Int /\ e.read \in Int /\ e.write \in Int /\ e.threshold \in Int /\ PerMillion \in Nat
    BY ListingsAssumption DEF IsNearEntry
  <1>3. ~LongRate(e, prompt)
    BY <1>1, NoLongRate
  <1>4. RelayContext(e) \in Nat
    BY <1>1, ContextIsCapped
  <1>5. prompt \in Nat
    BY <1>4
  <1>6. /\ r.in = e.in /\ r.out = e.out
        /\ r.read = (IF caching = "automatic" THEN PerToken(e.read) ELSE Absent)
        /\ r.write = (IF caching = "automatic" THEN AboveZero(e.write) ELSE Absent)
    <2>1. DefaultTier(e).write = AboveZero(e.write)
      BY DEF DefaultTier
    <2> QED BY <1>1, <2>1, RelayRowFields DEF AboveZero
  <1>7. PerToken(e.read) \in Int /\ AboveZero(e.write) \in Int /\ PerMillion * e.read \in Int
        /\ (e.read > 0 => PerMillion * e.read >= 0)
    BY <1>2 DEF PerToken, AboveZero, Absent
  <1>8. rr \in Int /\ rw \in Int
    BY <1>2, <1>6, <1>7 DEF Absent
  <1>9. cr \in Int /\ cw \in Int
    BY <1>2, <1>7
  <1>10. PICK x \in Nat, y \in Nat, o \in Nat : x = u.read /\ y = u.write /\ o = u.out
    OBVIOUS
  <1>11. PICK a \in Int, d \in Int : a = e.in /\ d = e.out
    BY <1>2
  <1>12. PICK q \in Int : q = prompt - x - y
    BY <1>5
  <1>13. Smaller(prompt, y) = y /\ Smaller(prompt - y, x) = x /\ prompt - y - x = q
    <2>1. x + y <= prompt
      BY <1>10
    <2>2. /\ Smaller(prompt, y) = y /\ Smaller(prompt - y, x) = x
          /\ prompt - y - x = prompt - x - y
      BY <1>5, <2>1, CachedFitsPrompt
    <2> QED BY <1>12, <2>2
  <1>14. CalculateCost(r, prompt, u) = Sum4(q, x, y, o, a, rr, rw, d)
    BY <1>6, <1>10, <1>11, <1>13 DEF CalculateCost, Sum4
  <1>15. ProviderCharge(e, prompt, u) = 1 * Sum4(q, x, y, o, a, cr, cw, d)
    BY <1>3, <1>10, <1>11, <1>12 DEF ProviderCharge, Sum4
  <1>16. Sum4(q, x, y, o, a, rr, rw, d) = Sum4(q, x, y, o, a, cr, cw, d)
    <2>1. CASE caching = "automatic"
      <3>1. e.owner # "anthropic"
        BY <2>1, FamiliesAreKnown
      <3>2. rr = cr /\ rw = cw
        BY <1>2, <1>6, <1>7, <2>1, <3>1 DEF PerToken, AboveZero, Absent
      <3> QED BY <3>2
    <2>2. CASE caching # "automatic"
      <3>1. ~MayCache(e, b)
        BY <2>2 DEF MayCache
      <3>2. x = 0 /\ y = 0
        BY <1>10, <3>1
      <3> HIDE DEF rr, rw, cr, cw
      <3> QED BY <1>8, <1>9, <3>2, NoCacheSameSum
    <2> QED BY <2>1, <2>2
  <1>17. Sum4(q, x, y, o, a, cr, cw, d) \in Int
    <2> HIDE DEF cr, cw
    <2>1. x \in Int /\ y \in Int /\ o \in Int /\ cr \in Int /\ cw \in Int
      BY <1>9
    <2> QED BY <2>1, SumIsNumber
  <1>18. CalculateCost(r, prompt, u) = ProviderCharge(e, prompt, u) /\ CalculateCost(r, prompt, u) \in Int
    BY <1>14, <1>15, <1>16, <1>17
  <1> QED BY <1>18 DEF r

-----------------------------------------------------------------------------
\* The listing's invariant: every offered row is one the last listing makes, and
\* a relayed request is one forwarded for a callable relayed row.

OfferInv ==
    /\ source \in DOMAIN Published
    /\ offered = {} \/ \E l \in Published[source] : offered = Normalize(source, l)

BodyInv(r, b) ==
    /\ ~b.user /\ b.breakpoints = {} /\ b.sampling \subseteq RequestProfile(r.id)
    /\ RelayRoutes[r.id].owner = "openai" => Cardinality(b.limits) <= 1

IsRelayed(c) ==
    /\ \E e : IsNearEntry(e) /\ RelayAdmits(e) /\ c.route = RelayRow(e)
    /\ CanBeCalled(c.route) /\ c.prompt \in 1..c.route.context
    /\ BodyInv(c.route, c.body)

RelayedInv ==
    \/ relayed = <<>>
    \/ \E r, p, b, x, y : /\ relayed = <<[route |-> r, prompt |-> p, body |-> b, bill |-> x, charge |-> y]>>
                          /\ IsRelayed([route |-> r, prompt |-> p, body |-> b, bill |-> x, charge |-> y])
                          /\ x \in Int /\ x = y

ListingIInv == OfferInv /\ RelayedInv

LEMMA ShapedBodyIsPlain ==
    ASSUME NEW i \in DOMAIN RelayRoutes, NEW s, NEW u, NEW p,
           NEW m, m \in {{"max_tokens"}, {"max_tokens", "max_completion_tokens"}},
           NEW b0, b0 = [sampling |-> s, user |-> u, breakpoints |-> p, limits |-> m],
           NEW b, b = ShapeNearRelayBody(i, b0),
           NEW r, r.id = i
    PROVE  BodyInv(r, b)
  <1>1. PICK n : n = IF RelayRoutes[i].owner = "openai" /\ m # {} THEN {"max_completion_tokens"} ELSE m
    OBVIOUS
  <1>2. PICK t : t = s \cap RequestProfile(i)
    OBVIOUS
  <1>3. b = [sampling |-> t, user |-> FALSE, breakpoints |-> {}, limits |-> n]
    BY <1>1, <1>2 DEF ShapeNearRelayBody
  <1>4. RelayRoutes[i].owner = "openai" => Cardinality(n) = 1
    BY <1>1, FS_Singleton
  <1> QED BY <1>2, <1>3, <1>4 DEF BodyInv

\* A relayed row that may be asked for is one of NEAR's relay: a confidential one
\* has another id.
LEMMA ForwardedIsRelayed ==
    ASSUME "near-ai" \in DOMAIN Published, NEW l \in Published["near-ai"], NEW r \in NormalizeNear(l),
           r.id \in DOMAIN RelayRoutes
    PROVE  \E e : IsNearEntry(e) /\ RelayAdmits(e) /\ r = RelayRow(e)
  <1>1. NormalizeNear(l) = DirectRows(l) \cup NormalizeNearRelay(l, DirectIds(l))
    BY DEF NormalizeNear, DirectRows, DirectIds
  <1>2. CASE r \in DirectRows(l)
    <2>1. PICK n \in DOMAIN l : l[n].id \in DOMAIN NearApproved /\ r = NearDirectRow(l[n])
      BY <1>2 DEF DirectRows
    <2>2. r.id = l[n].id
      BY <2>1 DEF NearDirectRow, Route0
    <2> QED BY <2>1, <2>2, ListingsAssumption
  <1>3. CASE r \in NormalizeNearRelay(l, DirectIds(l))
    <2>1. PICK n \in DOMAIN l : RelayAdmits(l[n]) /\ r = RelayRow(l[n])
      BY <1>3 DEF NormalizeNearRelay
    <2>2. IsNearEntry(l[n])
      BY ListingsAssumption
    <2> QED BY <2>1, <2>2
  <1> QED BY <1>1, <1>2, <1>3

LEMMA ForwardKeepsListing ==
    ASSUME ListingIInv, NEW r \in offered, ForwardRelayed(r)
    PROVE  ListingIInv'
  <1>1. /\ r.provider = "near-ai" /\ r.id \in DOMAIN RelayRoutes /\ CanBeCalled(r) /\ UNCHANGED <<source, offered>>
    BY DEF ForwardRelayed
  <1>2. OfferInv'
    BY <1>1 DEF ListingIInv, OfferInv
  <1>3. PICK p \in 1..r.context, b0 \in [sampling : {{"stop"}, {"temperature", "seed"}, {"top_p"}}, user : {TRUE},
                                         breakpoints : {{}, {"message"}}, limits : {{"max_tokens"}, {"max_tokens", "max_completion_tokens"}}] :
          relayed' = <<[route |-> r, prompt |-> p, body |-> ShapeNearRelayBody(r.id, b0), bill |-> Absent, charge |-> Absent]>>
    BY DEF ForwardRelayed
  <1>4. PICK s, u, k, m : /\ m \in {{"max_tokens"}, {"max_tokens", "max_completion_tokens"}}
                          /\ b0 = [sampling |-> s, user |-> u, breakpoints |-> k, limits |-> m]
    <2>1. b0.limits \in {{"max_tokens"}, {"max_tokens", "max_completion_tokens"}}
      OBVIOUS
    <2>2. b0 = [sampling |-> b0.sampling, user |-> b0.user, breakpoints |-> b0.breakpoints, limits |-> b0.limits]
      OBVIOUS
    <2> QED BY <2>1, <2>2
  <1>5. PICK b : b = ShapeNearRelayBody(r.id, b0)
    OBVIOUS
  <1>6. BodyInv(r, b)
    BY <1>1, <1>4, <1>5, ShapedBodyIsPlain
  <1>7. PICK l \in Published[source] : offered = Normalize(source, l)
    BY DEF ListingIInv, OfferInv
  <1>8. EarnedProvider(source, l)
    BY NormalizedIsOfProvider DEF ListingIInv, OfferInv
  <1>9. source = "near-ai" /\ r \in NormalizeNear(l) /\ "near-ai" \in DOMAIN Published
    BY <1>1, <1>7, <1>8 DEF EarnedProvider, ListingIInv, OfferInv, Normalize
  <1>10. PICK e : IsNearEntry(e) /\ RelayAdmits(e) /\ r = RelayRow(e)
    BY <1>1, <1>7, <1>9, ForwardedIsRelayed
  <1>11. IsRelayed([route |-> r, prompt |-> p, body |-> b, bill |-> Absent, charge |-> Absent])
    BY <1>1, <1>6, <1>10 DEF IsRelayed
  <1>12. Absent \in Int
    BY DEF Absent
  <1>13. RelayedInv'
    BY <1>3, <1>5, <1>11, <1>12 DEF RelayedInv
  <1> QED BY <1>2, <1>13 DEF ListingIInv

LEMMA SettleKeepsListing ==
    ASSUME ListingIInv, SettleRelayed
    PROVE  ListingIInv'
  <1>1. relayed # <<>> /\ UNCHANGED <<source, offered>>
    BY DEF SettleRelayed
  <1>2. OfferInv'
    BY <1>1 DEF ListingIInv, OfferInv
  <1>3. PICK r, p, b, x, y : /\ relayed = <<[route |-> r, prompt |-> p, body |-> b, bill |-> x, charge |-> y]>>
                             /\ IsRelayed([route |-> r, prompt |-> p, body |-> b, bill |-> x, charge |-> y])
    BY <1>1 DEF ListingIInv, RelayedInv
  <1> DEFINE c == [route |-> r, prompt |-> p, body |-> b, bill |-> x, charge |-> y]
  <1>4. c.route = r /\ c.prompt = p /\ c.body = b
    OBVIOUS
  <1>5. relayed[1] = c
    BY <1>3
  <1> HIDE DEF c
  <1>6. PICK u \in [read : 0..MaxUsage, write : 0..MaxUsage, out : {0, 1}] :
            /\ u.read + u.write <= p
            /\ u.read + u.write > 0 => MayCache(r.from, b)
            /\ relayed' = <<[c EXCEPT !.bill = CalculateCost(r, p, u), !.charge = ProviderCharge(r.from, p, u)]>>
    BY <1>4, <1>5 DEF SettleRelayed
  <1>7. PICK e : IsNearEntry(e) /\ RelayAdmits(e) /\ r = RelayRow(e)
    BY <1>3 DEF IsRelayed
  <1>8. CanBeCalled(r) /\ p \in 1..r.context /\ BodyInv(r, b)
    BY <1>3 DEF IsRelayed
  <1>9. r.from = e /\ r.context = RelayContext(e) /\ b.breakpoints = {}
    BY <1>7, <1>8, RelayRowEarns, RelayRowFields DEF BodyInv
  <1>10. u.read \in Nat /\ u.write \in Nat /\ u.out \in Nat
    BY <1>6, ListingsAssumption
  <1>11. CalculateCost(r, p, u) = ProviderCharge(r.from, p, u) /\ CalculateCost(r, p, u) \in Int
    BY <1>6, <1>7, <1>8, <1>9, <1>10, BillIsCharge
  <1>12. PICK v \in Int : v = CalculateCost(r, p, u) /\ v = ProviderCharge(r.from, p, u)
    BY <1>11
  <1>13. relayed' = <<[route |-> r, prompt |-> p, body |-> b, bill |-> v, charge |-> v]>>
    <2>1. relayed' = <<[c EXCEPT !.bill = v, !.charge = v]>>
      BY <1>6, <1>12
    <2>2. PICK d : d = [c EXCEPT !.bill = v]
      OBVIOUS
    <2>3. d = [route |-> r, prompt |-> p, body |-> b, bill |-> v, charge |-> y]
      BY <2>2 DEF c
    <2>4. [d EXCEPT !.charge = v] = [route |-> r, prompt |-> p, body |-> b, bill |-> v, charge |-> v]
      BY <2>3
    <2>5. [c EXCEPT !.bill = v, !.charge = v] = [d EXCEPT !.charge = v]
      BY <2>2
    <2> QED BY <2>1, <2>4, <2>5
  <1>14. IsRelayed([route |-> r, prompt |-> p, body |-> b, bill |-> v, charge |-> v])
    BY <1>7, <1>8 DEF IsRelayed
  <1>15. RelayedInv'
    BY <1>12, <1>13, <1>14 DEF RelayedInv
  <1> QED BY <1>2, <1>15 DEF ListingIInv

LEMMA PublishKeepsListing ==
    ASSUME ListingIInv, PublishListing
    PROVE  ListingIInv'
  <1>1. PICK l \in Published[source] : offered' = Normalize(source, l) /\ UNCHANGED <<source, relayed>>
    BY DEF PublishListing
  <1> QED BY <1>1 DEF ListingIInv, OfferInv, RelayedInv

\* The invariant says what the run's property says of a listing and of a
\* relayed request.
LEMMA ListingInvSuffices ==
    ASSUME ListingIInv
    PROVE  ClassIsEarned /\ BillCoversCharge /\ BodyIsAccepted
  <1>1. ClassIsEarned
    <2>1. CASE offered = {}
      BY <2>1 DEF ClassIsEarned
    <2>2. CASE offered # {}
      <3>1. PICK l \in Published[source] : offered = Normalize(source, l)
        BY <2>2 DEF ListingIInv, OfferInv
      <3>2. EarnedRows(offered)
        BY <3>1, NormalizedIsEarned DEF ListingIInv, OfferInv
      <3> QED BY <3>2 DEF EarnedRows, Earned, ClassIsEarned
    <2> QED BY <2>1, <2>2
  <1>2. CASE relayed = <<>>
    <2>1. DOMAIN relayed = {}
      BY <1>2
    <2> QED BY <1>1, <2>1 DEF BillCoversCharge, BodyIsAccepted
  <1>3. CASE relayed # <<>>
    <2>1. PICK r, p, b, x, y : /\ relayed = <<[route |-> r, prompt |-> p, body |-> b, bill |-> x, charge |-> y]>>
                               /\ IsRelayed([route |-> r, prompt |-> p, body |-> b, bill |-> x, charge |-> y])
                               /\ x \in Int /\ x = y
      BY <1>3 DEF ListingIInv, RelayedInv
    <2>2. DOMAIN relayed = {1}
          /\ relayed[1].bill = x /\ relayed[1].charge = y /\ relayed[1].route = r /\ relayed[1].body = b
      BY <2>1
    <2>3. BillCoversCharge
      BY <2>1, <2>2 DEF BillCoversCharge
    <2>4. PICK e : IsNearEntry(e) /\ RelayAdmits(e) /\ r = RelayRow(e)
      BY <2>1 DEF IsRelayed
    <2>5. CanBeCalled(r) /\ BodyInv(r, b)
      BY <2>1 DEF IsRelayed
    <2>6. r.from = e /\ r.id = e.id /\ e.owner = RelayRoutes[e.id].owner
      BY <2>4, RelayRowEarns, FamiliesAreKnown
    <2>7. e.id \in DOMAIN NearReviewed /\ NearReviewed[e.id].params = e.params
      BY <2>4, <2>5, CallableIsReviewed
    <2>8. Accepts(e, b) /\ ~b.user
      BY <2>5, <2>6, <2>7 DEF BodyInv, RequestProfile, Accepts
    <2>9. BodyIsAccepted
      BY <2>2, <2>6, <2>8 DEF BodyIsAccepted
    <2> QED BY <1>1, <2>3, <2>9
  <1> QED BY <1>1, <1>2, <1>3

\* Whatever providers publish and however often, a route that can be enabled has
\* earned its class, and a relayed request is forwarded with a body its upstream
\* takes and billed for at least what it costs.
THEOREM ListingsAreSound == ListingSpec => [](ClassIsEarned /\ BillCoversCharge /\ BodyIsAccepted)
  <1>1. ListingInit => ListingIInv
    BY DEF ListingInit, ListingIInv, OfferInv, RelayedInv
  <1>2. ListingIInv /\ [ListingNext]_listingVars => ListingIInv'
    <2> SUFFICES ASSUME ListingIInv, [ListingNext]_listingVars PROVE ListingIInv'
      OBVIOUS
    <2>1. CASE PublishListing
      BY <2>1, PublishKeepsListing
    <2>2. ASSUME NEW r \in offered, ForwardRelayed(r) PROVE ListingIInv'
      BY <2>2, ForwardKeepsListing
    <2>3. CASE SettleRelayed
      BY <2>3, SettleKeepsListing
    <2>4. CASE UNCHANGED listingVars
      BY <2>4 DEF listingVars, ListingIInv, OfferInv, RelayedInv
    <2> QED BY <2>1, <2>2, <2>3, <2>4 DEF ListingNext
  <1>3. ListingIInv => ClassIsEarned /\ BillCoversCharge /\ BodyIsAccepted
    BY ListingInvSuffices
  <1> QED BY <1>1, <1>2, <1>3, PTL DEF ListingSpec

-----------------------------------------------------------------------------
\* Globs: how a reading of the pattern goes on, one character at a time.

GlobSpec == GlobInit /\ [][GlobNext]_globVars

Patterns == Seq(Letters \cup {"*"})
Values == Seq(Letters)

Reads(p, v, i, j) == Readings(p, v, i, j) # {}

\* A reading of the rest is extended by one character of the pattern.
LEMMA ReadingExtends ==
    ASSUME NEW p \in Patterns, NEW v \in Values, NEW i \in Nat, i < Len(p),
           NEW j \in Nat, NEW k \in Nat, j <= k, k <= Len(v), Reads(p, v, i + 1, k),
           p[i + 1] # "*" => k = j + 1 /\ p[i + 1] = v[k]
    PROVE  Reads(p, v, i, j)
  <1>1. PICK n \in Nat : n = Len(p)
    BY DEF Patterns
  <1>2. PICK m \in Nat : m = Len(v)
    BY DEF Values
  <1>3. PICK cut \in [(i + 1) .. n -> k .. m] :
            /\ cut[i + 1] = k /\ cut[n] = m
            /\ \A x, y \in (i + 1) .. n : x <= y => cut[x] <= cut[y]
            /\ \A x \in (i + 2) .. n : p[x] # "*" => cut[x] = cut[x - 1] + 1 /\ p[x] = v[cut[x]]
    BY <1>1, <1>2 DEF Reads, Readings
  <1> DEFINE c == [x \in i .. n |-> IF x = i THEN j ELSE cut[x]]
  <1>4. c \in [i .. n -> j .. m]
    <2> SUFFICES ASSUME NEW x \in i .. n PROVE (IF x = i THEN j ELSE cut[x]) \in j .. m
      OBVIOUS
    <2>1. CASE x = i
      BY <1>2, <2>1
    <2>2. CASE x # i
      <3>1. x \in (i + 1) .. n
        BY <1>1, <2>2
      <3>2. cut[x] \in k .. m
        BY <1>3, <3>1
      <3> QED BY <2>2, <3>2
    <2> QED BY <2>1, <2>2
  <1>5. c[i] = j /\ \A x \in (i + 1) .. n : c[x] = cut[x]
    BY <1>1
  <1>6. \A x \in (i + 1) .. n : cut[x] \in k .. m
    BY <1>3
  <1> HIDE DEF c
  <1>7. c[n] = m
    BY <1>1, <1>3, <1>5
  <1>8. ASSUME NEW x \in i .. n, NEW y \in i .. n, x <= y PROVE c[x] <= c[y]
    <2>1. CASE x = i
      <3>1. c[y] \in j .. m
        BY <1>4
      <3> QED BY <1>5, <2>1, <3>1
    <2>2. CASE x # i
      <3>1. x \in (i + 1) .. n /\ y \in (i + 1) .. n
        BY <1>8, <2>2
      <3> QED BY <1>3, <1>5, <1>8, <3>1
    <2> QED BY <2>1, <2>2
  <1>9. ASSUME NEW x \in (i + 1) .. n, p[x] # "*" PROVE c[x] = c[x - 1] + 1 /\ p[x] = v[c[x]]
    <2>1. CASE x = i + 1
      <3>1. c[x] = k /\ x - 1 = i
        BY <1>3, <1>5, <2>1
      <3> QED BY <1>5, <1>9, <2>1, <3>1
    <2>2. CASE x # i + 1
      <3>1. x \in (i + 2) .. n /\ x - 1 \in (i + 1) .. n
        BY <2>2
      <3> QED BY <1>3, <1>5, <1>9, <3>1
    <2> QED BY <2>1, <2>2
  <1>10. c \in Readings(p, v, i, j)
    BY <1>1, <1>2, <1>4, <1>5, <1>7, <1>8, <1>9 DEF Readings
  <1> QED BY <1>10 DEF Reads

\* And a reading goes on from where its first character ends.
LEMMA ReadingGoesOn ==
    ASSUME NEW p \in Patterns, NEW v \in Values, NEW i \in Nat, i < Len(p), NEW j \in Nat, Reads(p, v, i, j)
    PROVE  \E k \in j .. Len(v) : Reads(p, v, i + 1, k) /\ (p[i + 1] # "*" => k = j + 1 /\ p[i + 1] = v[k])
  <1>1. PICK n \in Nat : n = Len(p)
    BY DEF Patterns
  <1>2. PICK m \in Nat : m = Len(v)
    BY DEF Values
  <1>3. PICK cut \in [i .. n -> j .. m] :
            /\ cut[i] = j /\ cut[n] = m
            /\ \A x, y \in i .. n : x <= y => cut[x] <= cut[y]
            /\ \A x \in (i + 1) .. n : p[x] # "*" => cut[x] = cut[x - 1] + 1 /\ p[x] = v[cut[x]]
    BY <1>1, <1>2 DEF Reads, Readings
  <1>4. \A x \in i .. n : cut[x] \in j .. m
    BY <1>3
  <1>5. PICK k \in j .. m : k = cut[i + 1]
    BY <1>1, <1>4
  <1> DEFINE c == [x \in (i + 1) .. n |-> cut[x]]
  <1>6. c \in [(i + 1) .. n -> k .. m]
    <2> SUFFICES ASSUME NEW x \in (i + 1) .. n PROVE cut[x] \in k .. m
      OBVIOUS
    <2>1. x \in i .. n /\ i + 1 \in i .. n /\ i + 1 <= x
      BY <1>1
    <2>2. cut[i + 1] <= cut[x]
      BY <1>3, <2>1
    <2> QED BY <1>4, <1>5, <2>1, <2>2
  <1>7. \A x \in (i + 1) .. n : c[x] = cut[x]
    OBVIOUS
  <1> HIDE DEF c
  <1>8. c[i + 1] = k /\ c[n] = m
    BY <1>1, <1>3, <1>5, <1>7
  <1>9. ASSUME NEW x \in (i + 1) .. n, NEW y \in (i + 1) .. n, x <= y PROVE c[x] <= c[y]
    <2>1. x \in i .. n /\ y \in i .. n
      OBVIOUS
    <2> QED BY <1>3, <1>7, <1>9, <2>1
  <1>10. ASSUME NEW x \in ((i + 1) + 1) .. n, p[x] # "*" PROVE c[x] = c[x - 1] + 1 /\ p[x] = v[c[x]]
    <2>1. x \in (i + 1) .. n /\ x - 1 \in (i + 1) .. n
      OBVIOUS
    <2> QED BY <1>3, <1>7, <1>10, <2>1
  <1>11. c \in Readings(p, v, i + 1, k)
    BY <1>1, <1>2, <1>6, <1>8, <1>9, <1>10 DEF Readings
  <1>12. p[i + 1] # "*" => k = j + 1 /\ p[i + 1] = v[k]
    <2>1. i + 1 \in (i + 1) .. n /\ (i + 1) - 1 = i
      BY <1>1
    <2> QED BY <1>3, <1>5, <2>1
  <1> QED BY <1>2, <1>11, <1>12 DEF Reads

\* At its end the pattern reads only the end of the value.
LEMMA ReadingEnds ==
    ASSUME NEW p \in Patterns, NEW v \in Values, NEW j \in Nat
    PROVE  Reads(p, v, Len(p), j) <=> j = Len(v)
  <1>1. PICK n \in Nat : n = Len(p)
    BY DEF Patterns
  <1>2. PICK m \in Nat : m = Len(v)
    BY DEF Values
  <1>3. ASSUME Reads(p, v, n, j) PROVE j = m
    BY <1>1, <1>2, <1>3 DEF Reads, Readings
  <1>4. ASSUME j = m PROVE Reads(p, v, n, j)
    <2> DEFINE c == [x \in n .. n |-> m]
    <2>1. c \in [n .. n -> j .. m] /\ c[n] = m /\ \A x \in n .. n : c[x] = m
      BY <1>4
    <2>2. \A x \in (n + 1) .. n : FALSE
      OBVIOUS
    <2> HIDE DEF c
    <2>3. c \in Readings(p, v, n, j)
      BY <1>1, <1>2, <1>4, <2>1, <2>2 DEF Readings
    <2> QED BY <2>3 DEF Reads
  <1> QED BY <1>1, <1>2, <1>3, <1>4

\* From the end of the value on, only "*"s can be read.
LEMMA ReadingOfNothing ==
    ASSUME NEW p \in Patterns, NEW v \in Values, NEW i \in 0 .. Len(p)
    PROVE  Reads(p, v, i, Len(v)) <=> \A x \in (i + 1) .. Len(p) : p[x] = "*"
  <1>1. PICK n \in Nat : n = Len(p)
    BY DEF Patterns
  <1>2. PICK m \in Nat : m = Len(v)
    BY DEF Values
  <1>3. ASSUME Reads(p, v, i, m), NEW x \in (i + 1) .. n, p[x] # "*" PROVE FALSE
    <2>1. PICK cut \in [i .. n -> m .. m] : cut[x] = cut[x - 1] + 1
      BY <1>1, <1>2, <1>3 DEF Reads, Readings
    <2>2. x \in i .. n /\ x - 1 \in i .. n
      BY <1>1
    <2>3. cut[x] = m /\ cut[x - 1] = m
      BY <2>1, <2>2
    <2> QED BY <2>1, <2>3
  <1>4. ASSUME \A x \in (i + 1) .. n : p[x] = "*" PROVE Reads(p, v, i, m)
    <2> DEFINE c == [x \in i .. n |-> m]
    <2>1. c \in [i .. n -> m .. m] /\ \A x \in i .. n : c[x] = m
      OBVIOUS
    <2>2. i \in i .. n /\ n \in i .. n
      BY <1>1
    <2> HIDE DEF c
    <2>3. c \in Readings(p, v, i, m)
      BY <1>1, <1>2, <1>4, <2>1, <2>2 DEF Readings
    <2> QED BY <2>3 DEF Reads
  <1> QED BY <1>1, <1>2, <1>3, <1>4

-----------------------------------------------------------------------------
\* What the scan has found out, with i characters of the pattern and j of the
\* value behind it, s of them up to the last "*" and k there: the pattern can be
\* read as the value just if the rest can from some place the "*" may end at; from
\* each such place the characters since the "*" are literals to be read; and
\* those read so far were read from k.
Progress(p, v, i, j, s, k) ==
    /\ i \in 0 .. Len(p) /\ j \in 0 .. Len(v)
    /\ s = 0 => (Reads(p, v, 0, 0) <=> Reads(p, v, i, j))
    /\ s # 0 =>
        /\ s \in 1 .. i /\ k \in 0 .. j /\ j - k = i - s
        /\ Reads(p, v, 0, 0) <=> \E x \in k .. Len(v) : Reads(p, v, s, x)
        /\ \A x \in k .. Len(v) : Reads(p, v, s, x) => x + (i - s) <= Len(v) /\ Reads(p, v, i, x + (i - s))
        /\ Reads(p, v, i, j) => Reads(p, v, s, k)

LEMMA StarProgresses ==
    ASSUME NEW p \in Patterns, NEW v \in Values, NEW i \in Nat, NEW j \in Nat, NEW s \in Nat, NEW k \in Nat,
           Progress(p, v, i, j, s, k), i < Len(p), p[i + 1] = "*"
    PROVE  Progress(p, v, i + 1, j, i + 1, j)
  <1>1. PICK n \in Nat : n = Len(p)
    BY DEF Patterns
  <1>2. PICK m \in Nat : m = Len(v)
    BY DEF Values
  <1>3. j <= m
    BY <1>2 DEF Progress
  <1>4. ASSUME NEW x \in j .. m, Reads(p, v, i + 1, x) PROVE Reads(p, v, 0, 0)
    <2>1. x \in Nat /\ j <= x /\ x <= Len(v)
      BY <1>2
    <2>2. Reads(p, v, i, j)
      BY <1>4, <2>1, ReadingExtends
    <2>3. CASE s = 0
      BY <2>2, <2>3 DEF Progress
    <2>4. CASE s # 0
      <3>1. Reads(p, v, s, k) /\ k \in k .. m
        BY <1>2, <2>2, <2>4 DEF Progress
      <3> QED BY <1>2, <2>4, <3>1 DEF Progress
    <2> QED BY <2>3, <2>4
  <1>5. ASSUME Reads(p, v, 0, 0) PROVE \E x \in j .. m : Reads(p, v, i + 1, x)
    <2>1. CASE s = 0
      <3>1. Reads(p, v, i, j)
        BY <1>5, <2>1 DEF Progress
      <3>2. PICK x \in j .. Len(v) : Reads(p, v, i + 1, x)
        BY <3>1, ReadingGoesOn
      <3> QED BY <1>2, <3>2
    <2>2. CASE s # 0
      <3>1. PICK x \in k .. m : Reads(p, v, s, x)
        BY <1>2, <1>5, <2>2 DEF Progress
      <3>2. x + (i - s) <= m /\ Reads(p, v, i, x + (i - s)) /\ j - k = i - s /\ s <= i
        BY <1>2, <2>2, <3>1 DEF Progress
      <3>3. PICK z \in Nat : z = x + (i - s)
        BY <3>2
      <3>4. PICK y \in z .. Len(v) : Reads(p, v, i + 1, y)
        BY <3>2, <3>3, ReadingGoesOn
      <3>5. j <= z
        BY <3>2, <3>3
      <3>6. y \in j .. m
        BY <1>2, <3>4, <3>5
      <3> QED BY <3>4, <3>6
    <2> QED BY <2>1, <2>2
  <1>6. \A x \in j .. m : x + ((i + 1) - (i + 1)) = x /\ x <= m
    OBVIOUS
  <1>7. i + 1 \in 1 .. (i + 1) /\ i + 1 \in 0 .. n /\ j \in 0 .. j /\ j \in 0 .. m /\ j - j = (i + 1) - (i + 1) /\ i + 1 # 0
    BY <1>1, <1>3
  <1> QED BY <1>1, <1>2, <1>4, <1>5, <1>6, <1>7 DEF Progress

LEMMA LiteralProgresses ==
    ASSUME NEW p \in Patterns, NEW v \in Values, NEW i \in Nat, NEW j \in Nat, NEW s \in Nat, NEW k \in Nat,
           Progress(p, v, i, j, s, k), i < Len(p), j < Len(v), p[i + 1] # "*", p[i + 1] = v[j + 1]
    PROVE  Progress(p, v, i + 1, j + 1, s, k)
  <1>1. PICK n \in Nat : n = Len(p)
    BY DEF Patterns
  <1>2. PICK m \in Nat : m = Len(v)
    BY DEF Values
  <1>3. ASSUME NEW y \in Nat, Reads(p, v, i, y) PROVE y + 1 <= m /\ Reads(p, v, i + 1, y + 1)
    <2>1. PICK z \in y .. m : Reads(p, v, i + 1, z) /\ z = y + 1
      BY <1>2, <1>3, ReadingGoesOn
    <2> QED BY <2>1
  <1>4. Reads(p, v, i + 1, j + 1) => Reads(p, v, i, j)
    BY <1>2, ReadingExtends
  <1>5. i + 1 \in 0 .. n /\ j + 1 \in 0 .. m
    BY <1>1, <1>2
  <1>6. CASE s = 0
    BY <1>1, <1>2, <1>3, <1>4, <1>5, <1>6 DEF Progress
  <1>7. CASE s # 0
    <2>1. /\ s \in 1 .. i /\ k \in 0 .. j /\ j - k = i - s
          /\ Reads(p, v, 0, 0) <=> \E x \in k .. m : Reads(p, v, s, x)
          /\ \A x \in k .. m : Reads(p, v, s, x) => x + (i - s) <= m /\ Reads(p, v, i, x + (i - s))
          /\ Reads(p, v, i, j) => Reads(p, v, s, k)
      BY <1>2, <1>7 DEF Progress
    <2>2. s \in 1 .. (i + 1) /\ k \in 0 .. (j + 1) /\ (j + 1) - k = (i + 1) - s
      BY <2>1
    <2>3. ASSUME NEW x \in k .. m, Reads(p, v, s, x)
          PROVE  x + ((i + 1) - s) <= m /\ Reads(p, v, i + 1, x + ((i + 1) - s))
      <3>1. PICK y \in Nat : y = x + (i - s)
        BY <2>1
      <3>2. Reads(p, v, i, y)
        BY <2>1, <2>3, <3>1
      <3>3. y + 1 <= m /\ Reads(p, v, i + 1, y + 1)
        BY <1>3, <3>2
      <3>4. x + ((i + 1) - s) = y + 1
        BY <2>1, <3>1
      <3> QED BY <3>3, <3>4
    <2> QED BY <1>1, <1>2, <1>4, <1>5, <1>7, <2>1, <2>2, <2>3 DEF Progress
  <1> QED BY <1>6, <1>7

\* A character that does not fit is read in no way from there.
LEMMA MisfitReadsNothing ==
    ASSUME NEW p \in Patterns, NEW v \in Values, NEW i \in 0 .. Len(p), NEW j \in Nat, j < Len(v),
           i = Len(p) \/ (p[i + 1] # "*" /\ p[i + 1] # v[j + 1])
    PROVE  ~Reads(p, v, i, j)
  <1>1. PICK n \in Nat : n = Len(p)
    BY DEF Patterns
  <1>2. PICK m \in Nat : m = Len(v)
    BY DEF Values
  <1>3. CASE i = n
    BY <1>1, <1>2, <1>3, ReadingEnds
  <1>4. CASE i # n
    <2>1. i \in Nat /\ i < n
      BY <1>1, <1>4
    <2>2. ASSUME Reads(p, v, i, j) PROVE FALSE
      <3>1. \E y \in j .. Len(v) : Reads(p, v, i + 1, y) /\ (p[i + 1] # "*" => y = j + 1 /\ p[i + 1] = v[y])
        BY <1>1, <2>1, <2>2, ReadingGoesOn
      <3> QED BY <1>1, <1>4, <3>1
    <2> QED BY <2>2
  <1> QED BY <1>3, <1>4

LEMMA BacktrackProgresses ==
    ASSUME NEW p \in Patterns, NEW v \in Values, NEW i \in Nat, NEW j \in Nat, NEW s \in Nat, NEW k \in Nat,
           Progress(p, v, i, j, s, k), s # 0, j < Len(v), i = Len(p) \/ (p[i + 1] # "*" /\ p[i + 1] # v[j + 1])
    PROVE  Progress(p, v, s, k + 1, s, k + 1)
  <1>1. PICK n \in Nat : n = Len(p)
    BY DEF Patterns
  <1>2. PICK m \in Nat : m = Len(v)
    BY DEF Values
  <1>3. /\ i \in 0 .. n /\ s \in 1 .. i /\ k \in 0 .. j /\ j - k = i - s
        /\ Reads(p, v, 0, 0) <=> \E x \in k .. m : Reads(p, v, s, x)
        /\ \A x \in k .. m : Reads(p, v, s, x) => x + (i - s) <= m /\ Reads(p, v, i, x + (i - s))
    BY <1>1, <1>2 DEF Progress
  <1>4. ~Reads(p, v, i, j)
    BY <1>1, <1>3, MisfitReadsNothing
  <1>5. ~Reads(p, v, s, k)
    <2>1. k + (i - s) = j /\ k \in k .. m
      BY <1>2, <1>3
    <2> QED BY <1>3, <1>4, <2>1
  <1>6. Reads(p, v, 0, 0) <=> \E x \in (k + 1) .. m : Reads(p, v, s, x)
    <2>1. \A x \in k .. m : x = k \/ x \in (k + 1) .. m
      OBVIOUS
    <2>2. \A x \in (k + 1) .. m : x \in k .. m
      OBVIOUS
    <2> QED BY <1>3, <1>5, <2>1, <2>2
  <1>7. s \in 0 .. n /\ k + 1 \in 0 .. m /\ s \in 1 .. s /\ k + 1 \in 0 .. (k + 1) /\ (k + 1) - (k + 1) = s - s
    BY <1>2, <1>3
  <1>8. \A x \in (k + 1) .. m : x + (s - s) = x /\ x <= m
    OBVIOUS
  <1> QED BY <1>1, <1>2, <1>6, <1>7, <1>8 DEF Progress

\* When the value is used up, the rest of the pattern decides.
LEMMA ConsumedDecides ==
    ASSUME NEW p \in Patterns, NEW v \in Values, NEW i \in Nat, NEW s \in Nat, NEW k \in Nat,
           Progress(p, v, i, Len(v), s, k)
    PROVE  Reads(p, v, 0, 0) <=> \A x \in (i + 1) .. Len(p) : p[x] = "*"
  <1>2. PICK m \in Nat : m = Len(v)
    BY DEF Values
  <1>3. i \in 0 .. Len(p)
    BY DEF Progress
  <1>4. Reads(p, v, i, m) <=> \A x \in (i + 1) .. Len(p) : p[x] = "*"
    BY <1>2, <1>3, ReadingOfNothing
  <1>5. CASE s = 0
    BY <1>2, <1>4, <1>5 DEF Progress
  <1>6. CASE s # 0
    <2>1. /\ s \in 1 .. i /\ k \in 0 .. m /\ m - k = i - s
          /\ Reads(p, v, 0, 0) <=> \E x \in k .. m : Reads(p, v, s, x)
          /\ \A x \in k .. m : Reads(p, v, s, x) => x + (i - s) <= m /\ Reads(p, v, i, x + (i - s))
          /\ Reads(p, v, i, m) => Reads(p, v, s, k)
      BY <1>2, <1>6 DEF Progress
    <2>2. ASSUME Reads(p, v, 0, 0) PROVE Reads(p, v, i, m)
      <3>1. PICK x \in k .. m : Reads(p, v, s, x)
        BY <2>1, <2>2
      <3>2. x + (i - s) <= m /\ Reads(p, v, i, x + (i - s))
        BY <2>1, <3>1
      <3>3. x + (i - s) = m
        BY <2>1, <3>2
      <3> QED BY <3>2, <3>3
    <2>3. ASSUME Reads(p, v, i, m) PROVE Reads(p, v, 0, 0)
      <3>1. k \in k .. m
        BY <2>1
      <3> QED BY <2>1, <2>3, <3>1
    <2> QED BY <1>4, <2>2, <2>3
  <1> QED BY <1>5, <1>6

-----------------------------------------------------------------------------
\* The scan itself.
Scans == [pi : Nat \ {0}, vi : Nat \ {0}, star : Nat, mark : Nat \ {0}]

GlobInv ==
    /\ glob \in Patterns /\ globText \in Values /\ scan \in Scans
    /\ globAnswer \in {"open", "yes", "no"}
    /\ globAnswer = "open" =>
          /\ Wildcards(glob) <= MaxGlobWildcards
          /\ Progress(glob, globText, scan.pi - 1, scan.vi - 1, scan.star, scan.mark - 1)
    /\ GlobIsExact

LEMMA WordsAreSequences ==
    ASSUME NEW S, NEW max \in Nat, NEW w \in Words(S, max)
    PROVE  w \in Seq(S)
  <1>1. PICK n \in 0 .. max : w \in [1 .. n -> S]
    BY DEF Words
  <1>2. n \in Nat
    OBVIOUS
  <1> QED BY <1>1, <1>2, SeqDef

\* The wildcards of a pattern can be counted.
LEMMA WildcardsAreCounted ==
    ASSUME NEW p \in Patterns
    PROVE  Wildcards(p) \in Nat
  <1>1. PICK n \in Nat : n = Len(p)
    BY DEF Patterns
  <1>2. IsFiniteSet(1 .. n)
    BY FS_Interval
  <1>3. DOMAIN p = 1 .. n
    BY <1>1 DEF Patterns
  <1>4. {x \in DOMAIN p : p[x] = "*"} \subseteq 1 .. n
    BY <1>3
  <1>5. IsFiniteSet({x \in DOMAIN p : p[x] = "*"})
    BY <1>2, <1>4, FS_Subset
  <1> QED BY <1>5, FS_CardinalityType DEF Wildcards

LEMMA GlobInitInv ==
    ASSUME GlobInit
    PROVE  GlobInv
  <1>1. glob \in Patterns /\ globText \in Values
    BY WordsAreSequences, GlobAssumption DEF GlobInit, Patterns, Values
  <1>2. scan = [pi |-> 1, vi |-> 1, star |-> 0, mark |-> 1]
    BY DEF GlobInit
  <1>3. scan \in Scans /\ scan.pi - 1 = 0 /\ scan.vi - 1 = 0 /\ scan.star = 0 /\ scan.mark - 1 = 0
    BY <1>2 DEF Scans
  <1>4. Len(glob) \in Nat /\ Len(globText) \in Nat
    BY <1>1 DEF Patterns, Values
  <1>5. Progress(glob, globText, 0, 0, 0, 0)
    BY <1>4 DEF Progress
  <1>6. Wildcards(glob) \in Nat /\ MaxGlobWildcards \in Nat
    BY <1>1, WildcardsAreCounted, GlobAssumption
  <1>7. CASE Wildcards(glob) > MaxGlobWildcards
    <2>1. globAnswer = "no"
      BY <1>7 DEF GlobInit
    <2>2. GlobIsExact
      BY <1>6, <1>7, <2>1 DEF GlobIsExact
    <2> QED BY <1>1, <1>3, <2>1, <2>2 DEF GlobInv
  <1>8. CASE ~(Wildcards(glob) > MaxGlobWildcards)
    <2>1. globAnswer = "open"
      BY <1>8 DEF GlobInit
    <2>2. GlobIsExact
      BY <2>1 DEF GlobIsExact
    <2> QED BY <1>1, <1>3, <1>5, <1>6, <1>8, <2>1, <2>2 DEF GlobInv
  <1> QED BY <1>7, <1>8

\* What holds where the scan looks, in rigid terms.
LEMMA ScanIsProgress ==
    ASSUME GlobInv, globAnswer = "open"
    PROVE  \E p \in Patterns, v \in Values, i \in Nat, j \in Nat, s \in Nat, k \in Nat :
              /\ p = glob /\ v = globText /\ i <= Len(p) /\ j <= Len(v)
              /\ scan = [pi |-> i + 1, vi |-> j + 1, star |-> s, mark |-> k + 1]
              /\ Progress(p, v, i, j, s, k) /\ Wildcards(p) <= MaxGlobWildcards
  <1>1. /\ glob \in Patterns /\ globText \in Values /\ scan \in Scans
        /\ Wildcards(glob) <= MaxGlobWildcards
        /\ Progress(glob, globText, scan.pi - 1, scan.vi - 1, scan.star, scan.mark - 1)
    BY DEF GlobInv
  <1>2. PICK i \in Nat, j \in Nat, s \in Nat, k \in Nat :
            i = scan.pi - 1 /\ j = scan.vi - 1 /\ s = scan.star /\ k = scan.mark - 1
    BY <1>1 DEF Scans
  <1>3. scan.pi = i + 1 /\ scan.vi = j + 1 /\ scan.mark = k + 1
    BY <1>1, <1>2 DEF Scans
  <1>4. scan = [pi |-> i + 1, vi |-> j + 1, star |-> s, mark |-> k + 1]
    BY <1>1, <1>2, <1>3 DEF Scans
  <1>5. Progress(glob, globText, i, j, s, k)
    BY <1>1, <1>2
  <1>6. i <= Len(glob) /\ j <= Len(globText)
    BY <1>1, <1>5 DEF Progress, Patterns, Values
  <1> QED BY <1>1, <1>4, <1>5, <1>6

\* A step that goes on goes on with progress.
LEMMA ProgressIsInv ==
    ASSUME NEW p \in Patterns, NEW v \in Values, NEW i \in Nat, NEW j \in Nat, NEW s \in Nat, NEW k \in Nat,
           Progress(p, v, i, j, s, k), Wildcards(p) <= MaxGlobWildcards,
           glob' = p, globText' = v, globAnswer' = "open",
           scan' = [pi |-> i + 1, vi |-> j + 1, star |-> s, mark |-> k + 1]
    PROVE  GlobInv'
  <1>1. scan' \in Scans
    BY DEF Scans
  <1>2. scan'.pi - 1 = i /\ scan'.vi - 1 = j /\ scan'.star = s /\ scan'.mark - 1 = k
    OBVIOUS
  <1>3. Progress(glob', globText', scan'.pi - 1, scan'.vi - 1, scan'.star, scan'.mark - 1)
    BY <1>2
  <1>4. Wildcards(glob') <= MaxGlobWildcards
    OBVIOUS
  <1>5. GlobIsExact'
    BY DEF GlobIsExact
  <1> QED BY <1>1, <1>3, <1>4, <1>5 DEF GlobInv

LEMMA LettersAreLiteral ==
    ASSUME NEW v \in Values, NEW j \in Nat, j < Len(v)
    PROVE  v[j + 1] \notin {"*", "end"}
  <1>1. j + 1 \in DOMAIN v
    BY DEF Values
  <1>2. v[j + 1] \in Letters
    BY <1>1 DEF Values
  <1> QED BY <1>2, GlobAssumption

LEMMA ScanGoesOn ==
    ASSUME GlobInv, Star \/ Literal \/ Backtrack
    PROVE  GlobInv'
  <1>1. globAnswer = "open" /\ UNCHANGED <<glob, globText, globAnswer>> /\ scan.vi <= Len(globText)
    BY DEF Star, Literal, Backtrack
  <1>2. PICK p \in Patterns, v \in Values, i \in Nat, j \in Nat, s \in Nat, k \in Nat :
              /\ p = glob /\ v = globText /\ i <= Len(p) /\ j <= Len(v)
              /\ scan = [pi |-> i + 1, vi |-> j + 1, star |-> s, mark |-> k + 1]
              /\ Progress(p, v, i, j, s, k) /\ Wildcards(p) <= MaxGlobWildcards
    BY <1>1, ScanIsProgress
  <1>3. PICK n \in Nat, m \in Nat : n = Len(p) /\ m = Len(v)
    BY DEF Patterns, Values
  <1>4. scan.pi = i + 1 /\ scan.vi = j + 1 /\ scan.star = s /\ scan.mark = k + 1
    BY <1>2
  <1>5. j < m
    BY <1>1, <1>2, <1>3, <1>4
  <1>6. At(scan.pi) = IF i < n THEN p[i + 1] ELSE "end"
    BY <1>2, <1>3, <1>4 DEF At
  <1>7. globText[scan.vi] = v[j + 1] /\ v[j + 1] \notin {"*", "end"}
    BY <1>2, <1>3, <1>4, <1>5, LettersAreLiteral
  <1>8. CASE Star
    <2>1. i < n /\ p[i + 1] = "*"
      BY <1>6, <1>8 DEF Star
    <2>2. Progress(p, v, i + 1, j, i + 1, j)
      BY <1>2, <1>3, <2>1, StarProgresses
    <2>3. scan' = [pi |-> (i + 1) + 1, vi |-> j + 1, star |-> i + 1, mark |-> j + 1]
      BY <1>4, <1>8 DEF Star
    <2>4. glob' = p /\ globText' = v /\ globAnswer' = "open"
      BY <1>1, <1>2
    <2> QED BY <1>2, <2>2, <2>3, <2>4, ProgressIsInv
  <1>9. CASE Literal
    <2>1. i < n /\ p[i + 1] = v[j + 1] /\ p[i + 1] # "*"
      BY <1>6, <1>7, <1>9 DEF Literal
    <2>2. Progress(p, v, i + 1, j + 1, s, k)
      BY <1>2, <1>3, <1>5, <2>1, LiteralProgresses
    <2>3. scan' = [pi |-> (i + 1) + 1, vi |-> (j + 1) + 1, star |-> s, mark |-> k + 1]
      BY <1>2, <1>9 DEF Literal
    <2>4. glob' = p /\ globText' = v /\ globAnswer' = "open"
      BY <1>1, <1>2
    <2> QED BY <1>2, <2>2, <2>3, <2>4, ProgressIsInv
  <1>10. CASE Backtrack
    <2>1. s # 0 /\ (i = n \/ (p[i + 1] # "*" /\ p[i + 1] # v[j + 1]))
      BY <1>2, <1>3, <1>4, <1>6, <1>7, <1>10 DEF Backtrack
    <2>2. Progress(p, v, s, k + 1, s, k + 1)
      BY <1>2, <1>3, <1>5, <2>1, BacktrackProgresses
    <2>3. scan' = [pi |-> s + 1, vi |-> (k + 1) + 1, star |-> s, mark |-> (k + 1) + 1]
      BY <1>4, <1>10 DEF Backtrack, Resume
    <2>4. glob' = p /\ globText' = v /\ globAnswer' = "open"
      BY <1>1, <1>2
    <2> QED BY <1>2, <2>2, <2>3, <2>4, ProgressIsInv
  <1> QED BY <1>8, <1>9, <1>10

LEMMA ScanAnswers ==
    ASSUME GlobInv, Mismatch \/ Consumed
    PROVE  GlobInv'
  <1>1. globAnswer = "open" /\ UNCHANGED <<glob, globText, scan>>
    BY DEF Mismatch, Consumed
  <1>2. PICK p \in Patterns, v \in Values, i \in Nat, j \in Nat, s \in Nat, k \in Nat :
              /\ p = glob /\ v = globText /\ i <= Len(p) /\ j <= Len(v)
              /\ scan = [pi |-> i + 1, vi |-> j + 1, star |-> s, mark |-> k + 1]
              /\ Progress(p, v, i, j, s, k) /\ Wildcards(p) <= MaxGlobWildcards
    BY <1>1, ScanIsProgress
  <1>3. PICK n \in Nat, m \in Nat : n = Len(p) /\ m = Len(v)
    BY DEF Patterns, Values
  <1>4. scan.pi = i + 1 /\ scan.vi = j + 1 /\ scan.star = s
    BY <1>2
  <1>5. scan' \in Scans
    BY <1>1 DEF GlobInv
  <1>6. globAnswer' \in {"yes", "no"} /\ ((globAnswer' = "yes") <=> Reads(p, v, 0, 0))
    <2>1. CASE Mismatch
      <3>1. s = 0 /\ j < m
        BY <1>2, <1>3, <1>4, <2>1 DEF Mismatch
      <3>2. At(scan.pi) = IF i < n THEN p[i + 1] ELSE "end"
        BY <1>2, <1>3, <1>4 DEF At
      <3>3. i = n \/ (p[i + 1] # "*" /\ p[i + 1] # v[j + 1])
        BY <1>2, <1>3, <1>4, <2>1, <3>2 DEF Mismatch
      <3>4. i \in 0 .. Len(p)
        BY <1>2, <1>3
      <3>5. ~Reads(p, v, i, j)
        BY <1>3, <3>1, <3>3, <3>4, MisfitReadsNothing
      <3>6. ~Reads(p, v, 0, 0)
        BY <1>2, <3>1, <3>5 DEF Progress
      <3> QED BY <2>1, <3>6 DEF Mismatch
    <2>2. CASE Consumed
      <3>1. j = m
        BY <1>2, <1>3, <1>4, <2>2 DEF Consumed
      <3>2. Reads(p, v, 0, 0) <=> \A x \in (i + 1) .. Len(p) : p[x] = "*"
        BY <1>2, <1>3, <3>1, ConsumedDecides
      <3>3. globAnswer' = IF \A x \in (i + 1) .. Len(p) : p[x] = "*" THEN "yes" ELSE "no"
        BY <1>2, <1>4, <2>2 DEF Consumed
      <3> QED BY <3>2, <3>3
    <2> QED BY <2>1, <2>2
  <1>7. GlobIsExact'
    BY <1>1, <1>2, <1>6 DEF GlobIsExact, Means, Reads
  <1>8. glob' \in Patterns /\ globText' \in Values
    BY <1>1, <1>2
  <1>9. globAnswer' # "open" /\ globAnswer' \in {"open", "yes", "no"}
    BY <1>6
  <1> QED BY <1>5, <1>7, <1>8, <1>9 DEF GlobInv

\* The greedy scan with its one backtracking point answers what a pattern means,
\* whatever the pattern, the value and their lengths: an exclude pattern misses
\* no model it names and an allow pattern admits none it does not
\* (selector.ts:33-66).
THEOREM GlobsAreExact == GlobSpec => []GlobIsExact
  <1>1. GlobInv /\ [GlobNext]_globVars => GlobInv'
    <2> SUFFICES ASSUME GlobInv, [GlobNext]_globVars PROVE GlobInv'
      OBVIOUS
    <2>1. CASE UNCHANGED globVars
      <3>1. glob' = glob /\ globText' = globText /\ scan' = scan /\ globAnswer' = globAnswer
        BY <2>1 DEF globVars
      <3> QED BY <3>1 DEF GlobInv, GlobIsExact
    <2>2. CASE GlobNext
      BY <2>2, ScanGoesOn, ScanAnswers DEF GlobNext
    <2> QED BY <2>1, <2>2
  <1>2. GlobInv => GlobIsExact
    BY DEF GlobInv
  <1> QED BY <1>1, <1>2, GlobInitInv, PTL DEF GlobSpec

-----------------------------------------------------------------------------
\* Provider plans: a finite set in a total order.

StrictTotal(S, R) ==
    /\ \A x \in S : <<x, x>> \notin R
    /\ \A x, y \in S : x # y => <<x, y>> \in R \/ <<y, x>> \in R
    /\ \A x, y, z \in S : <<x, y>> \in R /\ <<y, z>> \in R => <<x, z>> \in R

\* Counting predecessors numbers the members from 0, each once.
LEMMA PlacesAreTaken ==
    ASSUME NEW S, IsFiniteSet(S), NEW R, StrictTotal(S, R)
    PROVE  \E place \in [S -> 0 .. (Cardinality(S) - 1)] :
              /\ \A x \in S : place[x] = Cardinality({y \in S : <<y, x>> \in R})
              /\ \A x, y \in S : <<x, y>> \in R => place[x] < place[y]
              /\ \A n \in 0 .. (Cardinality(S) - 1) : \E x \in S : place[x] = n
  <1> DEFINE before(x) == {y \in S : <<y, x>> \in R}
             place == [x \in S |-> Cardinality(before(x))]
             N == Cardinality(S)
             T == 0 .. (N - 1)
  <1>1. N \in Nat
    BY FS_CardinalityType
  <1>2. ASSUME NEW x \in S
        PROVE  IsFiniteSet(before(x)) /\ Cardinality(before(x)) \in Nat /\ Cardinality(before(x)) < N
    <2>1. before(x) \subseteq S /\ x \notin before(x)
      BY DEF StrictTotal
    <2>2. before(x) # S
      BY <2>1
    <2> HIDE DEF before
    <2>3. IsFiniteSet(before(x)) /\ Cardinality(before(x)) <= N /\ Cardinality(before(x)) # N
      BY <2>1, <2>2, FS_Subset
    <2>4. Cardinality(before(x)) \in Nat
      BY <2>3, FS_CardinalityType
    <2> QED BY <1>1, <2>3, <2>4
  <1>3. ASSUME NEW x \in S, NEW y \in S, <<x, y>> \in R PROVE Cardinality(before(x)) < Cardinality(before(y))
    <2>1. before(x) \subseteq before(y)
      BY <1>3 DEF StrictTotal
    <2>2. x \in before(y) /\ x \notin before(x)
      BY <1>3 DEF StrictTotal
    <2>3. before(x) # before(y)
      BY <2>2
    <2> HIDE DEF before
    <2>4. IsFiniteSet(before(y)) /\ Cardinality(before(y)) \in Nat /\ Cardinality(before(x)) \in Nat
      BY <1>2
    <2>5. Cardinality(before(x)) <= Cardinality(before(y)) /\ Cardinality(before(x)) # Cardinality(before(y))
      BY <2>1, <2>3, <2>4, FS_Subset
    <2> QED BY <2>4, <2>5
  <1>4. \A x \in S : Cardinality(before(x)) \in T
    <2> HIDE DEF before
    <2> QED BY <1>1, <1>2
  <1>5. \A x \in S : place[x] = Cardinality(before(x))
    OBVIOUS
  <1>6. place \in [S -> T]
    <2> HIDE DEF before, T
    <2> QED BY <1>4
  <1> HIDE DEF before, place
  <1>7. \A x, y \in S : place[x] = place[y] => x = y
    <2> SUFFICES ASSUME NEW x \in S, NEW y \in S, place[x] = place[y], x # y PROVE FALSE
      OBVIOUS
    <2>1. <<x, y>> \in R \/ <<y, x>> \in R
      BY DEF StrictTotal
    <2>2. Cardinality(before(x)) \in Nat /\ Cardinality(before(y)) \in Nat
      BY <1>2
    <2> QED BY <1>3, <1>5, <2>1, <2>2
  <1>8. place \in Injection(S, T)
    <2>1. DOMAIN place = S
      BY <1>6
    <2> QED BY <1>6, <1>7, <2>1 DEF Injection, IsInjective
  <1>9. IsFiniteSet(T) /\ Cardinality(T) = Cardinality(S)
    <2>1. IsFiniteSet(0 .. (N - 1)) /\ Cardinality(0 .. (N - 1)) = N
      <3>1. \A a, b \in Int : IsFiniteSet(a .. b) /\ Cardinality(a .. b) = IF a > b THEN 0 ELSE b - a + 1
        BY FS_Interval
      <3>2. N - 1 \in Int
        BY <1>1
      <3>3. IsFiniteSet(0 .. (N - 1)) /\ Cardinality(0 .. (N - 1)) = IF 0 > N - 1 THEN 0 ELSE (N - 1) - 0 + 1
        BY <3>1, <3>2
      <3> HIDE DEF N
      <3> QED BY <1>1, <3>3
    <2> QED BY <2>1
  <1>10. place \in Surjection(S, T)
    <2> HIDE DEF T
    <2> QED BY <1>8, <1>9, FS_Injection
  <1>11. \A n \in T : \E x \in S : place[x] = n
    <2> HIDE DEF T
    <2> QED BY <1>10 DEF Surjection
  <1>12. \A x \in S : place[x] = Cardinality({y \in S : <<y, x>> \in R})
    BY <1>5 DEF before
  <1>13. \A x, y \in S : <<x, y>> \in R => place[x] < place[y]
    BY <1>3, <1>5
  <1> QED BY <1>6, <1>11, <1>12, <1>13

\* InOrder lists each member once, and begins with the one before all others.
LEMMA InOrderEnumerates ==
    ASSUME NEW S, IsFiniteSet(S), NEW R, StrictTotal(S, R)
    PROVE  /\ InOrder(S, R) \in [1 .. Cardinality(S) -> S]
           /\ \A m, n \in 1 .. Cardinality(S) : InOrder(S, R)[m] = InOrder(S, R)[n] => m = n
           /\ S # {} => /\ Cardinality(S) >= 1
                        /\ \A y \in S \ {InOrder(S, R)[1]} : <<InOrder(S, R)[1], y>> \in R
  <1>1. PICK N \in Nat : N = Cardinality(S)
    BY FS_CardinalityType
  <1>2. PICK place \in [S -> 0 .. (N - 1)] :
              /\ \A x \in S : place[x] = Cardinality({y \in S : <<y, x>> \in R})
              /\ \A x, y \in S : <<x, y>> \in R => place[x] < place[y]
              /\ \A n \in 0 .. (N - 1) : \E x \in S : place[x] = n
    BY <1>1, PlacesAreTaken
  <1> DEFINE s == InOrder(S, R)
             nth(n) == CHOOSE x \in S : Cardinality({y \in S : <<y, x>> \in R}) = n - 1
  <1>3. ASSUME NEW n \in 1 .. N PROVE nth(n) \in S /\ place[nth(n)] = n - 1
    <2>1. n - 1 \in 0 .. (N - 1)
      OBVIOUS
    <2>2. PICK x \in S : place[x] = n - 1
      BY <1>2, <2>1
    <2>3. Cardinality({y \in S : <<y, x>> \in R}) = n - 1
      BY <1>2, <2>2
    <2>4. nth(n) \in S /\ Cardinality({y \in S : <<y, nth(n)>> \in R}) = n - 1
      BY <2>3
    <2> HIDE DEF nth
    <2> QED BY <1>2, <2>4
  <1>4. s = [n \in 1 .. Cardinality(S) |-> nth(n)]
    BY Zenon DEF InOrder
  <1> HIDE DEF nth, s
  <1>5. s = [n \in 1 .. N |-> nth(n)]
    BY <1>1, <1>4
  <1>6. s \in [1 .. N -> S] /\ \A n \in 1 .. N : place[s[n]] = n - 1 /\ s[n] \in S
    BY <1>3, <1>5
  <1>7. \A m, n \in 1 .. N : s[m] = s[n] => m = n
    BY <1>6
  <1>8. ASSUME S # {} PROVE N >= 1 /\ \A y \in S \ {s[1]} : <<s[1], y>> \in R
    <2>1. N >= 1
      BY <1>1, <1>8, FS_EmptySet
    <2>2. 1 \in 1 .. N /\ place[s[1]] = 0 /\ s[1] \in S
      BY <1>6, <2>1
    <2>3. ASSUME NEW y \in S \ {s[1]} PROVE <<s[1], y>> \in R
      <3>1. place[y] \in 0 .. (N - 1)
        BY <1>2
      <3>2. <<y, s[1]>> \notin R
        BY <1>2, <2>2, <3>1
      <3> QED BY <2>2, <3>2 DEF StrictTotal
    <2> QED BY <2>1, <2>3
  <1> QED BY <1>1, <1>6, <1>7, <1>8 DEF s

\* Comparing keys one after the other orders them totally.
Lex(x, y) == \E n \in DOMAIN x : x[n] < y[n] /\ \A m \in 1 .. (n - 1) : x[m] = y[m]

LEMMA LexIsTotal ==
    ASSUME NEW N \in Nat, NEW x \in [1 .. N -> Int], NEW y \in [1 .. N -> Int], x # y
    PROVE  Lex(x, y) \/ Lex(y, x)
  <1> DEFINE D == {n \in 1 .. N : x[n] # y[n]}
  <1>1. D \in SUBSET Nat /\ D # {}
    OBVIOUS
  <1> HIDE DEF D
  <1>2. PICK n \in D : \A m \in D : n <= m
    BY <1>1, LeastNatural
  <1>3. n \in 1 .. N /\ x[n] # y[n]
    BY <1>2 DEF D
  <1>4. \A m \in 1 .. (n - 1) : x[m] = y[m]
    <2> SUFFICES ASSUME NEW m \in 1 .. (n - 1), x[m] # y[m] PROVE FALSE
      OBVIOUS
    <2>1. m \in D /\ m < n
      BY <1>3 DEF D
    <2> QED BY <1>2, <1>3, <2>1
  <1>5. x[n] < y[n] \/ y[n] < x[n]
    BY <1>3
  <1> QED BY <1>3, <1>4, <1>5 DEF Lex

LEMMA LexIsStrict ==
    ASSUME NEW N \in Nat, NEW x \in [1 .. N -> Int], NEW y \in [1 .. N -> Int], NEW z \in [1 .. N -> Int]
    PROVE  ~Lex(x, x) /\ (Lex(x, y) /\ Lex(y, z) => Lex(x, z))
  <1>1. ~Lex(x, x)
    BY DEF Lex
  <1>2. ASSUME Lex(x, y), Lex(y, z) PROVE Lex(x, z)
    <2>1. PICK n \in 1 .. N : x[n] < y[n] /\ \A m \in 1 .. (n - 1) : x[m] = y[m]
      BY <1>2 DEF Lex
    <2>2. PICK k \in 1 .. N : y[k] < z[k] /\ \A m \in 1 .. (k - 1) : y[m] = z[m]
      BY <1>2 DEF Lex
    <2>3. CASE n < k
      <3>1. n \in 1 .. (k - 1)
        BY <2>3
      <3>2. x[n] < z[n]
        BY <2>1, <2>2, <3>1
      <3>3. \A m \in 1 .. (n - 1) : x[m] = z[m]
        BY <2>1, <2>2, <2>3
      <3> QED BY <3>2, <3>3 DEF Lex
    <2>4. CASE n = k
      <3>1. x[n] < z[n]
        BY <2>1, <2>2, <2>4
      <3>2. \A m \in 1 .. (n - 1) : x[m] = z[m]
        BY <2>1, <2>2, <2>4
      <3> QED BY <3>1, <3>2 DEF Lex
    <2>5. CASE k < n
      <3>1. k \in 1 .. (n - 1)
        BY <2>5
      <3>2. x[k] < z[k]
        BY <2>1, <2>2, <3>1
      <3>3. \A m \in 1 .. (k - 1) : x[m] = z[m]
        BY <2>1, <2>2, <2>5
      <3> QED BY <3>2, <3>3 DEF Lex
    <2> QED BY <2>3, <2>4, <2>5
  <1> QED BY <1>1, <1>2

\* A strict total order of keys that tell routes apart, under their slots, is one
\* of the routes.
LEMMA KeyedOrderIsTotal ==
    ASSUME NEW S, NEW N \in Nat, NEW key \in [S -> [1 .. N -> Int]], NEW slot \in [S -> Int],
           \A a, b \in S : key[a] = key[b] => a = b,
           NEW R, \A a, b \in S : <<a, b>> \in R <=> slot[a] < slot[b] \/ (slot[a] = slot[b] /\ Lex(key[a], key[b]))
    PROVE  StrictTotal(S, R)
  <1>1. ASSUME NEW a \in S PROVE <<a, a>> \notin R
    <2>1. key[a] \in [1 .. N -> Int] /\ slot[a] \in Int
      OBVIOUS
    <2>2. ~Lex(key[a], key[a])
      BY <2>1, LexIsStrict
    <2>3. ~(slot[a] < slot[a])
      BY <2>1
    <2> QED BY <2>2, <2>3
  <1>2. \A a, b \in S : a # b => <<a, b>> \in R \/ <<b, a>> \in R
    <2> SUFFICES ASSUME NEW a \in S, NEW b \in S, a # b PROVE <<a, b>> \in R \/ <<b, a>> \in R
      OBVIOUS
    <2>1. key[a] # key[b] /\ key[a] \in [1 .. N -> Int] /\ key[b] \in [1 .. N -> Int]
      OBVIOUS
    <2>2. Lex(key[a], key[b]) \/ Lex(key[b], key[a])
      BY <2>1, LexIsTotal
    <2>3. slot[a] \in Int /\ slot[b] \in Int
      OBVIOUS
    <2> QED BY <2>2, <2>3
  <1>3. ASSUME NEW a \in S, NEW b \in S, NEW c \in S, <<a, b>> \in R, <<b, c>> \in R PROVE <<a, c>> \in R
    <2>1. key[a] \in [1 .. N -> Int] /\ key[b] \in [1 .. N -> Int] /\ key[c] \in [1 .. N -> Int]
      OBVIOUS
    <2>2. Lex(key[a], key[b]) /\ Lex(key[b], key[c]) => Lex(key[a], key[c])
      BY <2>1, LexIsStrict
    <2>3. slot[a] \in Int /\ slot[b] \in Int /\ slot[c] \in Int
      OBVIOUS
    <2>4. slot[a] < slot[b] \/ (slot[a] = slot[b] /\ Lex(key[a], key[b]))
      BY <1>3
    <2>5. slot[b] < slot[c] \/ (slot[b] = slot[c] /\ Lex(key[b], key[c]))
      BY <1>3
    <2>6. <<a, c>> \in R <=> slot[a] < slot[c] \/ (slot[a] = slot[c] /\ Lex(key[a], key[c]))
      OBVIOUS
    <2>7. PICK i \in Int, j \in Int, k \in Int : i = slot[a] /\ j = slot[b] /\ k = slot[c]
      BY <2>3
    <2>8. i < k \/ (i = k /\ Lex(key[a], key[c]))
      BY <2>2, <2>4, <2>5, <2>7
    <2> QED BY <2>6, <2>7, <2>8
  <1> QED BY <1>1, <1>2, <1>3 DEF StrictTotal

-----------------------------------------------------------------------------
\* Provider plans: the order in which routes are tried.

Width(sort) == IF sort \in {"price", "latency", "throughput"} THEN 5 ELSE 6

LEMMA FiveKeys ==
    ASSUME NEW a \in Int, NEW b \in Int, NEW c \in Int, NEW d \in Int, NEW e \in Int
    PROVE  <<a, b, c, d, e>> \in [1 .. 5 -> Int] /\ <<a, b, c, d, e>>[5] = e
  <1> DEFINE t == <<a, b, c, d, e>>
  <1>1. t \in Seq(Int) /\ Len(t) = 5 /\ t[5] = e
    OBVIOUS
  <1> HIDE DEF t
  <1>2. t \in [1 .. 5 -> Int]
    BY <1>1, LenProperties
  <1> QED BY <1>1, <1>2 DEF t

LEMMA SixKeys ==
    ASSUME NEW a \in Int, NEW b \in Int, NEW c \in Int, NEW d \in Int, NEW e \in Int, NEW g \in Int
    PROVE  <<a, b, c, d, e, g>> \in [1 .. 6 -> Int] /\ <<a, b, c, d, e, g>>[6] = g /\ <<a, b, c, d, e, g>>[1] = a
  <1> DEFINE t == <<a, b, c, d, e, g>>
  <1>1. t \in Seq(Int) /\ Len(t) = 6 /\ t[6] = g /\ t[1] = a
    OBVIOUS
  <1> HIDE DEF t
  <1>2. t \in [1 .. 6 -> Int]
    BY <1>1, LenProperties
  <1> QED BY <1>1, <1>2 DEF t

LEMMA RanksAreNumbers ==
    ASSUME NEW r \in PlanRoutes
    PROVE  RankOf(r) \in 0 .. 3 /\ TieBreakRank(RouteInfo[r].provider) \in Int
  <1>1. RankOf(r) \in 0 .. 3
    BY DEF RankOf, PrivacyRank
  <1>2. TieBreakRank(RouteInfo[r].provider) \in Int
    <2>1. PICK T : T = TieBreakOrder
      OBVIOUS
    <2>2. DOMAIN T = 1 .. 9 /\ Len(T) = 9
      BY <2>1 DEF TieBreakOrder
    <2>3. PICK q : q = RouteInfo[r].provider
      OBVIOUS
    <2>4. TieBreakRank(q) = IF \E i \in DOMAIN T : T[i] = q THEN CHOOSE i \in DOMAIN T : T[i] = q ELSE Len(T) + 1
      BY <2>1 DEF TieBreakRank
    <2>5. TieBreakRank(q) \in Int
      BY <2>2, <2>4
    <2> QED BY <2>3, <2>5
  <1> QED BY <1>1, <1>2

\* The keys of a route are numbers, the last of them the route itself.
LEMMA KeysAreNumbers ==
    ASSUME NEW sort, NEW r \in PlanRoutes
    PROVE  /\ ComparisonKeys(r, sort) \in [1 .. Width(sort) -> Int]
           /\ ComparisonKeys(r, sort)[Width(sort)] = r
           /\ Width(sort) = 6 => ComparisonKeys(r, sort)[1] = -RankOf(r)
  <1>1. PICK tie \in Int : tie = TieBreakRank(RouteInfo[r].provider)
    BY RanksAreNumbers
  <1>2. PICK latency \in Int : latency = RouteInfo[r].latency
    BY PlanAssumption
  <1>3. PICK price \in Int : price = PriceKey(r)
    BY PlanAssumption DEF PriceKey
  <1>4. PICK h \in Int : h = HealthKey(r)
    BY DEF HealthKey
  <1>5. PICK tps \in Int : tps = -RouteInfo[r].tps
    BY PlanAssumption
  <1>6. PICK rank \in Int : rank = -RankOf(r)
    BY RanksAreNumbers
  <1>7. r \in Int
    BY PlanAssumption
  <1>8. ComparisonKeys(r, sort) = IF sort = "price" THEN <<price, h, latency, tie, r>>
                                  ELSE IF sort = "latency" THEN <<latency, h, price, tie, r>>
                                  ELSE IF sort = "throughput" THEN <<tps, h, price, tie, r>>
                                  ELSE <<rank, h, price, latency, tie, r>>
    BY <1>1, <1>2, <1>3, <1>4, <1>5, <1>6 DEF ComparisonKeys
  <1>9. CASE sort \in {"price", "latency", "throughput"}
    <2>1. Width(sort) = 5
      BY <1>9 DEF Width
    <2>2. \/ ComparisonKeys(r, sort) = <<price, h, latency, tie, r>>
          \/ ComparisonKeys(r, sort) = <<latency, h, price, tie, r>>
          \/ ComparisonKeys(r, sort) = <<tps, h, price, tie, r>>
      BY <1>8, <1>9
    <2>3. ComparisonKeys(r, sort) \in [1 .. 5 -> Int] /\ ComparisonKeys(r, sort)[5] = r
      <3>1. <<price, h, latency, tie, r>> \in [1 .. 5 -> Int] /\ <<price, h, latency, tie, r>>[5] = r
        BY <1>7, FiveKeys
      <3>2. <<latency, h, price, tie, r>> \in [1 .. 5 -> Int] /\ <<latency, h, price, tie, r>>[5] = r
        BY <1>7, FiveKeys
      <3>3. <<tps, h, price, tie, r>> \in [1 .. 5 -> Int] /\ <<tps, h, price, tie, r>>[5] = r
        BY <1>7, FiveKeys
      <3> QED BY Zenon, <2>2, <3>1, <3>2, <3>3
    <2> QED BY <2>1, <2>3
  <1>10. CASE sort \notin {"price", "latency", "throughput"}
    <2>1. Width(sort) = 6
      BY <1>10 DEF Width
    <2>2. ComparisonKeys(r, sort) = <<rank, h, price, latency, tie, r>>
      BY <1>8, <1>10
    <2>3. /\ <<rank, h, price, latency, tie, r>> \in [1 .. 6 -> Int]
          /\ <<rank, h, price, latency, tie, r>>[6] = r
          /\ <<rank, h, price, latency, tie, r>>[1] = rank
      BY <1>7, SixKeys
    <2>4. /\ ComparisonKeys(r, sort) \in [1 .. 6 -> Int]
          /\ ComparisonKeys(r, sort)[6] = r
          /\ ComparisonKeys(r, sort)[1] = rank
      BY Zenon, <2>2, <2>3
    <2> QED BY <1>6, <2>1, <2>4
  <1> QED BY <1>9, <1>10

\* Its place in an explicit order is a slot of it or the one after the last.
LEMMA SlotIsANumber ==
    ASSUME NEW r, NEW order, Len(order) \in Nat, DOMAIN order = 1 .. Len(order)
    PROVE  SlotOf(r, order) \in 1 .. (Len(order) + 1)
  <1>1. PICK named : named = {n \in DOMAIN order : InList(r, {order[n]})}
    OBVIOUS
  <1>2. SlotOf(r, order) = IF named = {} THEN Len(order) + 1 ELSE CHOOSE n \in named : \A m \in named : n <= m
    BY <1>1 DEF SlotOf
  <1>3. named \in SUBSET Nat /\ named \subseteq 1 .. Len(order)
    BY <1>1
  <1>4. named # {} => \E n \in named : \A m \in named : n <= m
    BY <1>3, LeastNatural
  <1>5. CASE named = {}
    BY <1>2, <1>5
  <1>6. CASE named # {}
    <2>1. SlotOf(r, order) \in named
      BY <1>2, <1>4, <1>6
    <2>2. PICK k : k = SlotOf(r, order)
      OBVIOUS
    <2>3. k \in 1 .. Len(order)
      BY <1>3, <2>1, <2>2
    <2>4. k \in 1 .. (Len(order) + 1)
      BY <2>3
    <2> QED BY <2>2, <2>4
  <1> QED BY <1>5, <1>6

\* The routes are tried in a strict total order.
LEMMA TriedInOrder ==
    ASSUME NEW S \in SUBSET PlanRoutes, NEW p, Len(p.order) \in Nat, DOMAIN p.order = 1 .. Len(p.order)
    PROVE  StrictTotal(S, TriedBefore(p))
  <1>1. PICK N \in Nat : N = Width(p.sort)
    BY DEF Width
  <1>2. PICK key : key = [r \in S |-> ComparisonKeys(r, p.sort)]
    OBVIOUS
  <1>3. PICK slot : slot = [r \in S |-> SlotOf(r, p.order)]
    OBVIOUS
  <1>4. PICK R : R = TriedBefore(p)
    OBVIOUS
  <1>5. \A r \in S : ComparisonKeys(r, p.sort) \in [1 .. N -> Int] /\ ComparisonKeys(r, p.sort)[N] = r
    BY <1>1, KeysAreNumbers
  <1>6. \A r \in S : SlotOf(r, p.order) \in Int
    BY SlotIsANumber
  <1>7. key \in [S -> [1 .. N -> Int]] /\ slot \in [S -> Int]
    BY <1>2, <1>3, <1>5, <1>6
  <1>8. \A a, b \in S : key[a] = key[b] => a = b
    BY <1>2, <1>5
  <1>9. ASSUME NEW a \in S, NEW b \in S
        PROVE  <<a, b>> \in R <=> slot[a] < slot[b] \/ (slot[a] = slot[b] /\ Lex(key[a], key[b]))
    <2>1. CompareRoutes(a, b, p.sort) <=> Lex(key[a], key[b])
      BY <1>2 DEF CompareRoutes, Lex
    <2>2. <<a, b>> \in TriedBefore(p) <=> \/ SlotOf(a, p.order) < SlotOf(b, p.order)
                                          \/ SlotOf(a, p.order) = SlotOf(b, p.order) /\ CompareRoutes(a, b, p.sort)
      BY DEF TriedBefore
    <2> QED BY <1>3, <1>4, <2>1, <2>2
  <1>10. StrictTotal(S, R)
    BY <1>7, <1>8, <1>9, KeyedOrderIsTotal
  <1> QED BY <1>4, <1>10

\* Sorted for privacy with no order named, no route is tried before a stronger one.
LEMMA StrongestIsFirst ==
    ASSUME NEW p, p.order = <<>>, p.sort = "privacy",
           NEW a \in PlanRoutes, NEW b \in PlanRoutes, <<a, b>> \in TriedBefore(p)
    PROVE  RankOf(a) >= RankOf(b)
  <1>1. SlotOf(a, p.order) = 1 /\ SlotOf(b, p.order) = 1
    BY DEF SlotOf
  <1>2. CompareRoutes(a, b, "privacy")
    BY <1>1 DEF TriedBefore
  <1>3. PICK x, y : x = ComparisonKeys(a, "privacy") /\ y = ComparisonKeys(b, "privacy")
    OBVIOUS
  <1>4. x \in [1 .. 6 -> Int] /\ y \in [1 .. 6 -> Int] /\ x[1] = -RankOf(a) /\ y[1] = -RankOf(b)
    <2>1. Width("privacy") = 6
      BY DEF Width
    <2> QED BY <1>3, <2>1, KeysAreNumbers
  <1>5. PICK n \in 1 .. 6 : x[n] < y[n] /\ \A m \in 1 .. (n - 1) : x[m] = y[m]
    BY <1>2, <1>3, <1>4 DEF CompareRoutes
  <1>6. n = 1 \/ 1 \in 1 .. (n - 1)
    OBVIOUS
  <1>7. x[1] <= y[1]
    BY <1>4, <1>5, <1>6
  <1>8. RankOf(a) \in Int /\ RankOf(b) \in Int
    BY RanksAreNumbers
  <1>9. -RankOf(a) <= -RankOf(b)
    BY <1>4, <1>7
  <1> QED BY <1>8, <1>9

-----------------------------------------------------------------------------
\* Provider plans: what a plan consists of.

Priced(p, f) == {r \in PlanRoutes : Attemptable(r) /\ Capable(r, p, f) /\ PassesMaxPrice(r, p)}
Floored(p, f) == {r \in Priced(p, f) : RankOf(r) >= HardFloor(p)}
Confined(p, f, sized) ==
    Confine(Ordered(Floored(p, f), ExplicitRoutes(Floored(p, f), p.order), p),
            ExplicitRoutes(Floored(p, f), p.order), p, f, sized)
Fitting(p, f, sized) == {r \in Confined(p, f, sized) : FitsContext(r, f, sized)}

\* A plan that was made is the bounded one of the routes that fit.
LEMMA PlanShape ==
    ASSUME NEW p, NEW f, NEW sized, BuildProviderRoutingPlan(p, f, sized).ok
    PROVE  /\ Floored(p, f) # {} /\ Fitting(p, f, sized) # {}
           /\ BuildProviderRoutingPlan(p, f, sized)
                = Bounded(SubSeq(InOrder(Fitting(p, f, sized), TriedBefore(p)), 1,
                                 LesserOf(Cardinality(Fitting(p, f, sized)), IF p.fallbacks THEN p.attempts ELSE 1)), f, sized)
  <1> DEFINE capable == {r \in PlanRoutes : Attemptable(r) /\ Capable(r, p, f)}
             priced == {r \in capable : PassesMaxPrice(r, p)}
             floored == {r \in priced : RankOf(r) >= HardFloor(p)}
             plan1 == PlanOfFloored(floored, ExplicitRoutes(floored, p.order), p, f, sized)
  <1>1. priced = Priced(p, f)
    BY DEF Priced
  <1>2. floored = Floored(p, f)
    BY <1>1 DEF Floored
  <1>3. \A why : Failed(why).ok = FALSE
    BY DEF Failed
  <1>4. BuildProviderRoutingPlan(p, f, sized) =
          IF capable = {} THEN Failed("no_provider_route")
          ELSE IF priced = {} THEN Failed("no_provider_route_meets_price")
          ELSE IF floored = {} THEN Failed("no_provider_route_meets_privacy")
          ELSE plan1
    BY DEF BuildProviderRoutingPlan
  <1> HIDE DEF capable, priced, floored, plan1
  <1>5. floored # {} /\ BuildProviderRoutingPlan(p, f, sized) = plan1
    BY <1>3, <1>4
  <1>6. plan1 = PlanOfFitting(Fitting(p, f, sized), p, f, sized)
    BY <1>2 DEF plan1, PlanOfFloored, PlanOfOrder, Fitting, Confined
  <1>7. PlanOfFitting(Fitting(p, f, sized), p, f, sized) =
          IF Fitting(p, f, sized) = {} THEN Failed("no_provider_route_fits_context")
          ELSE Bounded(SubSeq(InOrder(Fitting(p, f, sized), TriedBefore(p)), 1,
                       LesserOf(Cardinality(Fitting(p, f, sized)), IF p.fallbacks THEN p.attempts ELSE 1)), f, sized)
    BY DEF PlanOfFitting
  <1> QED BY <1>2, <1>3, <1>5, <1>6, <1>7

\* Every route of a plan passed the policy's checks; none of them is weaker than
\* the first in the order, when nothing was named and the sort is for privacy.
LEMMA FittingIsFloored ==
    ASSUME NEW p, NEW f, NEW sized
    PROVE  /\ Fitting(p, f, sized) \subseteq Floored(p, f)
           /\ p.order = <<>> /\ p.floor = "none" /\ p.sort = "privacy" /\ Floored(p, f) # {} =>
                 \A r \in Fitting(p, f, sized) : RankOf(r) >= RankOf(InOrder(Floored(p, f), TriedBefore(p))[1])
  <1>1. PICK F : F = Floored(p, f)
    OBVIOUS
  <1>2. PICK E : E = ExplicitRoutes(F, p.order)
    OBVIOUS
  <1>3. E \subseteq F
    BY <1>2 DEF ExplicitRoutes
  <1>4. Ordered(F, E, p) \subseteq F /\ (E = {} => Ordered(F, E, p) = F)
    BY <1>3 DEF Ordered
  <1>5. Confined(p, f, sized) = Confine(Ordered(F, E, p), E, p, f, sized)
    BY <1>1, <1>2 DEF Confined
  <1>6. Fitting(p, f, sized) \subseteq Confined(p, f, sized)
    BY DEF Fitting
  <1>7. Confined(p, f, sized) \subseteq Ordered(F, E, p)
    BY <1>5 DEF Confine
  <1>8. ASSUME p.order = <<>>, p.floor = "none", p.sort = "privacy", F # {}, NEW r \in Confined(p, f, sized)
        PROVE  RankOf(r) >= RankOf(InOrder(F, TriedBefore(p))[1])
    <2>1. \A x \in F : SlotOf(x, p.order) = 1
      BY <1>8 DEF SlotOf
    <2>2. E = {}
      BY <1>2, <1>8, <2>1 DEF ExplicitRoutes
    <2>3. ConfineFloor(F, E, p, f, sized) = RankOf(InOrder(F, TriedBefore(p))[1])
      BY <1>8, <2>2 DEF ConfineFloor, FloorPool
    <2>4. RankOf(r) >= ConfineFloor(F, E, p, f, sized)
      BY <1>4, <1>5, <1>8, <2>2 DEF Confine
    <2> QED BY <2>3, <2>4
  <1> QED BY <1>1, <1>4, <1>6, <1>7, <1>8

\* The numbers of a policy.
IsPolicy(p) ==
    /\ p.attempts \in Nat \ {0} /\ p.maxIn \in Int /\ p.maxOut \in Int /\ p.fallbacks \in BOOLEAN
    /\ Len(p.order) \in Nat /\ DOMAIN p.order = 1 .. Len(p.order)

LEMMA NormalizedIsPolicy ==
    ASSUME NEW i \in PolicyInputs
    PROVE  IsPolicy(NormalizeProviderPolicy(i)) /\ (~NormalizeProviderPolicy(i).fallbacks => NormalizeProviderPolicy(i).attempts = 1)
  <1>1. i.form \in {"auto", "pin", "object"}
    BY PlanAssumption
  <1>2. CASE i.form = "auto"
    <2>1. NormalizeProviderPolicy(i) = AutoPolicy
      BY <1>2 DEF NormalizeProviderPolicy
    <2>2. IsPolicy(AutoPolicy) /\ AutoPolicy.fallbacks
      BY PlanAssumption DEF IsPolicy, AutoPolicy, Unbounded
    <2> QED BY <2>1, <2>2
  <1>3. CASE i.form = "pin"
    <2>1. NormalizeProviderPolicy(i) = PinPolicy(i.order[1])
      BY <1>3 DEF NormalizeProviderPolicy
    <2>2. ASSUME NEW slug PROVE IsPolicy(PinPolicy(slug)) /\ PinPolicy(slug).attempts = 1
      <3>1. PinPolicy(slug) = [order |-> <<slug>>, only |-> {{slug}}, ignore |-> {}, fallbacks |-> FALSE,
                               sort |-> "privacy", floor |-> "none", maxIn |-> Unbounded, maxOut |-> Unbounded,
                               params |-> FALSE, attempts |-> 1, pin |-> TRUE]
        <4>1. PICK a : a = AutoPolicy
          OBVIOUS
        <4>2. PICK b : b = [a EXCEPT !.order = <<slug>>]
          OBVIOUS
        <4>3. PICK c : c = [b EXCEPT !.only = {{slug}}]
          OBVIOUS
        <4>4. PICK d : d = [c EXCEPT !.fallbacks = FALSE]
          OBVIOUS
        <4>5. PICK e : e = [d EXCEPT !.attempts = 1]
          OBVIOUS
        <4>6. PinPolicy(slug) = [e EXCEPT !.pin = TRUE]
          BY Zenon, <4>1, <4>2, <4>3, <4>4, <4>5 DEF PinPolicy
        <4>7. b = [order |-> <<slug>>, only |-> {}, ignore |-> {}, fallbacks |-> TRUE, sort |-> "privacy", floor |-> "none",
                   maxIn |-> Unbounded, maxOut |-> Unbounded, params |-> FALSE, attempts |-> MaxProviderAttempts, pin |-> FALSE]
          BY <4>1, <4>2 DEF AutoPolicy
        <4>8. c = [order |-> <<slug>>, only |-> {{slug}}, ignore |-> {}, fallbacks |-> TRUE, sort |-> "privacy", floor |-> "none",
                   maxIn |-> Unbounded, maxOut |-> Unbounded, params |-> FALSE, attempts |-> MaxProviderAttempts, pin |-> FALSE]
          BY <4>3, <4>7
        <4>9. d = [order |-> <<slug>>, only |-> {{slug}}, ignore |-> {}, fallbacks |-> FALSE, sort |-> "privacy", floor |-> "none",
                   maxIn |-> Unbounded, maxOut |-> Unbounded, params |-> FALSE, attempts |-> MaxProviderAttempts, pin |-> FALSE]
          BY <4>4, <4>8
        <4>10. e = [order |-> <<slug>>, only |-> {{slug}}, ignore |-> {}, fallbacks |-> FALSE, sort |-> "privacy", floor |-> "none",
                    maxIn |-> Unbounded, maxOut |-> Unbounded, params |-> FALSE, attempts |-> 1, pin |-> FALSE]
          BY <4>5, <4>9
        <4> QED BY <4>6, <4>10
      <3>2. Len(<<slug>>) = 1 /\ DOMAIN <<slug>> = 1 .. 1
        OBVIOUS
      <3> QED BY <3>1, <3>2 DEF IsPolicy, Unbounded
    <2> QED BY <2>1, <2>2
  <1>4. CASE i.form = "object"
    <2>1. NormalizeProviderPolicy(i) =
             [order |-> i.order, only |-> i.only, ignore |-> i.ignore, fallbacks |-> i.fallbacks, sort |-> i.sort,
              floor |-> i.floor, maxIn |-> i.maxIn, maxOut |-> i.maxOut, params |-> i.params,
              attempts |-> IF i.fallbacks THEN i.attempts ELSE 1, pin |-> FALSE]
      BY <1>4 DEF NormalizeProviderPolicy
    <2>2. i.attempts \in Nat \ {0} /\ i.maxIn \in Int /\ i.maxOut \in Int /\ i.fallbacks \in BOOLEAN
          /\ Len(i.order) \in Nat /\ DOMAIN i.order = 1 .. Len(i.order)
      BY PlanAssumption
    <2> QED BY <2>1, <2>2 DEF IsPolicy
  <1> QED BY <1>1, <1>2, <1>3, <1>4

\* A policy no less strict than another on every limit of it.
Within(m, l) ==
    /\ (IF m.fallbacks THEN m.attempts ELSE 1) <= l.attempts
    /\ m.fallbacks => l.fallbacks
    /\ \A o \in l.only : \E n \in m.only : n \subseteq o
    /\ l.ignore \subseteq m.ignore
    /\ m.maxIn <= l.maxIn /\ m.maxOut <= l.maxOut
    /\ l.floor # "none" => m.floor # "none" /\ PrivacyRank(m.floor) >= PrivacyRank(l.floor)

\* Merging the workspace's defaults keeps within them and within the request's policy.
LEMMA MergedIsWithin ==
    ASSUME NEW p, IsPolicy(p), NEW w \in Workspaces, NEW m, m = MergeWorkspaceProviderPolicy(p, w)
    PROVE  IsPolicy(m) /\ Within(m, p) /\ Within(m, w)
  <1>1. /\ m.order = p.order /\ m.only = IntersectOnly(p.only, w.only) /\ m.ignore = p.ignore \cup w.ignore
        /\ m.fallbacks = (p.fallbacks /\ w.fallbacks)
        /\ m.floor = StrongerFloor(p.floor, w.floor)
        /\ m.maxIn = LesserOf(p.maxIn, w.maxIn) /\ m.maxOut = LesserOf(p.maxOut, w.maxOut)
        /\ m.attempts = LesserOf(LesserOf(p.attempts, w.attempts),
                                 IF p.fallbacks /\ w.fallbacks THEN MaxProviderAttempts ELSE 1)
    BY DEF MergeWorkspaceProviderPolicy
  <1>2. /\ w.attempts \in Nat \ {0} /\ w.maxIn \in Int /\ w.maxOut \in Int /\ w.fallbacks \in BOOLEAN
        /\ MaxProviderAttempts \in Nat \ {0}
    BY PlanAssumption
  <1>3. /\ p.attempts \in Nat \ {0} /\ p.maxIn \in Int /\ p.maxOut \in Int /\ p.fallbacks \in BOOLEAN
        /\ Len(p.order) \in Nat /\ DOMAIN p.order = 1 .. Len(p.order)
    BY DEF IsPolicy
  <1>4. m.attempts \in Nat \ {0} /\ m.attempts <= p.attempts /\ m.attempts <= w.attempts
    BY <1>1, <1>2, <1>3 DEF LesserOf
  <1>5. m.maxIn \in Int /\ m.maxIn <= p.maxIn /\ m.maxIn <= w.maxIn /\ m.maxOut \in Int /\ m.maxOut <= p.maxOut /\ m.maxOut <= w.maxOut
    BY <1>1, <1>2, <1>3 DEF LesserOf
  <1>6. m.fallbacks \in BOOLEAN /\ (m.fallbacks => p.fallbacks) /\ (m.fallbacks => w.fallbacks)
    BY <1>1, <1>2, <1>3
  <1>7. IsPolicy(m)
    BY <1>1, <1>3, <1>4, <1>5, <1>6 DEF IsPolicy
  <1>8. (IF m.fallbacks THEN m.attempts ELSE 1) <= p.attempts /\ (IF m.fallbacks THEN m.attempts ELSE 1) <= w.attempts
    BY <1>2, <1>3, <1>4, <1>6
  <1>9. /\ \A o \in p.only : \E n \in m.only : n \subseteq o
        /\ \A o \in w.only : \E n \in m.only : n \subseteq o
    <2>1. PICK A, B : A = p.only /\ B = w.only
      OBVIOUS
    <2>2. PICK M : M = IntersectOnly(A, B)
      OBVIOUS
    <2>3. CASE A = {} \/ B = {}
      <3>1. M = A \/ A = {}
        BY <2>2, <2>3 DEF IntersectOnly
      <3>2. M = B \/ B = {}
        BY <2>2, <2>3 DEF IntersectOnly
      <3> QED BY <1>1, <2>1, <2>2, <3>1, <3>2
    <2>4. CASE A # {} /\ B # {}
      <3>1. IntersectOnly(A, B) = {x \cap y : x \in A, y \in B}
        BY <2>4 DEF IntersectOnly
      <3>2. ASSUME NEW x \in A, NEW y \in B PROVE \E n \in M : n \subseteq x /\ n \subseteq y
        <4>1. PICK n : n = x \cap y
          OBVIOUS
        <4>2. x \cap y \in IntersectOnly(A, B)
          BY <3>1
        <4>3. n \subseteq x /\ n \subseteq y
          BY <4>1
        <4> QED BY <2>2, <4>1, <4>2, <4>3
      <3>3. \A o \in A : \E n \in M : n \subseteq o
        BY Zenon, <2>4, <3>2
      <3>4. \A o \in B : \E n \in M : n \subseteq o
        BY Zenon, <2>4, <3>2
      <3> QED BY <1>1, <2>1, <2>2, <3>3, <3>4
    <2> QED BY <2>3, <2>4
  <1>10. ASSUME NEW l \in {p.floor, w.floor}, l # "none"
         PROVE  m.floor # "none" /\ PrivacyRank(m.floor) >= PrivacyRank(l)
    <2>1. PICK a, b : a = p.floor /\ b = w.floor
      OBVIOUS
    <2>2. \A c : PrivacyRank(c) \in 0 .. 3
      BY DEF PrivacyRank
    <2>3. m.floor = IF FloorRank(a) >= FloorRank(b) THEN a ELSE b
      BY <1>1, <2>1 DEF StrongerFloor
    <2>4. \A c : FloorRank(c) = IF c = "none" THEN -1 ELSE PrivacyRank(c)
      BY DEF FloorRank
    <2>5. l = a \/ l = b
      BY <2>1
    <2>6. \A c : FloorRank(c) \in Int
      BY <2>2, <2>4
    <2>7. FloorRank(m.floor) >= FloorRank(l)
      BY <2>3, <2>5, <2>6
    <2>8. FloorRank(l) = PrivacyRank(l) /\ FloorRank(l) >= 0
      BY <1>10, <2>2, <2>4
    <2> QED BY <2>4, <2>6, <2>7, <2>8
  <1>11. p.ignore \subseteq m.ignore /\ w.ignore \subseteq m.ignore
    BY <1>1
  <1>12. Within(m, p)
    BY <1>5, <1>6, <1>8, <1>9, <1>10, <1>11 DEF Within
  <1>13. Within(m, w)
    BY <1>5, <1>6, <1>8, <1>9, <1>10, <1>11 DEF Within
  <1> QED BY <1>7, <1>12, <1>13

-----------------------------------------------------------------------------
\* Provider plans: the attempts of a plan.

LEMMA AttemptsOfOrder ==
    ASSUME NEW F, IsFiniteSet(F), NEW R, StrictTotal(F, R), NEW k \in 1 .. Cardinality(F)
    PROVE  /\ SubSeq(InOrder(F, R), 1, k) \in [1 .. k -> F]
           /\ Len(SubSeq(InOrder(F, R), 1, k)) = k
           /\ \A m, n \in 1 .. k : m < n => SubSeq(InOrder(F, R), 1, k)[m] # SubSeq(InOrder(F, R), 1, k)[n]
  <1>1. PICK N \in Nat : N = Cardinality(F)
    BY FS_CardinalityType
  <1>2. PICK s : s = InOrder(F, R)
    OBVIOUS
  <1>3. s \in [1 .. N -> F] /\ \A m, n \in 1 .. N : s[m] = s[n] => m = n
    BY <1>1, <1>2, InOrderEnumerates
  <1>4. s \in Seq(F) /\ Len(s) = N
    BY <1>3, SeqDef, LenProperties
  <1>5. PICK t : t = SubSeq(s, 1, k)
    OBVIOUS
  <1>6. k \in 1 .. N
    BY <1>1
  <1>7. t \in Seq(F) /\ Len(t) = k /\ \A i \in 1 .. k : t[i] = s[i]
    BY <1>4, <1>5, <1>6
  <1>8. t \in [1 .. k -> F]
    BY <1>7, LenProperties
  <1>9. \A m, n \in 1 .. k : m < n => t[m] # t[n]
    BY <1>3, <1>6, <1>7
  <1> QED BY <1>2, <1>5, <1>7, <1>8, <1>9

\* Finitely many costs have a largest.
LEMMA LargestCost ==
    ASSUME NEW A, IsFiniteSet(A), A # {}, NEW C \in SUBSET Int, NEW g \in Surjection(A, C)
    PROVE  \E c \in C : \A d \in C : d <= c
  <1> DEFINE R == {x \in C \X C : x[2] < x[1]}
  <1>1. C \subseteq Int /\ C # {}
    BY DEF Surjection
  <1>2. IsFiniteSet(C)
    BY FS_Surjection
  <1>3. \A c, d \in C : <<c, d>> \in R <=> d < c
    OBVIOUS
  <1> HIDE DEF R
  <1>4. \E c \in C : \A d \in C \ {c} : <<c, d>> \in R
    <2>1. \A c \in C : <<c, c>> \notin R
      BY <1>1, <1>3
    <2>2. \A c, d \in C : c # d => <<c, d>> \in R \/ <<d, c>> \in R
      BY <1>1, <1>3
    <2>3. \A c, d, e \in C : <<c, d>> \in R /\ <<d, e>> \in R => <<c, e>> \in R
      BY <1>1, <1>3
    <2> QED BY <1>1, <1>2, <2>1, <2>2, <2>3, FirstExists
  <1>5. \E c \in C : \A d \in C : d <= c
    <2>1. PICK c \in C : \A d \in C \ {c} : <<c, d>> \in R
      BY <1>4
    <2>2. ASSUME NEW d \in C PROVE d <= c
      <3>1. d \in Int /\ c \in Int
        BY <1>1
      <3>2. d # c => d < c
        BY <1>3, <2>1
      <3> QED BY <3>1, <3>2
    <2> QED BY <2>2
  <1> QED BY <1>5

\* The one reservation covers whichever attempt is billed.
LEMMA ReservationCovers ==
    ASSUME NEW k \in Nat \ {0}, NEW s \in [1 .. k -> PlanRoutes], NEW f \in RequestFacts, NEW sized, NEW b, b = Bounded(s, f, sized)
    PROVE  /\ b.ok /\ b.attempts = s /\ b.was = health
           /\ \A n \in 1 .. k : ReservationCost(s[n], f) <= b.reserved
  <1>1. PICK A : A = ToSet(s)
    OBVIOUS
  <1>2. A = {s[n] : n \in 1 .. k}
    BY <1>1 DEF ToSet
  <1>3. A \subseteq PlanRoutes /\ A # {} /\ \A n \in 1 .. k : s[n] \in A
    BY <1>2
  <1>4. IsFiniteSet(A)
    BY <1>3, PlanAssumption, FS_Subset
  <1>5. PICK g : g = [r \in A |-> ReservationCost(r, f)]
    OBVIOUS
  <1>6. \A r \in A : ReservationCost(r, f) \in Int
    <2> SUFFICES ASSUME NEW r \in A PROVE ReservationCost(r, f) \in Int
      OBVIOUS
    <2>1. PICK x \in Int, y \in Int, u \in Int, v \in Int :
             x = RouteInfo[r].in /\ y = f.ceiling /\ u = RouteInfo[r].out /\ v = f.output
      BY <1>3, PlanAssumption
    <2>2. ReservationCost(r, f) = x * y + u * v
      BY <2>1 DEF ReservationCost
    <2>3. x * y \in Int /\ u * v \in Int
      OBVIOUS
    <2> QED BY <2>2, <2>3
  <1>7. g \in [A -> Int]
    BY <1>5, <1>6
  <1>8. PICK C : C = {ReservationCost(r, f) : r \in A}
    OBVIOUS
  <1>9. C = {g[r] : r \in A}
    BY <1>5, <1>8
  <1>10. PICK top : top = CHOOSE c \in C : \A d \in C : d <= c
    OBVIOUS
  <1>11. b.ok /\ b.attempts = s /\ b.was = health /\ b.reserved = top
    BY <1>1, <1>8, <1>10 DEF Bounded
  <1>12. \A r \in A : g[r] <= top
    <2>1. \E c \in C : \A d \in C : d <= c
      <3>1. C \in SUBSET Int /\ g \in Surjection(A, C)
        BY <1>7, <1>9 DEF Surjection
      <3> QED BY <1>3, <1>4, <3>1, LargestCost
    <2>2. \A d \in C : d <= top
      BY <1>10, <2>1
    <2> QED BY <1>9, <2>2
  <1> QED BY <1>3, <1>5, <1>11, <1>12

-----------------------------------------------------------------------------
\* Provider plans: what is promised of one.

KeepsLimit(b, l) ==
    /\ Len(b.attempts) <= l.attempts /\ (~l.fallbacks => Len(b.attempts) = 1)
    /\ \A n \in DOMAIN b.attempts :
         LET r == b.attempts[n] IN
         /\ \A o \in l.only : \E s \in SlugsOf(r) : s \in o
         /\ \A s \in SlugsOf(r) : s \notin l.ignore
         /\ RouteInfo[r].in <= l.maxIn /\ RouteInfo[r].out <= l.maxOut
         /\ l.floor # "none" => RankOf(r) >= PrivacyRank(l.floor)

FitsFacts(b, f) ==
    \A n \in DOMAIN b.attempts :
      LET r == b.attempts[n] IN
      /\ b.was[r] \in {"healthy", "degraded"}
      /\ f.e2ee <=> RouteInfo[r].privacy = "e2ee"
      /\ \A m \in 1..(n - 1) : b.attempts[m] # r
      /\ ReservationCost(r, f) <= b.reserved

NotDowngraded(b, p, f) ==
    p.floor = "none" /\ p.sort = "privacy" /\ p.order = <<>> =>
      \A n \in DOMAIN b.attempts : \A r \in PlanRoutes :
        /\ b.was[r] \in {"healthy", "degraded"}
        /\ Capable(r, p, f)
        /\ PassesMaxPrice(r, p)
        => RankOf(b.attempts[n]) >= RankOf(r)

\* The attempts of a plan, in the rigid terms of the state it was made in.
LEMMA PlanAttempts ==
    ASSUME NEW p, IsPolicy(p), NEW f \in RequestFacts, NEW sized, NEW b, b = BuildProviderRoutingPlan(p, f, sized), b.ok
    PROVE  /\ b.was = health
           /\ \E k \in Nat \ {0} :
                /\ k <= (IF p.fallbacks THEN p.attempts ELSE 1)
                /\ b.attempts \in [1 .. k -> Fitting(p, f, sized)] /\ Len(b.attempts) = k
                /\ \A m, n \in 1 .. k : m < n => b.attempts[m] # b.attempts[n]
                /\ \A n \in 1 .. k : ReservationCost(b.attempts[n], f) <= b.reserved
  <1>1. PICK F : F = Fitting(p, f, sized)
    OBVIOUS
  <1>2. PICK R : R = TriedBefore(p)
    OBVIOUS
  <1>3. PICK k : k = LesserOf(Cardinality(F), IF p.fallbacks THEN p.attempts ELSE 1)
    OBVIOUS
  <1>4. PICK s : s = SubSeq(InOrder(F, R), 1, k)
    OBVIOUS
  <1>5. F # {} /\ b = Bounded(s, f, sized)
    BY <1>1, <1>2, <1>3, <1>4, PlanShape
  <1>6. F \subseteq PlanRoutes
    BY <1>1, FittingIsFloored DEF Floored, Priced
  <1>7. IsFiniteSet(F)
    BY <1>6, PlanAssumption, FS_Subset
  <1>8. PICK N \in Nat : N = Cardinality(F)
    BY <1>7, FS_CardinalityType
  <1>9. N >= 1
    BY <1>5, <1>7, <1>8, FS_EmptySet
  <1>10. PICK most \in Nat \ {0} : most = IF p.fallbacks THEN p.attempts ELSE 1
    BY DEF IsPolicy
  <1>11. k \in 1 .. N /\ k <= most
    BY <1>3, <1>8, <1>9, <1>10 DEF LesserOf
  <1>12. StrictTotal(F, R)
    BY <1>2, <1>6, TriedInOrder DEF IsPolicy
  <1>13. s \in [1 .. k -> F] /\ Len(s) = k /\ \A m, n \in 1 .. k : m < n => s[m] # s[n]
    BY <1>4, <1>7, <1>8, <1>11, <1>12, AttemptsOfOrder
  <1>14. k \in Nat \ {0}
    BY <1>11
  <1>15. s \in [1 .. k -> PlanRoutes]
    BY <1>6, <1>13
  <1>16. b.attempts = s /\ b.was = health /\ \A n \in 1 .. k : ReservationCost(s[n], f) <= b.reserved
    BY <1>5, <1>14, <1>15, ReservationCovers
  <1> QED BY <1>1, <1>10, <1>11, <1>13, <1>14, <1>16

\* What a route of a plan passed.
LEMMA FittingPassed ==
    ASSUME NEW p, NEW f, NEW sized, NEW r \in Fitting(p, f, sized)
    PROVE  /\ r \in PlanRoutes /\ Attemptable(r) /\ Capable(r, p, f) /\ PassesMaxPrice(r, p) /\ RankOf(r) >= HardFloor(p)
           /\ r \in Floored(p, f)
  <1> QED BY FittingIsFloored DEF Floored, Priced

\* A plan keeps every limit its policy is within.
LEMMA PlanKeepsLimit ==
    ASSUME NEW p, IsPolicy(p), NEW f \in RequestFacts, NEW sized, NEW b, b = BuildProviderRoutingPlan(p, f, sized), b.ok,
           NEW l, Within(p, l), l.attempts \in Nat, l.maxIn \in Int, l.maxOut \in Int
    PROVE  KeepsLimit(b, l)
  <1>1. PICK k \in Nat \ {0} :
                /\ k <= (IF p.fallbacks THEN p.attempts ELSE 1)
                /\ b.attempts \in [1 .. k -> Fitting(p, f, sized)] /\ Len(b.attempts) = k
    BY PlanAttempts
  <1>2. Len(b.attempts) <= l.attempts /\ (~l.fallbacks => Len(b.attempts) = 1)
    <2>1. PICK most \in Nat \ {0} : most = IF p.fallbacks THEN p.attempts ELSE 1
      BY DEF IsPolicy
    <2>2. most <= l.attempts /\ (p.fallbacks => l.fallbacks)
      BY <2>1 DEF Within
    <2>3. ~p.fallbacks => most = 1
      BY <2>1
    <2>4. k <= most
      BY <1>1, <2>1
    <2> QED BY <1>1, <2>2, <2>3, <2>4
  <1>3. ASSUME NEW n \in DOMAIN b.attempts, NEW r, r = b.attempts[n]
        PROVE  /\ \A o \in l.only : \E s \in SlugsOf(r) : s \in o
               /\ \A s \in SlugsOf(r) : s \notin l.ignore
               /\ RouteInfo[r].in <= l.maxIn /\ RouteInfo[r].out <= l.maxOut
               /\ l.floor # "none" => RankOf(r) >= PrivacyRank(l.floor)
    <2>1. r \in Fitting(p, f, sized)
      BY <1>1, <1>3
    <2>2. r \in PlanRoutes /\ Capable(r, p, f) /\ PassesMaxPrice(r, p) /\ RankOf(r) >= HardFloor(p)
      BY <2>1, FittingPassed
    <2>3. PICK slugs : slugs = SlugsOf(r)
      OBVIOUS
    <2>4. (\A o \in p.only : \E s \in slugs : s \in o) /\ \A s \in slugs : s \notin p.ignore
      BY <2>2, <2>3 DEF Capable, InList
    <2>5. (\A o \in l.only : \E s \in slugs : s \in o) /\ \A s \in slugs : s \notin l.ignore
      <3>1. \A o \in l.only : \E kept \in p.only : kept \subseteq o
        BY DEF Within
      <3>2. l.ignore \subseteq p.ignore
        BY DEF Within
      <3> QED BY <2>4, <3>1, <3>2
    <2>6. RouteInfo[r].in <= l.maxIn /\ RouteInfo[r].out <= l.maxOut
      <3>1. RouteInfo[r].in \in Int /\ RouteInfo[r].out \in Int /\ p.maxIn \in Int /\ p.maxOut \in Int
        BY <2>2, PlanAssumption DEF IsPolicy
      <3>2. RouteInfo[r].in <= p.maxIn /\ RouteInfo[r].out <= p.maxOut /\ p.maxIn <= l.maxIn /\ p.maxOut <= l.maxOut
        BY <2>2 DEF PassesMaxPrice, Within
      <3> QED BY <3>1, <3>2
    <2>7. ASSUME l.floor # "none" PROVE RankOf(r) >= PrivacyRank(l.floor)
      <3>1. p.floor # "none" /\ PrivacyRank(p.floor) >= PrivacyRank(l.floor)
        BY <2>7 DEF Within
      <3>2. HardFloor(p) = PrivacyRank(p.floor)
        BY <3>1 DEF HardFloor, FloorRank
      <3>3. PrivacyRank(p.floor) \in Int /\ PrivacyRank(l.floor) \in Int /\ RankOf(r) \in Int
        BY <2>2, RanksAreNumbers DEF PrivacyRank
      <3> QED BY <2>2, <3>1, <3>2, <3>3
    <2> QED BY <2>3, <2>5, <2>6, <2>7
  <1> QED BY <1>2, <1>3 DEF KeepsLimit

LEMMA PlanFitsFacts ==
    ASSUME NEW p, IsPolicy(p), NEW f \in RequestFacts, NEW sized, NEW b, b = BuildProviderRoutingPlan(p, f, sized), b.ok
    PROVE  FitsFacts(b, f)
  <1>1. PICK k \in Nat \ {0} :
                /\ b.attempts \in [1 .. k -> Fitting(p, f, sized)]
                /\ \A m, n \in 1 .. k : m < n => b.attempts[m] # b.attempts[n]
                /\ \A n \in 1 .. k : ReservationCost(b.attempts[n], f) <= b.reserved
    BY PlanAttempts
  <1>2. b.was = health
    BY PlanAttempts
  <1>3. ASSUME NEW n \in DOMAIN b.attempts, NEW r, r = b.attempts[n]
        PROVE  /\ b.was[r] \in {"healthy", "degraded"}
               /\ f.e2ee <=> RouteInfo[r].privacy = "e2ee"
               /\ \A m \in 1..(n - 1) : b.attempts[m] # r
               /\ ReservationCost(r, f) <= b.reserved
    <2>1. n \in 1 .. k /\ r \in Fitting(p, f, sized)
      BY <1>1, <1>3
    <2>2. Attemptable(r) /\ Capable(r, p, f)
      BY <2>1, FittingPassed
    <2>3. b.was[r] \in {"healthy", "degraded"}
      BY <1>2, <2>2 DEF Attemptable
    <2>4. f.e2ee <=> RouteInfo[r].privacy = "e2ee"
      BY <2>2 DEF Capable
    <2>5. \A m \in 1..(n - 1) : m \in 1 .. k /\ m < n
      BY <2>1
    <2>6. \A m \in 1..(n - 1) : b.attempts[m] # r
      BY <1>1, <1>3, <2>1, <2>5
    <2> QED BY <1>1, <1>3, <2>1, <2>3, <2>4, <2>6
  <1> QED BY <1>3 DEF FitsFacts

LEMMA PlanIsNotDowngraded ==
    ASSUME NEW p, IsPolicy(p), NEW f \in RequestFacts, NEW sized, NEW b, b = BuildProviderRoutingPlan(p, f, sized), b.ok
    PROVE  NotDowngraded(b, p, f)
  <1> SUFFICES ASSUME p.floor = "none", p.sort = "privacy", p.order = <<>>, NEW n \in DOMAIN b.attempts, NEW r \in PlanRoutes,
                      b.was[r] \in {"healthy", "degraded"}, Capable(r, p, f), PassesMaxPrice(r, p)
               PROVE  RankOf(b.attempts[n]) >= RankOf(r)
    BY DEF NotDowngraded
  <1>1. b.attempts[n] \in Fitting(p, f, sized) /\ b.was = health
    BY PlanAttempts
  <1>2. PICK F : F = Floored(p, f)
    OBVIOUS
  <1>3. PICK R : R = TriedBefore(p)
    OBVIOUS
  <1>4. r \in F
    <2>1. Attemptable(r)
      BY <1>1 DEF Attemptable
    <2>2. HardFloor(p) = -1 /\ RankOf(r) >= -1
      BY RanksAreNumbers DEF HardFloor
    <2> QED BY <1>2, <2>1, <2>2 DEF Floored, Priced
  <1>5. F \subseteq PlanRoutes /\ F # {}
    BY <1>2, <1>4 DEF Floored, Priced
  <1>6. IsFiniteSet(F)
    BY <1>5, PlanAssumption, FS_Subset
  <1>7. StrictTotal(F, R)
    BY <1>3, <1>5, TriedInOrder DEF IsPolicy
  <1>8. PICK first : first = InOrder(F, R)[1]
    OBVIOUS
  <1>9. first \in F /\ \A y \in F \ {first} : <<first, y>> \in R
    <2>1. Cardinality(F) \in Nat
      BY <1>6, FS_CardinalityType
    <2>2. /\ InOrder(F, R) \in [1 .. Cardinality(F) -> F] /\ Cardinality(F) >= 1
          /\ \A y \in F \ {InOrder(F, R)[1]} : <<InOrder(F, R)[1], y>> \in R
      BY <1>5, <1>6, <1>7, InOrderEnumerates
    <2> QED BY <1>8, <2>1, <2>2
  <1>10. RankOf(first) >= RankOf(r)
    <2>1. CASE r = first
      BY <1>4, <1>5, <2>1, RanksAreNumbers
    <2>2. CASE r # first
      <3>1. <<first, r>> \in TriedBefore(p)
        BY <1>3, <1>4, <1>9, <2>2
      <3> QED BY <1>5, <1>9, <3>1, StrongestIsFirst
    <2> QED BY <2>1, <2>2
  <1>11. RankOf(b.attempts[n]) >= RankOf(first)
    BY <1>1, <1>2, <1>3, <1>5, <1>8, FittingIsFloored
  <1>12. b.attempts[n] \in PlanRoutes
    BY <1>1, FittingPassed
  <1>13. RankOf(b.attempts[n]) \in Int /\ RankOf(first) \in Int /\ RankOf(r) \in Int
    BY <1>5, <1>9, <1>12, RanksAreNumbers
  <1> QED BY <1>10, <1>11, <1>13

-----------------------------------------------------------------------------
\* Provider plans: the request.

PlanSpec == PlanInit /\ [][PlanNext]_planVars

\* PlanKeepsPolicy, part by part.
PlanPromise(b, a) ==
    b.ok => /\ KeepsLimit(b, NormalizeProviderPolicy(a.input)) /\ KeepsLimit(b, a.workspace)
            /\ FitsFacts(b, a.facts)
            /\ NotDowngraded(b, MergeWorkspaceProviderPolicy(NormalizeProviderPolicy(a.input), a.workspace), a.facts)

PlanInv ==
    /\ asked.input \in PolicyInputs /\ asked.workspace \in Workspaces /\ asked.facts \in RequestFacts
    /\ PlanPromise(plan, asked)

LEMMA PromiseIsKept == PlanPromise(plan, asked) => PlanKeepsPolicy
  <1> SUFFICES ASSUME PlanPromise(plan, asked), plan.ok PROVE AttemptsAreWithinLimits /\ NoSilentDowngrade
    BY DEF PlanKeepsPolicy, AttemptsAreWithinLimits, NoSilentDowngrade
  <1>1. NoSilentDowngrade
    BY DEF PlanPromise, NotDowngraded, NoSilentDowngrade, Policy
  <1>2. AttemptsAreWithinLimits
    BY DEF PlanPromise, KeepsLimit, FitsFacts, AttemptsAreWithinLimits
  <1> QED BY <1>1, <1>2

LEMMA PlanIsPromised ==
    ASSUME NEW a, a.input \in PolicyInputs, a.workspace \in Workspaces, a.facts \in RequestFacts, NEW sized, NEW b,
           b = BuildProviderRoutingPlan(MergeWorkspaceProviderPolicy(NormalizeProviderPolicy(a.input), a.workspace), a.facts, sized)
    PROVE  PlanPromise(b, a)
  <1> SUFFICES ASSUME b.ok
               PROVE  /\ KeepsLimit(b, NormalizeProviderPolicy(a.input)) /\ KeepsLimit(b, a.workspace)
                      /\ FitsFacts(b, a.facts)
                      /\ NotDowngraded(b, MergeWorkspaceProviderPolicy(NormalizeProviderPolicy(a.input), a.workspace), a.facts)
    BY DEF PlanPromise
  <1>1. PICK i, w, f : i = NormalizeProviderPolicy(a.input) /\ w = a.workspace /\ f = a.facts
    OBVIOUS
  <1>2. PICK p : p = MergeWorkspaceProviderPolicy(i, w)
    OBVIOUS
  <1>3. IsPolicy(i) /\ w \in Workspaces /\ f \in RequestFacts
    BY <1>1, NormalizedIsPolicy
  <1>4. IsPolicy(p) /\ Within(p, i) /\ Within(p, w)
    BY <1>2, <1>3, MergedIsWithin
  <1>5. b = BuildProviderRoutingPlan(p, f, sized)
    BY <1>1, <1>2
  <1>6. KeepsLimit(b, i)
    <2>1. i.attempts \in Nat /\ i.maxIn \in Int /\ i.maxOut \in Int
      BY <1>3 DEF IsPolicy
    <2> QED BY <1>3, <1>4, <1>5, <2>1, PlanKeepsLimit
  <1>7. KeepsLimit(b, w)
    <2>1. w.attempts \in Nat /\ w.maxIn \in Int /\ w.maxOut \in Int
      BY <1>3, PlanAssumption
    <2> QED BY <1>3, <1>4, <1>5, <2>1, PlanKeepsLimit
  <1>8. FitsFacts(b, f)
    BY <1>3, <1>4, <1>5, PlanFitsFacts
  <1>9. NotDowngraded(b, p, f)
    BY <1>3, <1>4, <1>5, PlanIsNotDowngraded
  <1> QED BY <1>1, <1>2, <1>6, <1>7, <1>8, <1>9

\* Every plan a request gets, when its ticket is issued and when it is authorized,
\* keeps to the caller's and the workspace's limits and never downgrades silently,
\* whatever the routes' health has become (mergeWorkspaceProviderPolicy,
\* buildProviderRoutingPlan).
THEOREM PlansKeepPolicy == PlanSpec => []PlanKeepsPolicy
  <1>1. PlanInit => PlanInv
    <2> SUFFICES ASSUME PlanInit PROVE PlanInv
      OBVIOUS
    <2>1. asked.input \in PolicyInputs /\ asked.workspace \in Workspaces /\ asked.facts \in RequestFacts
      BY DEF PlanInit
    <2>2. ~plan.ok
      BY DEF PlanInit, NoPlan
    <2> QED BY <2>1, <2>2 DEF PlanInv, PlanPromise
  <1>2. PlanInv /\ [PlanNext]_planVars => PlanInv'
    <2> SUFFICES ASSUME PlanInv, [PlanNext]_planVars PROVE PlanInv'
      OBVIOUS
    <2>1. PICK a : a = asked
      OBVIOUS
    <2>2. a.input \in PolicyInputs /\ a.workspace \in Workspaces /\ a.facts \in RequestFacts /\ PlanPromise(plan, a)
      BY <2>1 DEF PlanInv
    <2>3. ASSUME NEW b, b = plan', asked' = asked, PlanPromise(b, a) PROVE PlanInv'
      <3>1. asked' = a
        BY <2>1, <2>3
      <3> QED BY <2>2, <2>3, <3>1 DEF PlanInv
    <2>4. CASE UNCHANGED <<asked, plan>>
      BY <2>2, <2>3, <2>4
    <2>5. CASE IssueTicket
      <3>1. PICK b : b = plan'
        OBVIOUS
      <3>2. b = BuildProviderRoutingPlan(MergeWorkspaceProviderPolicy(NormalizeProviderPolicy(a.input), a.workspace), a.facts, FALSE)
        BY <2>1, <2>5, <3>1 DEF IssueTicket, Policy
      <3>3. PlanPromise(b, a)
        BY <2>2, <3>2, PlanIsPromised
      <3> QED BY <2>3, <2>5, <3>1, <3>3 DEF IssueTicket
    <2>6. CASE Authorize
      <3>1. PICK b : b = plan'
        OBVIOUS
      <3>2. b = BuildProviderRoutingPlan(MergeWorkspaceProviderPolicy(NormalizeProviderPolicy(a.input), a.workspace), a.facts, TRUE)
        BY <2>1, <2>6, <3>1 DEF Authorize, Policy
      <3>3. PlanPromise(b, a)
        BY <2>2, <3>2, PlanIsPromised
      <3> QED BY <2>3, <2>6, <3>1, <3>3 DEF Authorize
    <2>7. CASE UNCHANGED planVars
      BY <2>4, <2>7 DEF planVars
    <2>8. CASE \E r \in PlanRoutes : HealthChanges(r)
      BY <2>4, <2>8 DEF HealthChanges
    <2>9. CASE NextProviderAttempt
      BY <2>4, <2>9 DEF NextProviderAttempt
    <2> QED BY <2>5, <2>6, <2>7, <2>8, <2>9 DEF PlanNext
  <1>3. PlanInv => PlanKeepsPolicy
    BY PromiseIsKept DEF PlanInv
  <1> QED BY <1>1, <1>2, <1>3, PTL DEF PlanSpec

-----------------------------------------------------------------------------
\* The whole: MCRouting runs one part at a time and leaves the others alone.

LEMMA RoutingLeavesPartsAlone ==
    ASSUME [Next]_parts
    PROVE  /\ [SyncNext]_syncVars
           /\ [ListingNext]_listingVars
           /\ [CatalogNext]_catalogVars
           /\ [PlanNext]_planVars
           /\ [AutoNext]_autoVars
           /\ [GlobNext]_globVars
           /\ [GatewayNext]_gatewayVars
  <1>1. CASE UNCHANGED parts
    BY <1>1 DEF parts
  <1>2. CASE RunSync
    BY <1>2 DEF RunSync
  <1>3. CASE RunListing
    BY <1>3 DEF RunListing
  <1>4. CASE RunCatalog
    BY <1>4 DEF RunCatalog
  <1>5. CASE RunPlan
    BY <1>5 DEF RunPlan
  <1>6. CASE RunAuto
    BY <1>6 DEF RunAuto
  <1>7. CASE RunGlob
    BY <1>7 DEF RunGlob
  <1>8. CASE RunGateway
    BY <1>8 DEF RunGateway
  <1> QED BY <1>1, <1>2, <1>3, <1>4, <1>5, <1>6, <1>7, <1>8 DEF Next

\* Every behaviour is one of each of these parts.
LEMMA RoutingRunsParts ==
    Spec => SyncSpec /\ ListingSpec /\ CatalogSpec /\ PlanSpec /\ AutoSpec /\ GlobSpec /\ GatewaySpec
  <1>1. Init => SyncInit /\ ListingInit /\ CatalogInit /\ PlanInit /\ AutoInit /\ GlobInit /\ GatewayInit
    BY DEF Init
  <1>2. [Next]_parts => /\ [SyncNext]_syncVars
                        /\ [ListingNext]_listingVars
                        /\ [CatalogNext]_catalogVars
                        /\ [PlanNext]_planVars
                        /\ [AutoNext]_autoVars
                        /\ [GlobNext]_globVars
                        /\ [GatewayNext]_gatewayVars
    BY RoutingLeavesPartsAlone
  <1> QED BY <1>1, <1>2, PTL DEF Spec, SyncSpec, ListingSpec, CatalogSpec, PlanSpec, AutoSpec, GlobSpec, GatewaySpec

\* Whichever part runs, what the catalog serves and offers to Auto is sound
\* (registry.ts, enablement.ts).
THEOREM RoutingServesSoundly == Spec => []CatalogServesSoundly
  <1>1. ServedIsSound /\ AutoOffersAreAllowed => CatalogServesSoundly
    BY DEF CatalogServesSoundly
  <1> QED BY <1>1, RoutingRunsParts, CatalogIsSound, PTL

\* So is what becomes of a listing and of a request relayed on it (the
\* normalizers, nearRelay.ts, calculateCostUsd).
THEOREM RoutingListsSoundly == Spec => []ListingIsSound
  <1>1. ClassIsEarned /\ BillCoversCharge /\ BodyIsAccepted => ListingIsSound
    BY DEF ListingIsSound
  <1> QED BY <1>1, RoutingRunsParts, ListingsAreSound, PTL

\* And synchronisation, automatic routing, the plans of attempts, the globs of model
\* rules and the gateway keep their promises at once.
THEOREM RoutingIsSafe ==
    Spec => [](/\ SyncIsSound /\ QueueIsServed /\ SelectionIsComplete
               /\ PlanKeepsPolicy /\ GlobIsExact /\ AcceptanceIsExact)
  <1> QED BY RoutingRunsParts, SyncsAreSound, ClassifierServesItsQueue, SelectionMissesNothing, PlansKeepPolicy,
             GlobsAreExact, AcceptanceStaysExact, PTL
=============================================================================

------------------------ MODULE VeniceCircuitsProofs ------------------------
(***************************************************************************)
(* Safety of the circuit breakers for any number of calls and scopes, any  *)
(* thresholds and any registry size.                                       *)
(***************************************************************************)
EXTENDS VeniceCircuits, SequenceTheorems, TLAPS

\* A breaker record; recent is left open because no fact below depends on it.
IsBreaker(b) ==
    b \in [state : CircuitStates, consecutive : {b.consecutive}, recent : {b.recent},
           openedAt : Int, generation : Nat]

CallRecords == [status : {"idle", "running", "done"}, scope : Scopes,
                orphan : BOOLEAN, network : Permits, scoped : Permits]

----------------------------------------------------------------------------
(* What the functions of CircuitBreaker return.                            *)

LEMMA AcquireResult ==
    ASSUME NEW b, IsBreaker(b)
    PROVE  /\ IsBreaker(Acquired(b)) /\ Permit(b) \in Permits
           /\ Acquired(b).generation = b.generation
           /\ Permit(b).generation = b.generation
           /\ b.state = "open" => Acquired(b).state = "half_open" /\ Permit(b).probe
           /\ b.state # "open" => Acquired(b) = b /\ ~Permit(b).probe
  BY DEF IsBreaker, Acquired, Permit, Permits, CircuitStates

LEMMA SuccessResult ==
    ASSUME NEW b, IsBreaker(b), NEW p, NEW now
    PROVE  /\ IsBreaker(RecordSuccess(b, p, now))
           /\ RecordSuccess(b, p, now).generation = b.generation
           /\ p.generation # b.generation => RecordSuccess(b, p, now) = b
           /\ p.generation = b.generation => RecordSuccess(b, p, now).state = "closed"
  <1>1. CASE p.generation # b.generation
    BY <1>1 DEF RecordSuccess
  <1>2. CASE p.generation = b.generation
    <2> DEFINE new == IF p.probe \/ b.state = "half_open" THEN <<>> ELSE InWindow(b.recent, now)
    <2>1. RecordSuccess(b, p, now) =
            [state |-> "closed", consecutive |-> 0, recent |-> new, openedAt |-> 0,
             generation |-> b.generation]
      BY <1>2 DEF RecordSuccess, Fresh
    <2> HIDE DEF new
    <2> QED BY <1>2, <2>1 DEF IsBreaker, CircuitStates
  <1> QED BY <1>1, <1>2

LEMMA FailureResult ==
    ASSUME NEW b, IsBreaker(b), NEW p, NEW now \in Int
    PROVE  /\ IsBreaker(RecordFailure(b, p, now))
           /\ p.generation # b.generation => RecordFailure(b, p, now) = b
           /\ \/ /\ RecordFailure(b, p, now).state = b.state
                 /\ RecordFailure(b, p, now).generation = b.generation
                 /\ p.generation = b.generation => b.state # "half_open"
              \/ /\ RecordFailure(b, p, now).state = "open"
                 /\ RecordFailure(b, p, now).generation = b.generation + 1
  <1> DEFINE n == b.consecutive + 1
             l == Append(InWindow(b.recent, now), now)
             counted == [b EXCEPT !.consecutive = n, !.recent = l]
  <1>1. /\ IsBreaker(counted) /\ counted.state = b.state
        /\ counted.generation = b.generation
    <2> HIDE DEF n, l
    <2> QED BY DEF IsBreaker, CircuitStates
  <1>2. ASSUME NEW c, IsBreaker(c)
        PROVE  /\ IsBreaker(Open(c, now)) /\ Open(c, now).state = "open"
               /\ Open(c, now).generation = c.generation + 1
    BY <1>2 DEF IsBreaker, Open, CircuitStates
  <1>3. /\ IsBreaker(Open(b, now)) /\ Open(b, now).state = "open"
        /\ Open(b, now).generation = b.generation + 1
    BY <1>2
  <1>4. /\ IsBreaker(Open(counted, now)) /\ Open(counted, now).state = "open"
        /\ Open(counted, now).generation = b.generation + 1
    <2> HIDE DEF counted
    <2> QED BY <1>1, <1>2
  <1>5. \/ RecordFailure(b, p, now) = b /\ p.generation # b.generation
        \/ RecordFailure(b, p, now) = Open(b, now) /\ p.generation = b.generation
        \/ RecordFailure(b, p, now) = Open(counted, now) /\ p.generation = b.generation
        \/ /\ RecordFailure(b, p, now) = counted
           /\ p.generation = b.generation /\ ~p.probe /\ b.state # "half_open"
    BY Zenon DEF RecordFailure
  <1> HIDE DEF counted
  <1> QED BY <1>1, <1>3, <1>4, <1>5

LEMMA NeutralResult ==
    ASSUME NEW b, IsBreaker(b), NEW p, NEW now \in Int
    PROVE  /\ IsBreaker(RecordNeutral(b, p, now))
           /\ RecordNeutral(b, p, now).generation = b.generation
           /\ p.generation = b.generation /\ p.probe /\ b.state = "half_open" =>
                 /\ RecordNeutral(b, p, now).state = "open"
                 /\ RecordNeutral(b, p, now).openedAt = now - OpenDuration
           /\ ~(p.generation = b.generation /\ p.probe /\ b.state = "half_open") =>
                 RecordNeutral(b, p, now) = b
  <1>1. now - OpenDuration \in Int
    BY ThresholdAssumption
  <1>2. CASE p.generation = b.generation /\ p.probe /\ b.state = "half_open"
    BY <1>1, <1>2 DEF IsBreaker, RecordNeutral, CircuitStates
  <1>3. CASE ~(p.generation = b.generation /\ p.probe /\ b.state = "half_open")
    BY <1>3 DEF RecordNeutral
  <1> QED BY <1>2, <1>3
----------------------------------------------------------------------------
(* One breaker and the calls H that hold an unsettled permit of it.        *)

\* No permit is ahead of the breaker; a half-open breaker has exactly one
\* permit of its generation out, which is a probe, and an open one has none.
HoldersInv(b, H, perm) ==
    /\ IsBreaker(b)
    /\ \A c \in H : perm[c] \in Permits /\ perm[c].generation <= b.generation
    /\ b.state = "half_open" =>
          \E c \in H : /\ perm[c].probe /\ perm[c].generation = b.generation
                       /\ \A d \in H : perm[d].generation = b.generation => d = c
    /\ b.state = "open" => \A c \in H : perm[c].generation # b.generation

\* Admission keeps it: the probe is admitted when no permit of its generation
\* is out.
LEMMA AcquireKeeps ==
    ASSUME NEW b, NEW H, NEW perm, NEW new, NEW now, NEW c,
           HoldersInv(b, H, perm), Admits(b, now), c \notin H,
           new[c] = Permit(b), \A d \in H : new[d] = perm[d]
    PROVE  HoldersInv(Acquired(b), H \cup {c}, new)
  <1>1. IsBreaker(b) /\ b.state \in {"closed", "open"}
    BY DEF HoldersInv, Admits, ProbeDue
  <1>2. CASE b.state = "open"
    BY <1>1, <1>2, AcquireResult DEF HoldersInv, IsBreaker
  <1>3. CASE b.state = "closed"
    BY <1>1, <1>3, AcquireResult DEF HoldersInv, IsBreaker
  <1> QED BY <1>1, <1>2, <1>3

\* So does an admission that is handed back at once.
LEMMA RefusalKeeps ==
    ASSUME NEW b, NEW H, NEW perm, NEW now \in Int,
           HoldersInv(b, H, perm), Admits(b, now)
    PROVE  HoldersInv(RecordNeutral(Acquired(b), Permit(b), now), H, perm)
  <1> DEFINE a == Acquired(b)
             p == Permit(b)
  <1>1. IsBreaker(b) /\ b.state \in {"closed", "open"} /\ IsBreaker(a)
    BY AcquireResult DEF HoldersInv, Admits, ProbeDue
  <1>2. CASE b.state = "open"
    <2>1. a.state = "half_open" /\ p.probe /\ p.generation = a.generation
          /\ a.generation = b.generation
      BY <1>1, <1>2, AcquireResult
    <2> HIDE DEF a, p
    <2>2. /\ IsBreaker(RecordNeutral(a, p, now)) /\ RecordNeutral(a, p, now).state = "open"
          /\ RecordNeutral(a, p, now).generation = b.generation
      BY <1>1, <2>1, NeutralResult
    <2>3. HoldersInv(RecordNeutral(a, p, now), H, perm)
      BY <1>2, <2>2 DEF HoldersInv
    <2> QED BY <2>3 DEF a, p
  <1>3. CASE b.state = "closed"
    <2>1. a = b
      BY <1>1, <1>3, AcquireResult
    <2>2. RecordNeutral(b, p, now) = b
      BY <1>3 DEF RecordNeutral
    <2> QED BY <2>1, <2>2
  <1> QED BY <1>1, <1>2, <1>3

\* Every way to settle a held permit keeps it for the permits still out.
LEMMA SettleKeeps ==
    ASSUME NEW b, NEW H, NEW perm, NEW now \in Int, NEW c \in H,
           HoldersInv(b, H, perm)
    PROVE  /\ HoldersInv(RecordSuccess(b, perm[c], now), H \ {c}, perm)
           /\ HoldersInv(RecordFailure(b, perm[c], now), H \ {c}, perm)
           /\ HoldersInv(RecordNeutral(b, perm[c], now), H \ {c}, perm)
  <1> DEFINE p == perm[c]
  <1>0. IsBreaker(b) /\ p \in Permits /\ p.generation <= b.generation
    BY DEF HoldersInv
  <1>1. CASE p.generation # b.generation
    <2>1. /\ RecordSuccess(b, p, now) = b /\ RecordFailure(b, p, now) = b
          /\ RecordNeutral(b, p, now) = b
      BY <1>1 DEF RecordSuccess, RecordFailure, RecordNeutral
    <2>2. HoldersInv(b, H \ {c}, perm)
      BY <1>1 DEF HoldersInv
    <2> QED BY <2>1, <2>2
  <1>2. CASE p.generation = b.generation
    <2>1. b.state # "open"
      BY <1>2 DEF HoldersInv
    <2>2. HoldersInv(RecordSuccess(b, p, now), H \ {c}, perm)
      <3> HIDE DEF p
      <3>1. /\ IsBreaker(RecordSuccess(b, p, now)) /\ RecordSuccess(b, p, now).state = "closed"
            /\ RecordSuccess(b, p, now).generation = b.generation
        BY <1>0, <1>2, SuccessResult
      <3> QED BY <3>1 DEF HoldersInv
    <2>3. HoldersInv(RecordFailure(b, p, now), H \ {c}, perm)
      <3> DEFINE f == RecordFailure(b, p, now)
      <3> SUFFICES HoldersInv(f, H \ {c}, perm)
        OBVIOUS
      <3>1. /\ IsBreaker(f)
            /\ \/ f.state = b.state /\ f.generation = b.generation /\ b.state # "half_open"
               \/ f.state = "open" /\ f.generation = b.generation + 1
        BY <1>0, <1>2, FailureResult
      <3>2. b.generation \in Nat /\ \A d \in H : perm[d].generation \in Nat
        BY DEF HoldersInv, IsBreaker, Permits
      <3> HIDE DEF f
      <3>3. CASE f.state = b.state /\ f.generation = b.generation /\ b.state # "half_open"
        BY <2>1, <3>1, <3>3 DEF HoldersInv
      <3>4. CASE f.state = "open" /\ f.generation = b.generation + 1
        <4>1. \A d \in H : perm[d].generation <= b.generation
          BY DEF HoldersInv
        <4>2. \A d \in H : perm[d].generation <= f.generation /\ perm[d].generation # f.generation
          BY <3>2, <3>4, <4>1
        <4> QED BY <3>1, <3>4, <4>2 DEF HoldersInv
      <3> QED BY <3>1, <3>3, <3>4
    <2>4. HoldersInv(RecordNeutral(b, p, now), H \ {c}, perm)
      <3>1. CASE b.state = "half_open"
        <4>1. p.probe /\ \A d \in H : perm[d].generation = b.generation => d = c
          BY <1>2, <3>1 DEF HoldersInv
        <4> HIDE DEF p
        <4>2. /\ IsBreaker(RecordNeutral(b, p, now)) /\ RecordNeutral(b, p, now).state = "open"
              /\ RecordNeutral(b, p, now).generation = b.generation
          BY <1>0, <1>2, <3>1, <4>1, NeutralResult
        <4> QED BY <4>1, <4>2 DEF HoldersInv
      <3>2. CASE b.state # "half_open"
        <4>1. RecordNeutral(b, p, now) = b
          BY <3>2 DEF RecordNeutral
        <4> QED BY <2>1, <3>2, <4>1 DEF HoldersInv
      <3> QED BY <3>1, <3>2
    <2> QED BY <2>2, <2>3, <2>4
  <1> QED BY <1>1, <1>2

\* The invariant only looks at the permits of the holders.
LEMMA HoldersExt ==
    ASSUME NEW b, NEW H, NEW perm, NEW new, HoldersInv(b, H, perm),
           \A d \in H : new[d] = perm[d]
    PROVE  HoldersInv(b, H, new)
  BY DEF HoldersInv
----------------------------------------------------------------------------
(* The registry's insertion order.                                         *)

In(q, t) == \E i \in 1 .. Len(q) : q[i] = t
Distinct(q) == \A i, j \in 1 .. Len(q) : q[i] = q[j] => i = j

LEMMA RemoveAtElements ==
    ASSUME NEW S, NEW q \in Seq(S), NEW k \in 1 .. Len(q)
    PROVE  /\ RemoveAt(q, k) \in Seq(S) /\ Len(RemoveAt(q, k)) = Len(q) - 1
           /\ \A i \in 1 .. Len(q) - 1 :
                 RemoveAt(q, k)[i] = IF i < k THEN q[i] ELSE q[i + 1]
  <1> DEFINE l == SubSeq(q, 1, k - 1)
             r == SubSeq(q, k + 1, Len(q))
  <1>1. Len(q) \in Nat /\ k \in Nat
    OBVIOUS
  <1>2. l \in Seq(S) /\ Len(l) = k - 1 /\ \A i \in 1 .. k - 1 : l[i] = q[i]
    BY <1>1, SubSeqProperties
  <1>3. r \in Seq(S) /\ Len(r) = Len(q) - k /\ \A i \in 1 .. Len(q) - k : r[i] = q[k + i]
    BY <1>1, SubSeqProperties
  <1>4. RemoveAt(q, k) = l \o r
    BY DEF RemoveAt
  <1> HIDE DEF l, r
  <1>5. /\ l \o r \in Seq(S) /\ Len(l \o r) = Len(l) + Len(r)
        /\ \A i \in 1 .. Len(l) + Len(r) :
              (l \o r)[i] = IF i <= Len(l) THEN l[i] ELSE r[i - Len(l)]
    BY <1>2, <1>3, ConcatProperties
  <1>6. ASSUME NEW i \in 1 .. Len(q) - 1
        PROVE  (l \o r)[i] = IF i < k THEN q[i] ELSE q[i + 1]
    <2>1. CASE i < k
      BY <1>1, <1>2, <1>3, <1>5, <2>1
    <2>2. CASE ~(i < k)
      <3>1. (l \o r)[i] = r[i - (k - 1)]
        BY <1>1, <1>2, <1>3, <1>5, <2>2
      <3>2. r[i - (k - 1)] = q[k + (i - (k - 1))] /\ k + (i - (k - 1)) = i + 1
        BY <1>1, <1>3, <2>2
      <3> QED BY <2>2, <3>1, <3>2
    <2> QED BY <2>1, <2>2
  <1> QED BY <1>1, <1>2, <1>3, <1>4, <1>5, <1>6

\* Touch keeps the keys distinct; afterwards s is known, and so is every other
\* scope that was, except the evicted one.
LEMMA TouchElements ==
    ASSUME NEW s \in Scopes, lru \in Seq(Scopes), Distinct(lru)
    PROVE  /\ Touch(s) \in Seq(Scopes) /\ Distinct(Touch(s))
           /\ \A t : In(Touch(s), t) <=> (t = s \/ (In(lru, t) /\ ~Evicts(s, t)))
  <1> DEFINE rest == IF Known(s) THEN RemoveAt(lru, Position(s))
                     ELSE IF Len(lru) >= MaxScoped THEN Tail(lru) ELSE lru
  <1>0. Len(lru) \in Nat /\ DOMAIN lru = 1 .. Len(lru) /\ MaxScoped \in Nat /\ MaxScoped > 0
    BY RegistryAssumption
  <1>1. /\ rest \in Seq(Scopes) /\ Distinct(rest) /\ ~In(rest, s)
        /\ \A t : t # s => (In(rest, t) <=> In(lru, t) /\ ~Evicts(s, t))
    <2>1. CASE Known(s)
      <3> DEFINE k == Position(s)
                 q == RemoveAt(lru, k)
      <3>1. k \in 1 .. Len(lru) /\ lru[k] = s
        BY <1>0, <2>1 DEF Known, Position
      <3> HIDE DEF k
      <3>2. /\ q \in Seq(Scopes) /\ Len(q) = Len(lru) - 1
            /\ \A i \in 1 .. Len(lru) - 1 : q[i] = IF i < k THEN lru[i] ELSE lru[i + 1]
        BY <3>1, RemoveAtElements
      <3>3. rest = q
        BY <2>1 DEF k
      <3> HIDE DEF q, rest
      <3>4. Distinct(q)
        BY <1>0, <3>1, <3>2 DEF Distinct
      <3>5. ~In(q, s)
        BY <1>0, <3>1, <3>2 DEF Distinct, In
      <3>6. ASSUME NEW t, t # s PROVE In(q, t) <=> In(lru, t)
        <4>1. ASSUME In(q, t) PROVE In(lru, t)
          <5>1. PICK i \in 1 .. Len(q) : q[i] = t
            BY <4>1 DEF In
          <5>2. CASE i < k
            BY <1>0, <3>1, <3>2, <5>1, <5>2 DEF In
          <5>3. CASE ~(i < k)
            <6>1. i + 1 \in 1 .. Len(lru) /\ lru[i + 1] = t
              BY <1>0, <3>1, <3>2, <5>1, <5>3
            <6> QED BY <6>1 DEF In
          <5> QED BY <5>2, <5>3
        <4>2. ASSUME In(lru, t) PROVE In(q, t)
          <5>1. PICK i \in 1 .. Len(lru) : lru[i] = t
            BY <4>2 DEF In
          <5>2. i # k
            BY <3>1, <3>6, <5>1
          <5>3. CASE i < k
            BY <1>0, <3>1, <3>2, <5>1, <5>3 DEF In
          <5>4. CASE i > k
            <6>1. i - 1 \in 1 .. Len(q) /\ q[i - 1] = t
              BY <1>0, <3>1, <3>2, <5>1, <5>4
            <6> QED BY <6>1 DEF In
          <5> QED BY <1>0, <3>1, <5>2, <5>3, <5>4
        <4> QED BY <4>1, <4>2
      <3>7. \A t : ~Evicts(s, t)
        BY <2>1 DEF Evicts
      <3> QED BY <3>2, <3>3, <3>4, <3>5, <3>6, <3>7
    <2>2. CASE ~Known(s) /\ Len(lru) >= MaxScoped
      <3> DEFINE q == Tail(lru)
      <3>1. /\ q \in Seq(Scopes) /\ Len(q) = Len(lru) - 1
            /\ \A i \in 1 .. Len(lru) - 1 : q[i] = lru[i + 1]
        BY <1>0, <2>2, HeadTailProperties
      <3>2. rest = q /\ ~In(lru, s)
        BY <1>0, <2>2 DEF Known, In
      <3> HIDE DEF q, rest
      <3>3. Distinct(q)
        BY <1>0, <3>1 DEF Distinct
      <3>4. ASSUME NEW t PROVE In(q, t) <=> In(lru, t) /\ t # lru[1]
        <4>1. ASSUME In(q, t) PROVE In(lru, t) /\ t # lru[1]
          <5>1. PICK i \in 1 .. Len(q) : q[i] = t
            BY <4>1 DEF In
          <5>2. i + 1 \in 1 .. Len(lru) /\ lru[i + 1] = t /\ 1 \in 1 .. Len(lru) /\ i + 1 # 1
            BY <1>0, <2>2, <3>1, <5>1
          <5> QED BY <5>2 DEF In, Distinct
        <4>2. ASSUME In(lru, t), t # lru[1] PROVE In(q, t)
          <5>1. PICK i \in 1 .. Len(lru) : lru[i] = t
            BY <4>2 DEF In
          <5>2. i - 1 \in 1 .. Len(q) /\ q[i - 1] = t
            BY <1>0, <3>1, <4>2, <5>1
          <5> QED BY <5>2 DEF In
        <4> QED BY <4>1, <4>2
      <3>5. \A t : Evicts(s, t) <=> t = lru[1]
        BY <2>2 DEF Evicts
      <3> QED BY <3>1, <3>2, <3>3, <3>4, <3>5
    <2>3. CASE ~Known(s) /\ ~(Len(lru) >= MaxScoped)
      BY <1>0, <2>3 DEF Known, In, Evicts
    <2> QED BY <2>1, <2>2, <2>3
  <1>2. Touch(s) = Append(rest, s)
    BY DEF Touch
  <1> HIDE DEF rest
  <1>3. /\ Append(rest, s) \in Seq(Scopes) /\ Len(Append(rest, s)) = Len(rest) + 1
        /\ \A i \in 1 .. Len(rest) : Append(rest, s)[i] = rest[i]
        /\ Append(rest, s)[Len(rest) + 1] = s /\ Len(rest) \in Nat
    BY <1>1, AppendProperties
  <1>4. ~Evicts(s, s)
    BY <1>0 DEF Evicts, Known
  <1>5. Distinct(Append(rest, s))
    BY <1>1, <1>3 DEF Distinct, In
  <1>6. \A t : In(Append(rest, s), t) <=> (t = s \/ In(rest, t))
    BY <1>1, <1>3 DEF In
  <1> QED BY <1>1, <1>2, <1>3, <1>4, <1>5, <1>6
----------------------------------------------------------------------------
(* The inductive invariant.                                                *)

RunningCalls == {c \in Calls : Running(c)}
NetworkPermits == [c \in Calls |-> calls[c].network]
HoldersOf(s) == {c \in Calls : Running(c) /\ ~calls[c].orphan /\ calls[c].scope = s}
ScopedPermits == [c \in Calls |-> calls[c].scoped]

StateOK ==
    /\ clock \in Nat
    /\ calls \in [Calls -> CallRecords]
    /\ DOMAIN scoped = Scopes
    /\ lru \in Seq(Scopes) /\ Distinct(lru)

\* The breaker a guard holds stays in the registry until an eviction orphans
\* the guard.
GuardsAreKnown == \A c \in RunningCalls : ~calls[c].orphan => In(lru, calls[c].scope)

Inv ==
    /\ StateOK
    /\ GuardsAreKnown
    /\ HoldersInv(network, RunningCalls, NetworkPermits)
    /\ \A s \in Scopes : HoldersInv(Breaker(s), HoldersOf(s), ScopedPermits)

LEMMA KnownIsIn ==
    ASSUME lru \in Seq(Scopes), NEW t
    PROVE  Known(t) <=> In(lru, t)
  BY DEF Known, In

LEMMA InvInit == Init => Inv
  <1> SUFFICES ASSUME Init PROVE Inv
    OBVIOUS
  <1>1. PICK scopeOf \in [Calls -> Scopes] : calls = [c \in Calls |-> Idle(scopeOf[c])]
    BY DEF Init
  <1>2. StateOK
    BY <1>1 DEF Init, StateOK, Idle, NoPermit, CallRecords, Permits, Distinct
  <1>3. RunningCalls = {} /\ \A s : HoldersOf(s) = {}
    BY <1>1 DEF RunningCalls, HoldersOf, Running, Idle
  <1>4. IsBreaker(Fresh) /\ Fresh.state = "closed"
    BY DEF Fresh, IsBreaker, CircuitStates
  <1>5. network = Fresh /\ \A s : Breaker(s) = Fresh
    BY DEF Init, Breaker, Known
  <1> QED BY <1>2, <1>3, <1>4, <1>5 DEF Inv, HoldersInv, GuardsAreKnown

\* One call ends: its two permits leave the holders.
LEMMA InvCallEnds ==
    ASSUME Inv, NEW c \in Calls, CallEnds(c)
    PROVE  Inv'
  <1> DEFINE s == calls[c].scope
             n == calls[c].network
             p == calls[c].scoped
  <1>1. PICK b : \* the scoped breaker afterwards
        /\ Running(c) /\ UNCHANGED <<clock, lru>>
        /\ calls' = [calls EXCEPT ![c].status = "done"]
        /\ \/ network' = RecordSuccess(network, n, clock)
           \/ network' = RecordNeutral(network, n, clock)
           \/ network' = RecordFailure(network, n, clock)
        /\ \/ b = RecordSuccess(scoped[s], p, clock)
           \/ b = RecordNeutral(scoped[s], p, clock)
           \/ b = RecordFailure(scoped[s], p, clock)
        /\ scoped' = IF calls[c].orphan THEN scoped ELSE [scoped EXCEPT ![s] = b]
    BY Zenon DEF CallEnds, CallSucceeds, CallIsNeutral, CallFailsOnNetwork, CallFailsInScope, Settle
  <1>2. /\ clock \in Int /\ calls \in [Calls -> CallRecords] /\ DOMAIN scoped = Scopes
        /\ s \in Scopes /\ lru \in Seq(Scopes)
    BY DEF Inv, StateOK, CallRecords
  <1>3. /\ calls'[c].status = "done" /\ calls'[c].scope = s
        /\ calls'[c].network = n /\ calls'[c].scoped = p
        /\ calls'[c].orphan = calls[c].orphan
        /\ calls' \in [Calls -> CallRecords]
        /\ \A d \in Calls : d # c => calls'[d] = calls[d]
    BY <1>1, <1>2 DEF CallRecords
  <1>4. StateOK'
    BY <1>1, <1>2, <1>3 DEF Inv, StateOK, Distinct
  <1>5. /\ c \in RunningCalls /\ RunningCalls' = RunningCalls \ {c}
        /\ NetworkPermits' = NetworkPermits /\ NetworkPermits[c] = n
        /\ ScopedPermits' = ScopedPermits /\ ScopedPermits[c] = p
    BY <1>1, <1>3 DEF RunningCalls, Running, NetworkPermits, ScopedPermits
  <1>6. HoldersInv(network', RunningCalls', NetworkPermits')
    <2>1. HoldersInv(network, RunningCalls, NetworkPermits)
      BY DEF Inv
    <2>2. /\ HoldersInv(RecordSuccess(network, NetworkPermits[c], clock), RunningCalls \ {c}, NetworkPermits)
          /\ HoldersInv(RecordFailure(network, NetworkPermits[c], clock), RunningCalls \ {c}, NetworkPermits)
          /\ HoldersInv(RecordNeutral(network, NetworkPermits[c], clock), RunningCalls \ {c}, NetworkPermits)
      BY <1>2, <1>5, <2>1, SettleKeeps
    <2> QED BY <1>1, <1>5, <2>2
  <1>7. GuardsAreKnown'
    BY <1>1, <1>3, <1>5 DEF Inv, GuardsAreKnown, In, RunningCalls
  <1>8. ASSUME NEW t \in Scopes
        PROVE  HoldersInv(Breaker(t)', HoldersOf(t)', ScopedPermits')
    <2>1. Known(t)' = Known(t)
      BY <1>1 DEF Known
    <2>2. CASE ~calls[c].orphan /\ t = s
      <3>1. Known(s)
        BY <1>2, <1>5, <2>2, KnownIsIn DEF Inv, GuardsAreKnown
      <3>2. Breaker(t) = scoped[s] /\ Breaker(t)' = b
        BY <1>1, <1>2, <2>1, <2>2, <3>1 DEF Breaker
      <3>3. c \in HoldersOf(t) /\ HoldersOf(t)' = HoldersOf(t) \ {c}
        BY <1>1, <1>3, <2>2 DEF HoldersOf, Running
      <3>4. HoldersInv(b, HoldersOf(t) \ {c}, ScopedPermits)
        <4>1. HoldersInv(scoped[s], HoldersOf(t), ScopedPermits)
          BY <3>2 DEF Inv
        <4>2. /\ HoldersInv(RecordSuccess(scoped[s], ScopedPermits[c], clock), HoldersOf(t) \ {c}, ScopedPermits)
              /\ HoldersInv(RecordFailure(scoped[s], ScopedPermits[c], clock), HoldersOf(t) \ {c}, ScopedPermits)
              /\ HoldersInv(RecordNeutral(scoped[s], ScopedPermits[c], clock), HoldersOf(t) \ {c}, ScopedPermits)
          BY <1>2, <3>3, <4>1, SettleKeeps
        <4> QED BY <1>1, <1>5, <4>2
      <3> QED BY <1>5, <3>2, <3>3, <3>4
    <2>3. CASE calls[c].orphan \/ t # s
      <3>1. Breaker(t)' = Breaker(t)
        BY <1>1, <1>2, <2>1, <2>3 DEF Breaker
      <3>2. HoldersOf(t)' = HoldersOf(t)
        BY <1>1, <1>3, <2>3 DEF HoldersOf, Running
      <3> QED BY <1>5, <3>1, <3>2 DEF Inv
    <2> QED BY <2>2, <2>3
  <1> QED BY <1>4, <1>6, <1>7, <1>8 DEF Inv

LEMMA InvAcquire ==
    ASSUME Inv, NEW c \in Calls, Acquire(c)
    PROVE  Inv'
  <1> DEFINE s == calls[c].scope
             mine == [status |-> "running", scope |-> s, orphan |-> FALSE,
                      network |-> Permit(network), scoped |-> Permit(Breaker(s))]
             lost(d) == Running(d) /\ Evicts(s, calls[d].scope)
  <1>1. /\ calls[c].status = "idle" /\ Admits(network, clock) /\ Admits(Breaker(s), clock)
        /\ network' = Acquired(network)
        /\ scoped' = [scoped EXCEPT ![s] = Acquired(Breaker(s))]
        /\ lru' = Touch(s) /\ UNCHANGED clock
        /\ calls' = [d \in Calls |-> IF d = c THEN mine
                                     ELSE IF lost(d) THEN [calls[d] EXCEPT !.orphan = TRUE]
                                     ELSE calls[d]]
    BY DEF Acquire
  <1>2. /\ clock \in Int /\ calls \in [Calls -> CallRecords] /\ DOMAIN scoped = Scopes
        /\ s \in Scopes /\ lru \in Seq(Scopes) /\ Distinct(lru)
    BY DEF Inv, StateOK, CallRecords
  <1>3. /\ Permit(network) \in Permits /\ Permit(Breaker(s)) \in Permits
    BY <1>2, AcquireResult DEF Inv, HoldersInv
  <1>4. /\ lru' \in Seq(Scopes) /\ Distinct(lru')
        /\ \A t : In(lru', t) <=> (t = s \/ (In(lru, t) /\ ~Evicts(s, t)))
    BY <1>1, <1>2, TouchElements
  <1>5. /\ mine \in CallRecords /\ calls'[c] = mine
    BY <1>1, <1>2, <1>3 DEF CallRecords
  <1>6. ASSUME NEW d \in Calls, d # c
        PROVE  /\ calls'[d] \in CallRecords
               /\ calls'[d].status = calls[d].status /\ calls'[d].scope = calls[d].scope
               /\ calls'[d].network = calls[d].network /\ calls'[d].scoped = calls[d].scoped
               /\ lost(d) => calls'[d].orphan
               /\ ~lost(d) => calls'[d] = calls[d]
    <2>1. CASE lost(d)
      <3>1. calls'[d] = [calls[d] EXCEPT !.orphan = TRUE]
        BY <1>1, <1>6, <2>1
      <3> QED BY <1>2, <2>1, <3>1 DEF CallRecords
    <2>2. CASE ~lost(d)
      <3>1. calls'[d] = calls[d]
        BY <1>1, <1>6, <2>2
      <3> QED BY <1>2, <2>2, <3>1
    <2> QED BY <2>1, <2>2
  <1>7. DOMAIN calls' = Calls /\ calls' = [d \in Calls |-> calls'[d]]
    BY <1>1
  <1> HIDE DEF mine, lost
  <1>8. StateOK'
    <2>1. calls' \in [Calls -> CallRecords]
      BY <1>5, <1>6, <1>7
    <2>2. DOMAIN scoped' = Scopes
      BY <1>1, <1>2
    <2> QED BY <1>1, <1>4, <2>1, <2>2 DEF Inv, StateOK
  <1>9. /\ c \notin RunningCalls /\ RunningCalls' = RunningCalls \cup {c}
        /\ NetworkPermits'[c] = Permit(network) /\ ScopedPermits'[c] = Permit(Breaker(s))
        /\ \A d \in RunningCalls : /\ NetworkPermits'[d] = NetworkPermits[d]
                                   /\ ScopedPermits'[d] = ScopedPermits[d]
    BY <1>1, <1>5, <1>6 DEF RunningCalls, Running, NetworkPermits, ScopedPermits, mine
  <1>10. HoldersInv(network', RunningCalls', NetworkPermits')
    BY <1>1, <1>9, AcquireKeeps DEF Inv
  <1>11. GuardsAreKnown'
    <2> SUFFICES ASSUME NEW d \in RunningCalls', ~calls'[d].orphan
                 PROVE  In(lru', calls'[d].scope)
      BY DEF GuardsAreKnown
    <2>1. CASE d = c
      BY <1>4, <1>5, <2>1 DEF mine
    <2>2. CASE d # c
      <3>1. d \in RunningCalls /\ d \in Calls /\ Running(d)
        BY <1>9, <2>2 DEF RunningCalls
      <3>2. ~lost(d) /\ calls'[d] = calls[d]
        BY <1>6, <2>2, <3>1
      <3>3. In(lru, calls[d].scope) /\ ~Evicts(s, calls[d].scope)
        BY <3>1, <3>2 DEF Inv, GuardsAreKnown, lost
      <3> QED BY <1>4, <3>2, <3>3
    <2> QED BY <2>1, <2>2
  <1>12. ASSUME NEW t \in Scopes
         PROVE  HoldersInv(Breaker(t)', HoldersOf(t)', ScopedPermits')
    <2>0. (Known(t)' <=> In(lru', t)) /\ (Known(t) <=> In(lru, t))
      BY <1>2, <1>4 DEF Known, In
    <2>1. CASE t = s
      <3>1. Breaker(t)' = Acquired(Breaker(s))
        BY <1>1, <1>2, <1>4, <2>0, <2>1 DEF Breaker
      <3>2. c \notin HoldersOf(s) /\ HoldersOf(s) \subseteq RunningCalls
        BY <1>1 DEF HoldersOf, Running, RunningCalls
      <3>3. ~Evicts(s, s)
        BY <1>2, RegistryAssumption DEF Evicts, Known
      <3>4. HoldersOf(t)' = HoldersOf(s) \cup {c}
        BY <1>5, <1>6, <2>1, <3>3 DEF HoldersOf, Running, mine, lost
      <3>5. HoldersInv(Acquired(Breaker(s)), HoldersOf(s) \cup {c}, ScopedPermits')
        BY <1>1, <1>2, <1>9, <3>2, AcquireKeeps DEF Inv
      <3> QED BY <3>1, <3>4, <3>5
    <2>2. CASE t # s /\ Evicts(s, t)
      <3>1. Breaker(t)' = Fresh
        BY <1>4, <2>0, <2>2 DEF Breaker
      <3>2. HoldersOf(t)' = {}
        BY <1>5, <1>6, <2>2 DEF HoldersOf, Running, mine, lost
      <3>3. IsBreaker(Fresh) /\ Fresh.state = "closed"
        BY DEF Fresh, IsBreaker, CircuitStates
      <3> QED BY <3>1, <3>2, <3>3 DEF HoldersInv
    <2>3. CASE t # s /\ ~Evicts(s, t)
      <3>1. Breaker(t)' = Breaker(t)
        BY <1>1, <1>2, <1>4, <2>0, <2>3 DEF Breaker
      <3>2. HoldersOf(t)' = HoldersOf(t) /\ HoldersOf(t) \subseteq RunningCalls
        BY <1>1, <1>5, <1>6, <2>3 DEF HoldersOf, Running, mine, lost, RunningCalls
      <3>3. HoldersInv(Breaker(t), HoldersOf(t), ScopedPermits')
        BY <1>9, <3>2, HoldersExt DEF Inv
      <3> QED BY <3>1, <3>2, <3>3
    <2> QED BY <2>1, <2>2, <2>3
  <1> QED BY <1>8, <1>10, <1>11, <1>12 DEF Inv

\* A scoped refusal changes the network breaker and the insertion order only:
\* a breaker that refuses is in the registry, so nothing is evicted.
LEMMA InvScopedRefuses ==
    ASSUME Inv, NEW s \in Scopes, ScopedRefuses(s)
    PROVE  Inv'
  <1>1. /\ Admits(network, clock) /\ ~Admits(Breaker(s), clock)
        /\ network' = RecordNeutral(Acquired(network), Permit(network), clock)
        /\ lru' = Touch(s) /\ UNCHANGED <<clock, scoped, calls>>
    BY DEF ScopedRefuses
  <1>2. clock \in Int /\ lru \in Seq(Scopes) /\ Distinct(lru)
    BY DEF Inv, StateOK
  <1>3. Known(s)
    BY <1>1 DEF Breaker, Admits, Fresh
  <1>4. /\ lru' \in Seq(Scopes) /\ Distinct(lru')
        /\ \A t : In(lru', t) <=> In(lru, t)
    <2>1. In(lru, s)
      BY <1>2, <1>3 DEF Known, In
    <2>2. \A t : ~Evicts(s, t)
      BY <1>3 DEF Evicts
    <2> QED BY <1>1, <1>2, <2>1, <2>2, TouchElements
  <1>5. \A t : Breaker(t)' = Breaker(t)
    <2>1. ASSUME NEW t PROVE Known(t)' <=> Known(t)
      <3>1. Known(t) <=> In(lru, t)
        BY <1>2 DEF Known, In
      <3>2. Known(t)' <=> In(lru', t)
        BY <1>4 DEF Known, In
      <3> QED BY <1>4, <3>1, <3>2
    <2> QED BY <1>1, <2>1 DEF Breaker
  <1>6. /\ RunningCalls' = RunningCalls /\ NetworkPermits' = NetworkPermits
        /\ ScopedPermits' = ScopedPermits /\ \A t : HoldersOf(t)' = HoldersOf(t)
    BY <1>1 DEF RunningCalls, NetworkPermits, ScopedPermits, HoldersOf, Running
  <1>7. HoldersInv(network', RunningCalls', NetworkPermits')
    BY <1>1, <1>2, <1>6, RefusalKeeps DEF Inv
  <1>8. StateOK' /\ GuardsAreKnown'
    BY <1>1, <1>4, <1>6 DEF Inv, StateOK, GuardsAreKnown
  <1> QED BY <1>5, <1>6, <1>7, <1>8 DEF Inv

\* Neither a clock tick nor a stuttering step touches a breaker.
LEMMA InvRest ==
    ASSUME Inv, Tick \/ UNCHANGED vars
    PROVE  Inv'
  <1>1. UNCHANGED <<network, scoped, lru, calls>> /\ clock' \in Nat
    BY DEF Inv, StateOK, Tick, vars
  <1> QED
    BY <1>1
    DEF Inv, StateOK, GuardsAreKnown, RunningCalls, NetworkPermits, ScopedPermits, HoldersOf,
        Running, Breaker, Known

LEMMA InvNext == Inv /\ [Next]_vars => Inv'
  <1> SUFFICES ASSUME Inv, [Next]_vars PROVE Inv'
    OBVIOUS
  <1>1. ASSUME NEW c \in Calls, Acquire(c) PROVE Inv'
    BY <1>1, InvAcquire
  <1>2. ASSUME NEW c \in Calls, CallEnds(c) PROVE Inv'
    BY <1>2, InvCallEnds
  <1>3. ASSUME NEW s \in Scopes, ScopedRefuses(s) PROVE Inv'
    BY <1>3, InvScopedRefuses
  <1>4. CASE Tick \/ UNCHANGED vars
    BY <1>4, InvRest
  <1> QED BY <1>1, <1>2, <1>3, <1>4 DEF Next

----------------------------------------------------------------------------
(* The theorems.                                                           *)

LEMMA InvImpliesSole == Inv => NetworkProbeIsSole /\ ScopedProbeIsSole
  <1> SUFFICES ASSUME Inv PROVE NetworkProbeIsSole /\ ScopedProbeIsSole
    OBVIOUS
  <1>1. NetworkProbeIsSole
    BY DEF Inv, HoldersInv, NetworkProbeIsSole, LiveOnNetwork, RunningCalls, NetworkPermits
  <1>2. ASSUME NEW s \in Scopes, Known(s)
        PROVE  /\ scoped[s].state = "half_open" =>
                     \E c \in LiveOnScope(s) : LiveOnScope(s) = {c} /\ calls[c].scoped.probe
               /\ scoped[s].state = "open" => LiveOnScope(s) = {}
    <2>1. HoldersInv(scoped[s], HoldersOf(s), ScopedPermits)
      BY <1>2 DEF Inv, Breaker
    <2> QED BY <2>1 DEF HoldersInv, LiveOnScope, HoldersOf, ScopedPermits
  <1> QED BY <1>1, <1>2 DEF ScopedProbeIsSole

\* OperationalCircuitBreaker and acquireGuard: for any number of calls, scopes
\* and registry entries, a half-open network breaker has exactly one permit of
\* its generation out, its probe, and an open one has none.
THEOREM NetworkProbe == Spec => []NetworkProbeIsSole
  BY InvInit, InvNext, InvImpliesSole, PTL DEF Spec

\* The same for every breaker of VeniceCircuitBreakerRegistry, whatever the
\* registry evicts meanwhile.
THEOREM ScopedProbe == Spec => []ScopedProbeIsSole
  BY InvInit, InvNext, InvImpliesSole, PTL DEF Spec

\* Both together.
THEOREM OneProbeDecides == Spec => []ProbesAreSole
  BY NetworkProbe, ScopedProbe, PTL DEF ProbesAreSole

\* A step from a state in which the network breaker is open.
LEMMA OpenStep ==
    ASSUME Inv, [Next]_vars, network.state = "open"
    PROVE  /\ network'.state # "closed"
           /\ (ProbeDue(network, clock) /\ network'.state = "open") => ProbeDue(network', clock')
  <1>0. IsBreaker(network) /\ clock \in Int /\ OpenDuration \in Int
    BY ThresholdAssumption DEF Inv, HoldersInv, StateOK
  <1>1. ASSUME NEW c \in Calls, Acquire(c) PROVE network'.state = "half_open"
    BY <1>0, <1>1, AcquireResult DEF Acquire
  <1>2. ASSUME NEW c \in Calls, CallEnds(c) PROVE network' = network /\ clock' = clock
    <2>1. c \in RunningCalls /\ NetworkPermits[c] = calls[c].network /\ clock' = clock
      BY <1>2 DEF CallEnds, CallSucceeds, CallIsNeutral, CallFailsOnNetwork, CallFailsInScope,
                  Settle, RunningCalls, NetworkPermits
    <2>2. calls[c].network.generation # network.generation
      BY <2>1 DEF Inv, HoldersInv
    <2> QED
      BY <1>2, <2>1, <2>2
      DEF CallEnds, CallSucceeds, CallIsNeutral, CallFailsOnNetwork, CallFailsInScope, Settle,
          RecordSuccess, RecordNeutral, RecordFailure
  <1>3. ASSUME NEW s \in Scopes, ScopedRefuses(s)
        PROVE  network'.state = "open" /\ ProbeDue(network', clock')
    <2> DEFINE a == Acquired(network)
               p == Permit(network)
    <2>1. /\ IsBreaker(a) /\ a.state = "half_open" /\ p.probe /\ p.generation = a.generation
      BY <1>0, AcquireResult
    <2>2. network' = RecordNeutral(a, p, clock) /\ clock' = clock
      BY <1>3 DEF ScopedRefuses
    <2> HIDE DEF a, p
    <2>3. network'.state = "open" /\ network'.openedAt = clock - OpenDuration
      BY <1>0, <2>1, <2>2, NeutralResult
    <2> QED BY <1>0, <2>2, <2>3 DEF ProbeDue
  <1>4. CASE Tick \/ UNCHANGED vars
    <2>1. network' = network /\ (clock' = clock \/ clock' = clock + 1)
      BY <1>4 DEF Tick, vars
    <2>2. network.openedAt \in Int
      BY <1>0 DEF IsBreaker
    <2> QED BY <1>0, <2>1, <2>2 DEF ProbeDue
  <1> QED BY <1>1, <1>2, <1>3, <1>4 DEF Next

\* recordSuccess, recordOperationalFailure and recordNeutral: results of calls
\* admitted before an outage neither end it nor postpone the probe.
THEOREM OutageEndsByProbe == Spec => OpenEndsByProbe
  <1>1. Inv /\ [Next]_vars =>
          [network.state = "open" =>
             /\ network'.state # "closed"
             /\ (ProbeDue(network, clock) /\ network'.state = "open")
                   => ProbeDue(network', clock')]_vars
    BY OpenStep
  <1> QED BY <1>1, InvInit, InvNext, PTL DEF Spec, OpenEndsByProbe
============================================================================

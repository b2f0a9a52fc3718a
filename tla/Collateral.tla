------------------------------ MODULE Collateral ------------------------------
(***************************************************************************)
(* The release-collateral role and its client (src/releaseCollateral/).    *)
(* A pooled worker's evidence names files and on-chain subjects; the       *)
(* client keeps at most so many calls open, first come first served, and   *)
(* the role looks the values up for it.  The role admits a value it has    *)
(* not seen before only from an allowance, so that what reaches an         *)
(* upstream is bounded however often a caller asks and is refused.         *)
(***************************************************************************)
EXTENDS Naturals, Sequences, SequencesExt

CONSTANTS
    Lookups,         \* calls of the client, and requests made without it
    Files, Apps,     \* (commit, path) and (app, compose hash, image) values
    Questions,       \* what is asked
    KnownImageApps,  \* the subjects whose OS image dstack published
    MaxClaims,       \* MAX_PUBLICATION_CLAIMS
    MaxOpen,         \* the client's maxConcurrent
    MaxConcurrent,   \* the role's
    RequestBurst, NovelBurst, MaxSubjects,
    NovelTicks,      \* clock ticks that earn one request, or one value of a kind
    CollateralMaxClock

Kinds == {"publication", "onchain"}

\* A question: its operation, the values it names, and whether it also holds
\* something outside the contract (a path or a hash of another shape).  "none"
\* is a request with a query string or a body the framework refuses.
Shapes ==
    [op : {"publication"}, values : SUBSET Files, odd : BOOLEAN]
    \cup [op : {"onchain"}, values : {{a} : a \in Apps}, odd : BOOLEAN]
    \cup [op : {"releases"}, values : {{}}, odd : {FALSE}]
    \cup [op : {"none"}, values : {{}}, odd : {TRUE}]

ASSUME CollateralAssumption ==
    /\ KnownImageApps \subseteq Apps /\ MaxOpen \in Nat \ {0} /\ NovelTicks \in Nat \ {0}
    /\ MaxConcurrent \in Nat /\ NovelBurst \in Nat /\ MaxSubjects \in Nat
    /\ IsFiniteSet(Lookups)
    /\ Questions \subseteq Shapes /\ \A q \in Questions : IsFiniteSet(q.values)

VARIABLES
    cTime,
    rate,     \* credit of the request bucket, in 1/NovelTicks of a request
    ledger,   \* ledger[kind]: [admitted: values by recency, oldest first; credit]
    serving,  \* the role's count of lookups in flight
    open,     \* the client's count of calls
    line,     \* the calls waiting for a slot
    lookup,   \* lookup[c]: [pc, ask, gone]
    work,     \* work[c]: what the role does for c: [state, ask]
    outbound      \* outbound[kind]: the values that reached an upstream

collateralVars == <<cTime, rate, ledger, serving, open, line, lookup, work, outbound>>

CollateralInit ==
    /\ cTime = 0
    /\ rate = RequestBurst * NovelTicks
    /\ ledger = [k \in Kinds |-> [admitted |-> <<>>, credit |-> NovelBurst * NovelTicks]]
    /\ serving = 0 /\ open = 0 /\ line = <<>>
    /\ lookup = [c \in Lookups |-> [pc |-> "new"]]
    /\ work = [c \in Lookups |-> [state |-> "none"]]
    /\ outbound = [k \in Kinds |-> {}]

-----------------------------------------------------------------------------
\* The client.  Claims outside the contract are dropped; a subject outside it,
\* or too many claims, is refused before anything is sent.
ContractClaims(q) == [q EXCEPT !.odd = FALSE]

Contract(q) == IF q.op = "publication" THEN ContractClaims(q) ELSE q

ClientRefuses(q) ==
    \/ q.op = "none"
    \/ q.op = "publication" /\ Cardinality(q.values) > MaxClaims
    \/ q.op = "onchain" /\ q.odd

Asks(c, q, pc) == lookup' = [lookup EXCEPT ![c] = [pc |-> pc, ask |-> q, gone |-> FALSE]]

\* gated: a free slot, or the end of the line.
Gated(c) ==
    /\ lookup[c].pc = "new"
    /\ \E q \in Questions :
          /\ ~ClientRefuses(q)
          /\ IF open >= MaxOpen
             THEN Asks(c, Contract(q), "waiting") /\ line' = Append(line, c) /\ UNCHANGED open
             ELSE Asks(c, Contract(q), "calling") /\ open' = open + 1 /\ UNCHANGED line
    /\ UNCHANGED <<cTime, rate, ledger, serving, work, outbound>>

\* (mutant) the released slot is also given back to the count
GiveBackToo(c) ==
    /\ open' = open - 1
    /\ IF line = <<>> THEN line' = line /\ lookup' = [lookup EXCEPT ![c] = [pc |-> "done"]]
       ELSE line' = Tail(line) /\ lookup' = [lookup EXCEPT ![c] = [pc |-> "done"], ![Head(line)].pc = "calling"]

\* The finally of gated: the slot goes to the next in line, or back.
Release(c) ==
    IF line = <<>>
    THEN /\ open' = open - 1 /\ UNCHANGED line
         /\ lookup' = [lookup EXCEPT ![c] = [pc |-> "done"]]
    ELSE /\ line' = Tail(line) /\ UNCHANGED open
         /\ lookup' = [lookup EXCEPT ![c] = [pc |-> "done"], ![Head(line)].pc = "calling"]

\* The caller's signal.  It is not heard in the line: the call begins with it.
Cancel(c) ==
    /\ lookup[c].pc = "waiting" /\ ~lookup[c].gone
    /\ lookup' = [lookup EXCEPT ![c].gone = TRUE]
    /\ UNCHANGED <<cTime, rate, ledger, serving, open, line, work, outbound>>

BeginCancelled(c) ==
    /\ lookup[c].pc = "calling" /\ lookup[c].gone
    /\ Release(c)
    /\ UNCHANGED <<cTime, rate, ledger, serving, work, outbound>>

\* The call ends without the role's answer: its own deadline, the caller's
\* signal or the network.  A request the role is working on is a disconnect to it.
GiveUp(c) ==
    /\ lookup[c].pc \in {"calling", "sent"} /\ ~lookup[c].gone
    /\ Release(c)
    /\ UNCHANGED <<cTime, rate, ledger, serving, work, outbound>>

\* The role's answer, a refusal, or a body that is no record about the question.
Receive(c) ==
    /\ lookup[c].pc = "answered"
    /\ Release(c)
    /\ UNCHANGED <<cTime, rate, ledger, serving, work, outbound>>

-----------------------------------------------------------------------------
\* The role.
Novel(k, vs) == Cardinality(vs \ ToSet(ledger[k].admitted))

\* The values by recency after vs were used, in the order the caller gave
\* them: the others keep their order before them, the oldest beyond the bound
\* are forgotten.
Admitted(k, vs) ==
    LET old == ledger[k].admitted
        Before(u, v) == \E i, j \in DOMAIN old : i < j /\ old[i] = u /\ old[j] = v
        orders == {s \in SetToSeqs(ToSet(old) \cup vs) :
                      \A i, j \in DOMAIN s : i < j => s[j] \in vs \/ (s[i] \notin vs /\ Before(s[i], s[j]))}
        Cut(s) == SubSeq(s, IF Len(s) > MaxSubjects THEN Len(s) - MaxSubjects + 1 ELSE 1, Len(s))
    IN {Cut(s) : s \in orders}

\* (mutant) the values are remembered before the allowance is asked
RememberFirst(k, vs) ==
    \E s \in Admitted(k, vs) : ledger' = [ledger EXCEPT ![k] = [admitted |-> s, credit |-> @.credit]]

\* A refusal of admit records and spends nothing.
NotAdmitted(k, vs) == UNCHANGED ledger

Admit(k, vs) ==
    \E s \in Admitted(k, vs) :
        ledger' = [ledger EXCEPT ![k] = [admitted |-> s, credit |-> @.credit - Novel(k, vs) * NovelTicks]]

Allowed(k, vs) == Novel(k, vs) * NovelTicks <= ledger[k].credit

\* What the schema and the operation's prepare refuse.
Malformed(q) ==
    \/ q.odd
    \/ q.op = "publication" /\ Cardinality(q.values) > MaxClaims
    \/ q.op = "onchain" /\ q.values \cap KnownImageApps = {}

\* The role's reply; a call of the client holds its slot until it is read.
Reply(c, pc) == lookup' = [lookup EXCEPT ![c] = IF pc = "done" THEN [pc |-> pc] ELSE [@ EXCEPT !.pc = pc]]

\* The order of the checks: the request rate, the URL and the schema, a slot,
\* the allowance; a request refused at any of them has sent nothing.
Refuse(c, answered) ==
    /\ rate >= NovelTicks /\ Malformed(lookup[c].ask)
    /\ rate' = rate - NovelTicks /\ Reply(c, answered)
    /\ UNCHANGED <<ledger, serving, work>>

RateLimitedRequest(c, answered) ==
    /\ rate < NovelTicks
    /\ Reply(c, answered)
    /\ UNCHANGED <<rate, ledger, serving, work>>

Busy(c, answered) ==
    /\ rate >= NovelTicks /\ ~Malformed(lookup[c].ask) /\ serving >= MaxConcurrent
    /\ rate' = rate - NovelTicks /\ Reply(c, answered)
    /\ UNCHANGED <<ledger, serving, work>>

RefuseNovel(c, answered) ==
    LET q == lookup[c].ask
    IN /\ rate >= NovelTicks /\ ~Malformed(q) /\ serving < MaxConcurrent
       /\ q.op \in Kinds /\ ~Allowed(q.op, q.values)
       /\ NotAdmitted(q.op, q.values)
       /\ rate' = rate - NovelTicks /\ Reply(c, answered)
       /\ UNCHANGED <<serving, work>>

Enter(c, running) ==
    LET q == lookup[c].ask
    IN /\ rate >= NovelTicks /\ ~Malformed(q) /\ serving < MaxConcurrent
       /\ \/ q.op \in Kinds /\ Allowed(q.op, q.values) /\ Admit(q.op, q.values)
          \/ q.op = "releases" /\ UNCHANGED ledger
       /\ rate' = rate - NovelTicks
       /\ serving' = serving + 1
       /\ work' = [work EXCEPT ![c] = [state |-> "running", ask |-> q]]
       /\ Reply(c, running)

ArriveAtRole(c, answered, running) ==
    /\ \/ Refuse(c, answered) \/ RateLimitedRequest(c, answered) \/ Busy(c, answered)
       \/ RefuseNovel(c, answered) \/ Enter(c, running)
    /\ UNCHANGED <<cTime, open, line, outbound>>

\* A call of the client reaches the role.
Serve(c) ==
    /\ lookup[c].pc = "calling" /\ ~lookup[c].gone
    /\ ArriveAtRole(c, "answered", "sent")

\* A request that did not come through the client: the role trusts nothing of it.
Direct(c) ==
    /\ lookup[c].pc = "new"
    /\ \E q \in Questions : Asks(c, q, "direct")
    /\ UNCHANGED <<cTime, rate, ledger, serving, open, line, work, outbound>>

\* Without the role's token it costs one comparison.
TurnAway(c) ==
    /\ lookup[c].pc = "direct"
    /\ Reply(c, "done")
    /\ UNCHANGED <<cTime, rate, ledger, serving, open, line, work, outbound>>

ServeDirect(c) ==
    /\ lookup[c].pc = "direct"
    /\ ArriveAtRole(c, "done", "directSent")

\* The fetcher asks an upstream about one of the values: not about a file at
\* a commit that is not published, not a contract the registry does not name,
\* not what it has cached.  A detached lookup may still ask.
Look(c) ==
    /\ work[c].state \in {"running", "detached"}
    /\ LET q == work[c].ask
       IN \E v \in q.values : v \notin outbound[q.op] /\ outbound' = [outbound EXCEPT ![q.op] = @ \cup {v}]
    /\ UNCHANGED <<cTime, rate, ledger, serving, open, line, lookup, work>>

\* The lookup answered or failed: 200 or 503, and the slot is left.
Finish(c) ==
    /\ work[c].state = "running"
    /\ lookup[c].pc \in {"sent", "directSent"}
    /\ Reply(c, IF lookup[c].pc = "sent" THEN "answered" ELSE "done")
    /\ serving' = serving - 1
    /\ work' = [work EXCEPT ![c] = [state |-> "none"]]
    /\ UNCHANGED <<cTime, rate, ledger, open, line, outbound>>

\* The deadline ends the wait and leaves the slot; the fetch goes on.
Deadline(c) ==
    /\ work[c].state = "running"
    /\ lookup[c].pc \in {"sent", "directSent"}
    /\ Reply(c, IF lookup[c].pc = "sent" THEN "answered" ELSE "done")
    /\ serving' = serving - 1
    /\ work' = [work EXCEPT ![c].state = "detached"]
    /\ UNCHANGED <<cTime, rate, ledger, open, line, outbound>>

\* The client is gone.
Disconnect(c) ==
    /\ work[c].state = "running" /\ lookup[c].pc = "done"
    /\ serving' = serving - 1
    /\ work' = [work EXCEPT ![c].state = "detached"]
    /\ UNCHANGED <<cTime, rate, ledger, open, line, lookup, outbound>>

Refill(credit, burst) == IF credit < burst * NovelTicks THEN credit + 1 ELSE credit

CollateralTick ==
    /\ cTime < CollateralMaxClock
    /\ cTime' = cTime + 1
    /\ rate' = Refill(rate, RequestBurst)
    /\ ledger' = [k \in Kinds |-> [ledger[k] EXCEPT !.credit = Refill(@, NovelBurst)]]
    /\ UNCHANGED <<serving, open, line, lookup, work, outbound>>

ClientNext ==
    \E c \in Lookups : Gated(c) \/ Cancel(c) \/ BeginCancelled(c) \/ GiveUp(c) \/ Receive(c) \/ Direct(c)
RoleNext ==
    \E c \in Lookups : Serve(c) \/ TurnAway(c) \/ ServeDirect(c) \/ Look(c) \/ Finish(c) \/ Deadline(c) \/ Disconnect(c)

CollateralNext == ClientNext \/ RoleNext \/ CollateralTick

-----------------------------------------------------------------------------
\* However callers ask, are refused, are cut off and ask again, the values that
\* reached an upstream are paid for by the allowance: its burst and what the
\* clock has added since.
OutboundIsAdmitted ==
    \A k \in Kinds : Cardinality(outbound[k]) * NovelTicks <= NovelBurst * NovelTicks + cTime

\* Both slot counts are the calls and the lookups that hold a slot, through
\* hand-over, cancellation, deadline and disconnect, and nobody waits in the
\* client's line beside a free slot.
SlotsAreCounted ==
    /\ serving = Cardinality({c \in Lookups : work[c].state = "running"}) /\ serving <= MaxConcurrent
    /\ open = Cardinality({c \in Lookups : lookup[c].pc \in {"calling", "sent", "answered"}}) /\ open <= MaxOpen
    /\ line # <<>> => open = MaxOpen
=============================================================================

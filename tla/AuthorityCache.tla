--------------------------- MODULE AuthorityCache ---------------------------
(***************************************************************************)
(* The fetch discipline of the release-authority fetchers (src/providers/  *)
(* attestation/authority/fetchLayer.ts) under the fetcher of one authority: *)
(* the on-chain registry (several calls to one endpoint after another) or a *)
(* GitHub or Chutes listing (one conditional request to one endpoint).     *)
(*                                                                         *)
(* What upstream publishes about a key is a version number that may go up  *)
(* at any time (a revocation, a new release).  The cache stores versions   *)
(* with the time their request began.  The clock never goes back here, so  *)
(* the skew test of the code is always true.                               *)
(***************************************************************************)
EXTENDS Integers, Sequences, SequencesExt

CONSTANTS
    AuthorityFetchers,          \* fetchers: [subjects: the keys asked of it, endpoints: the hosts a load tries, in order]
    Askers,            \* calls of the cache
    CallsPerLoad,      \* requests of a load to one endpoint
    FreshFor, SwrFor,  \* the fetcher's TTL, and how long past it stale-while-revalidate lasts
    MaxStale, ErrorBackoff, MaxErrorBackoff, MaxRetryAfter,
    LoadTimeout,       \* the deadlines of the requests of one load, together
    CacheEntries,      \* maxEntries
    HostBurst,         \* requests to a host at once
    TokenTicks,        \* clock ticks until a host earns one more
    MaxVersion, AuthorityMaxClock  \* bounds on the model

Hosts == UNION {ToSet(f.endpoints) : f \in AuthorityFetchers}

ASSUME AuthorityAssumption ==
    /\ MaxStale \in Nat /\ FreshFor \in 1..MaxStale /\ LoadTimeout \in 1..MaxStale
    /\ CallsPerLoad \in Nat \ {0} /\ \A f \in AuthorityFetchers : f.endpoints # <<>>

VARIABLES
    fetcher,    \* the fetcher this process built
    aTime,      \* the process clock
    entries,    \* the cache: a sequence of entries, oldest first
    buckets,    \* buckets[h]: [credit, blocked], credit in 1/TokenTicks of a request
    published,  \* published[k]: the times at which versions 2, 3... of k appeared
    asker       \* asker[c]: [pc, key, value, at, when]

authorityVars == <<fetcher, aTime, entries, buckets, published, asker>>

NoAnswer == [value |-> 0, at |-> 0]
NoFailure == [retryAt |-> 0, consecutive |-> 0]
\* No refresh in flight; otherwise [started, host, call, value]: the endpoint
\* and the call the load is at, and the version it read.
NoFlight == [started |-> 0, host |-> 0, call |-> 0, value |-> 0]

AuthorityInit ==
    /\ fetcher \in AuthorityFetchers
    /\ aTime = 1
    /\ entries = <<>>
    /\ buckets = [h \in Hosts |-> [credit |-> HostBurst * TokenTicks, blocked |-> 0]]
    /\ published = [k \in fetcher.subjects |-> <<>>]
    /\ asker = [c \in Askers |-> [pc |-> "idle"]]

Version(k) == Len(published[k]) + 1

-----------------------------------------------------------------------------
\* The cache as a table.
PositionOf(k) == {i \in DOMAIN entries : entries[i].key = k}
Cached(k) == PositionOf(k) # {}
EntryOf(k) == entries[CHOOSE i \in PositionOf(k) : TRUE]
RefreshInFlight(k) == Cached(k) /\ EntryOf(k).flight # NoFlight
SetEntry(k, e) == [i \in DOMAIN entries |-> IF entries[i].key = k THEN e ELSE entries[i]]

AgeOf(k) == aTime - EntryOf(k).answer.at
Answered(k) == Cached(k) /\ EntryOf(k).answer # NoAnswer
StillFresh(k) == Answered(k) /\ AgeOf(k) < FreshFor
UsableStale(k) == Answered(k) /\ AgeOf(k) <= MaxStale
WithinSwr(k) == UsableStale(k) /\ SwrFor > 0 /\ AgeOf(k) < FreshFor + SwrFor
BackingOff(k) == Cached(k) /\ EntryOf(k).failure # NoFailure /\ aTime < EntryOf(k).failure.retryAt

\* The table after room was made: the oldest entry without a refresh in
\* flight goes; when all have one the table grows past its bound.
RoomMade ==
    LET idle == {i \in DOMAIN entries : entries[i].flight = NoFlight}
    IN IF Len(entries) < CacheEntries \/ idle = {} THEN entries
       ELSE RemoveAt(entries, CHOOSE i \in idle : \A j \in idle : i <= j)

Flight == [started |-> aTime, host |-> 1, call |-> 1, value |-> 0]

\* The cache when a refresh of k begins.
Refreshing(k) ==
    IF Cached(k) THEN SetEntry(k, [EntryOf(k) EXCEPT !.flight = Flight])
    ELSE Append(RoomMade, [key |-> k, answer |-> NoAnswer, failure |-> NoFailure, flight |-> Flight])

\* What a caller gets: an answer, or an error that leaves it as it was.
Answer(k, a) == [pc |-> "served", key |-> k, value |-> a.value, at |-> a.at, when |-> aTime]
NoResult == [pc |-> "idle"]
WaitingFor(k) == [pc |-> "waiting", key |-> k]
Give(c, s) == asker' = [asker EXCEPT ![c] = s]

\* get: fresh, stale while a refresh runs, joined to the refresh in flight,
\* held back by the negative cache, or the beginning of a refresh.
ServeFresh(c, k) ==
    /\ StillFresh(k)
    /\ Give(c, Answer(k, EntryOf(k).answer))
    /\ UNCHANGED entries

JoinRefresh(c, k) ==
    /\ ~StillFresh(k) /\ RefreshInFlight(k)
    /\ Give(c, IF WithinSwr(k) THEN Answer(k, EntryOf(k).answer) ELSE WaitingFor(k))
    /\ UNCHANGED entries

HoldBack(c, k) ==
    /\ ~StillFresh(k) /\ ~RefreshInFlight(k) /\ BackingOff(k)
    /\ Give(c, IF UsableStale(k) THEN Answer(k, EntryOf(k).answer) ELSE NoResult)
    /\ UNCHANGED entries

BeginRefresh(c, k) ==
    /\ ~StillFresh(k) /\ ~RefreshInFlight(k) /\ ~BackingOff(k)
    /\ Give(c, IF WithinSwr(k) THEN Answer(k, EntryOf(k).answer) ELSE WaitingFor(k))
    /\ entries' = Refreshing(k)

GetAnswer(c) ==
    /\ asker[c].pc = "idle"
    /\ \E k \in fetcher.subjects : ServeFresh(c, k) \/ JoinRefresh(c, k) \/ HoldBack(c, k) \/ BeginRefresh(c, k)
    /\ UNCHANGED <<fetcher, aTime, buckets, published>>

\* raceSignal: the caller's own signal ends its wait and not the refresh.
Abandon(c) ==
    /\ asker[c].pc = "waiting"
    /\ Give(c, NoResult)
    /\ UNCHANGED <<fetcher, aTime, entries, buckets, published>>

\* The caller takes its result.
TakeResult(c) ==
    /\ asker[c].pc = "served"
    /\ Give(c, NoResult)
    /\ UNCHANGED <<fetcher, aTime, entries, buckets, published>>

-----------------------------------------------------------------------------
\* A settled refresh answers everyone waiting for it.
Resolve(k, s) ==
    asker' = [c \in Askers |-> IF asker[c] = WaitingFor(k) THEN s ELSE asker[c]]

Lower(a, b) == IF a < b THEN a ELSE b
Higher(a, b) == IF a > b THEN a ELSE b

Backoff(n) == Lower(ErrorBackoff * 2 ^ (n - 1), MaxErrorBackoff)

\* (mutant) the answer is dated when it arrived
DatedNow(k, v) == [value |-> v, at |-> aTime]

\* The answer's time is the request's start: what was read is at least that new.
LoadedAnswer(k, v) == [value |-> v, at |-> EntryOf(k).flight.started]

RefreshSucceeds(k, v) ==
    /\ entries' = SetEntry(k, [key |-> k, answer |-> LoadedAnswer(k, v), failure |-> NoFailure, flight |-> NoFlight])
    /\ Resolve(k, Answer(k, LoadedAnswer(k, v)))

\* Stale-if-error: a failed refresh still serves an answer within the bound.
RefreshFails(k, retryAt) ==
    LET e == EntryOf(k)
        n == e.failure.consecutive + 1
        upstream == Lower(retryAt, e.flight.started + MaxRetryAfter)
        negative == [retryAt |-> Higher(e.flight.started + Backoff(n), upstream), consecutive |-> n]
    IN /\ entries' = SetEntry(k, [key |-> k, answer |-> e.answer, failure |-> negative, flight |-> NoFlight])
       /\ Resolve(k, IF UsableStale(k) THEN Answer(k, e.answer) ELSE NoResult)

\* authorityFetch failed at one endpoint: the next one, or the failure of the load.
EndpointFailed(k, retryAt) ==
    IF EntryOf(k).flight.host < Len(fetcher.endpoints)
    THEN /\ entries' = SetEntry(k, [EntryOf(k) EXCEPT !.flight =
                [started |-> @.started, host |-> @.host + 1, call |-> 1, value |-> 0]])
         /\ UNCHANGED asker
    ELSE RefreshFails(k, retryAt)

HostOf(k) == fetcher.endpoints[EntryOf(k).flight.host]

\* What a tick of the clock adds to a host's credit (the code adds it on use).
RefilledBucket(b) == [b EXCEPT !.credit = Lower(HostBurst * TokenTicks, @ + 1)]

\* RequestBudget.take refuses without touching the network.
BudgetRefuses(k) ==
    LET b == buckets[HostOf(k)]
    IN /\ RefreshInFlight(k) /\ EntryOf(k).flight.call <= CallsPerLoad
       /\ b.blocked > aTime \/ b.credit < TokenTicks
       /\ EndpointFailed(k, IF b.blocked > aTime THEN b.blocked ELSE aTime + TokenTicks - b.credit)
       /\ UNCHANGED <<fetcher, aTime, buckets, published>>

\* The version is read by the first call (chain and block, which every later
\* call names), or is the listing itself (a 304 confirms the version sent).
ReadVersion(k) == IF EntryOf(k).flight.call = 1 THEN Version(k) ELSE EntryOf(k).flight.value

\* A request to the endpoint under its deadline, and what came of it.
AskEndpoint(k) ==
    LET h == HostOf(k)
        b == buckets[h]
    IN /\ RefreshInFlight(k) /\ EntryOf(k).flight.call <= CallsPerLoad
       /\ b.blocked <= aTime /\ b.credit >= TokenTicks
       /\ buckets' = [buckets EXCEPT ![h] = [b EXCEPT !.credit = @ - TokenTicks]]
       /\ \/ /\ entries' = SetEntry(k, [EntryOf(k) EXCEPT !.flight =
                    [started |-> @.started, host |-> @.host, call |-> @.call + 1, value |-> ReadVersion(k)]])
             /\ UNCHANGED asker
          \/ EndpointFailed(k, 0)
       /\ UNCHANGED <<fetcher, aTime, published>>

\* The rate-limit answer blocks the host for every key.
RateLimited(k) ==
    LET h == HostOf(k)
        b == buckets[h]
    IN /\ RefreshInFlight(k) /\ EntryOf(k).flight.call <= CallsPerLoad
       /\ b.blocked <= aTime /\ b.credit >= TokenTicks
       /\ \E wait \in 1..MaxRetryAfter :
             /\ buckets' = [buckets EXCEPT ![h] =
                    [b EXCEPT !.credit = @ - TokenTicks, !.blocked = Higher(b.blocked, aTime + wait)]]
             /\ EndpointFailed(k, aTime + wait)
       /\ UNCHANGED <<fetcher, aTime, published>>

\* The last call of the load was answered.
LoadCompletes(k) ==
    /\ RefreshInFlight(k) /\ EntryOf(k).flight.call > CallsPerLoad
    /\ RefreshSucceeds(k, EntryOf(k).flight.value)
    /\ UNCHANGED <<fetcher, aTime, buckets, published>>

\* Upstream publishes the next version.
PublishNext(k) ==
    /\ Version(k) < MaxVersion
    /\ published' = [published EXCEPT ![k] = Append(@, aTime)]
    /\ UNCHANGED <<fetcher, aTime, entries, buckets, asker>>

\* No load outlives the deadlines of its requests.
Overdue(k) == RefreshInFlight(k) /\ aTime >= EntryOf(k).flight.started + LoadTimeout

AuthorityTick ==
    /\ aTime < AuthorityMaxClock
    /\ \A k \in fetcher.subjects : ~Overdue(k)
    /\ aTime' = aTime + 1
    /\ buckets' = [h \in Hosts |-> RefilledBucket(buckets[h])]
    /\ UNCHANGED <<fetcher, entries, published, asker>>

Asking == \E c \in Askers : GetAnswer(c) \/ Abandon(c) \/ TakeResult(c)
Loading == \E k \in fetcher.subjects : BudgetRefuses(k) \/ AskEndpoint(k) \/ RateLimited(k) \/ LoadCompletes(k) \/ PublishNext(k)

AuthorityNext == Asking \/ Loading \/ AuthorityTick

-----------------------------------------------------------------------------
\* Version v of k had not been superseded at time t.
CurrentAt(k, v, t) == v <= Len(published[k]) => published[k][v] >= t

\* A record served by a fetcher says how old it is and is not older than the
\* bound, by whichever path it came (fresh, stale while refreshing, stale after
\* a failure, joined): at the time it carries, what it says was still
\* published, so a revocation is out of every verdict within MaxStale.
ServedAgeIsTrue ==
    \A c \in Askers : asker[c].pc = "served" =>
        LET a == asker[c]
        IN /\ a.when - a.at <= MaxStale
           /\ CurrentAt(a.key, a.value, a.at)
=============================================================================

---------------------------- MODULE CatalogSync ----------------------------
(***************************************************************************)
(* Catalog synchronization in a provider worker: the pollers and on-demand *)
(* runs of src/providers/catalog/sync.ts, the fetchers of the              *)
(* src/providers/catalog/*Sync.ts files, and the delivery to control with  *)
(* the health probes that follow it (wireProvider in src/roles.ts).  One   *)
(* lane per provider the pool serves; lanes share the probe gate and the   *)
(* `closing` flag and nothing else.  A lane can have two runs: the         *)
(* scheduled one (runOnce) and the on-demand one (syncNow).                *)
(*                                                                         *)
(* Every step is one turn of the event loop between two awaits.  The       *)
(* microtasks between a run's end and the start of the follow-up run are   *)
(* one step: nothing that calls syncNow is resumed among them.             *)
(***************************************************************************)
EXTENDS Integers, Sequences, FiniteSets

CONSTANTS
    SyncPools,      \* the values POOL_PROVIDERS may have: sets of providers
    Callers,        \* on-demand calls: credential administration, control's admin route
    MaxRetries,     \* 3 in the fetchers
    GateLimit,      \* HEALTH_PROBE_CONCURRENCY
    LaneLimit,      \* POOLED_PROVIDER_PROBE_CONCURRENCY
    MaxTargets,     \* WORKER_HEALTH_TARGET_LIMIT
    MaxKeyEdits,    \* bound on changes of a key set
    MaxPolls        \* bound on scheduled runs of a lane

ASSUME SyncAssumption ==
    /\ IsFiniteSet(UNION SyncPools)
    /\ {GateLimit, LaneLimit} \subseteq Nat \ {0} /\ {MaxRetries, MaxTargets} \subseteq Nat

Lanes == UNION SyncPools

VARIABLES
    served,    \* the providers this pool serves, a lane each
    keys,      \* version of the worker's key set, read while delivering
    run,       \* run[l][s]: the scheduled and the on-demand run of lane l
    armed,     \* armed[l]: the lane's timer is set
    polls,     \* polls[l]: scheduled runs so far
    stopped,   \* onClose ran: lanes are stopped and `closing` is set
    draining,  \* drain() was called
    caller,    \* caller[c]: [state, lane, at, saw]
    queue,     \* the gate's waiters, first come first served: <<l, s>>
    slots     \* the gate's count of slots taken (`active`)

syncVars == <<served, keys, run, armed, polls, stopped, draining, caller, queue, slots>>

Slots == {"sched", "now"}

IdleRun == [phase |-> "idle", attempt |-> 0, payload |-> "none", read |-> 0, left |-> 0,
         waiting |-> 0, holding |-> 0, probing |-> 0, checks |-> 0, lease |-> FALSE]

-----------------------------------------------------------------------------
(* The fetchers differ in what they accept as a model list (`shapes`: a    *)
(* bare array, a "data" or a "models" field), in retrying, and in Bedrock's*)
(* account-mode check before the list is asked for.  A 200 answer of any   *)
(* other shape is the empty list.                                          *)
VeniceFetch == [shapes |-> {"data"}, retries |-> MaxRetries, first |-> "fetch"]
FireworksFetch == [shapes |-> {"models"}, retries |-> MaxRetries, first |-> "fetch"]
DeepInfraFetch == [shapes |-> {"array", "models"}, retries |-> MaxRetries, first |-> "fetch"]
ChutesFetch == [shapes |-> {"array", "data"}, retries |-> MaxRetries, first |-> "fetch"]
TinfoilFetch == [shapes |-> {"array", "data"}, retries |-> MaxRetries, first |-> "fetch"]
NearFetch == [shapes |-> {"array", "data"}, retries |-> MaxRetries, first |-> "fetch"]
PhalaFetch == [shapes |-> {"array", "data"}, retries |-> MaxRetries, first |-> "fetch"]
BedrockFetch == [shapes |-> {"array", "data", "models"}, retries |-> 0, first |-> "retention"]

\* buildCatalogPayload: the switch on the lane's provider; Venice is the default
Fetcher(l) ==
    CASE l = "fireworks" -> FireworksFetch
      [] l = "aws-bedrock" -> BedrockFetch
      [] l = "deepinfra" -> DeepInfraFetch
      [] l = "chutes" -> ChutesFetch
      [] l = "tinfoil" -> TinfoilFetch
      [] l = "near-ai" -> NearFetch
      [] l = "phala-ai" -> PhalaFetch
      [] OTHER -> VeniceFetch

\* fetchVeniceRateLimits: Venice's delivery asks for the per-model limits first
\* and goes on whatever comes of it, null included
RatesFirst(l) == l = "venice"

\* the unique targets control may name in its answer
TargetCounts == 0..MaxTargets

Payload(l, shape) == IF shape \in Fetcher(l).shapes THEN "models" ELSE "empty"

SyncInit ==
    /\ served \in SyncPools
    /\ keys = 0
    /\ run = [l \in Lanes |-> [s \in Slots |-> IdleRun]]
    /\ armed = [l \in Lanes |-> TRUE]     \* the pool starts every poller, and waits for none
    /\ polls = [l \in Lanes |-> 0]
    /\ stopped = FALSE
    /\ draining = FALSE
    /\ caller = [c \in Callers |-> [state |-> "idle", lane |-> "none", at |-> 0, saw |-> 0]]
    /\ queue = <<>>
    /\ slots = 0

Starting(l) == [IdleRun EXCEPT !.phase = Fetcher(l).first]

-----------------------------------------------------------------------------
(* Starting and ending runs.                                                *)
\* runOnce, from start() or from the timer: joined when one is in flight
Poll(l) ==
    /\ armed[l] /\ ~stopped /\ polls[l] < MaxPolls
    /\ run[l]["sched"].phase = "idle"
    /\ run' = [run EXCEPT ![l]["sched"] = Starting(l)]
    /\ armed' = [armed EXCEPT ![l] = FALSE]
    /\ polls' = [polls EXCEPT ![l] = @ + 1]
    /\ UNCHANGED <<keys, stopped, draining, caller, queue, slots>>

Building(r) == r.phase \in {"retention", "fetch"}

\* (mutant) any run in flight is joined
JoinAny(r) == r.phase # "idle"

\* A caller joins the on-demand run only while it is still building.
Joinable(r) == Building(r)

\* syncNow: start a run, join the one that is building, or share the follow-up
SyncNow(c, l) ==
    /\ caller[c].state = "idle" /\ l \in served
    /\ LET r == run[l]["now"]
           follows == r.phase # "idle" /\ ~Joinable(r)
       IN /\ caller' = [caller EXCEPT ![c] =
                           [state |-> IF follows THEN "follow" ELSE "now", lane |-> l, at |-> keys, saw |-> 0]]
          /\ run' = IF r.phase = "idle" THEN [run EXCEPT ![l]["now"] = Starting(l)] ELSE run
    /\ UNCHANGED <<keys, armed, polls, stopped, draining, queue, slots>>

\* catalogSyncNow for a provider this process does not serve
SyncUnavailable(c, l) ==
    /\ caller[c].state = "idle" /\ l \notin served
    /\ caller' = [caller EXCEPT ![c] = [state |-> "failed", lane |-> l, at |-> keys, saw |-> 0]]
    /\ UNCHANGED <<keys, run, armed, polls, stopped, draining, queue, slots>>

Followers(l) == {c \in Callers : caller[c].lane = l /\ caller[c].state = "follow"}

\* The run settles.  A scheduled run's failure is logged and the timer set
\* again unless the lane was stopped; an on-demand run answers its callers and
\* the follow-up starts whether it succeeded or not.
Settle(l, s, ok) ==
    IF s = "sched"
    THEN /\ run' = [run EXCEPT ![l][s] = IdleRun]
         /\ armed' = [armed EXCEPT ![l] = ~stopped]
         /\ UNCHANGED caller
    ELSE /\ run' = [run EXCEPT ![l][s] = IF Followers(l) = {} THEN IdleRun ELSE Starting(l)]
         /\ caller' = [c \in Callers |->
                IF caller[c].lane # l THEN caller[c]
                ELSE CASE caller[c].state = "now" ->
                            [caller[c] EXCEPT !.state = IF ok THEN "ok" ELSE "failed", !.saw = run[l][s].read]
                       [] caller[c].state = "follow" -> [caller[c] EXCEPT !.state = "now"]
                       [] OTHER -> caller[c]]
         /\ UNCHANGED armed

Continue(l, s, r) == run' = [run EXCEPT ![l][s] = r] /\ UNCHANGED <<armed, caller>>

-----------------------------------------------------------------------------
(* Building the payload.                                                    *)
\* Bedrock asks for the account's retention mode first; any answer but "none"
\* is a failed fetch
RetentionChecked(l, s) ==
    /\ run[l][s].phase = "retention"
    /\ \/ Continue(l, s, [run[l][s] EXCEPT !.phase = "fetch"])
       \/ Settle(l, s, FALSE)
    /\ UNCHANGED <<keys, polls, stopped, draining, queue, slots>>

\* An attempt ends: a model list; a failure that is final (no credential, a
\* 4xx other than 429, attempts used up): the payload is null, so a run ends
\* without a push; or one that is retried after a backoff.  Delivery starts
\* in the same turn; Venice's asks for the rate limits first.
FetchEnds(l, s, answer) ==
    LET r == run[l][s] IN
    /\ r.phase = "fetch"
    /\ CASE answer = "final" \/ (answer = "retryable" /\ r.attempt >= Fetcher(l).retries) -> Settle(l, s, FALSE)
         [] answer = "retryable" /\ r.attempt < Fetcher(l).retries -> Continue(l, s, [r EXCEPT !.attempt = @ + 1])
         [] OTHER ->
              LET built == [r EXCEPT !.attempt = 0, !.payload = Payload(l, answer)]
              IN Continue(l, s, IF RatesFirst(l) THEN [built EXCEPT !.phase = "rates"]
                            ELSE [built EXCEPT !.phase = "push"])
    /\ UNCHANGED <<keys, polls, stopped, draining, queue, slots>>

\* The rate limits arrived (or null): the manifest of the live key set is read
\* and the push sent in this turn.
PushManifest(l, s) ==
    /\ run[l][s].phase = "rates"
    /\ Continue(l, s, [run[l][s] EXCEPT !.phase = "push", !.read = keys])
    /\ UNCHANGED <<keys, polls, stopped, draining, queue, slots>>

\* The push is refused or runs into its deadline: the delivery throws.
PushFails(l, s) ==
    /\ run[l][s].phase = "push"
    /\ Settle(l, s, FALSE)
    /\ UNCHANGED <<keys, polls, stopped, draining, queue, slots>>

LeastOf(a, b) == IF a < b THEN a ELSE b

\* Workers enter the gate: each takes a free slot, or waits for one.
Admitted(n) == LeastOf(n, GateLimit - slots)
Repeat(l, s, n) == [i \in 1..n |-> <<l, s>>]

\* The push is accepted.  With a lease and targets, min(LaneLimit, targets)
\* workers each take a target to the gate; otherwise the delivery is over.
PushAccepted(l, s, targets) ==
    /\ run[l][s].phase = "push"
    /\ IF targets = 0
       THEN Settle(l, s, TRUE) /\ UNCHANGED <<queue, slots>>
       ELSE LET workers == LeastOf(LaneLimit, targets)
                in == Admitted(workers)
            IN /\ Continue(l, s, [run[l][s] EXCEPT !.phase = "probe", !.payload = "none", !.lease = TRUE, !.left = targets - workers,
                                 !.holding = in, !.waiting = workers - in])
               /\ slots' = slots + in
               /\ queue' = queue \o Repeat(l, s, workers - in)
    /\ UNCHANGED <<keys, polls, stopped, draining>>

-----------------------------------------------------------------------------
(* The probes.                                                              *)
\* permitsProbe turned false: less than a probe's deadline is left of the lease
LeaseRunsOut(l, s) ==
    /\ run[l][s].phase = "probe" /\ run[l][s].lease
    /\ Continue(l, s, [run[l][s] EXCEPT !.lease = FALSE])
    /\ UNCHANGED <<keys, polls, stopped, draining, queue, slots>>

\* (mutant) the slot is given up and handed on
ReleaseAlso == slots - 1

\* A released slot is handed straight to the next waiter, so the count moves
\* only when nobody waits.
ActiveAfterRelease == IF queue # <<>> THEN slots ELSE slots - 1

\* The first waiter gets the released slot, if anybody waits.
GivenSlot(r) == [r EXCEPT !.holding = @ + 1, !.waiting = @ - 1]
HandedOn(runs) ==
    IF queue = <<>> THEN runs
    ELSE LET h == Head(queue) IN [runs EXCEPT ![h[1]][h[2]] = GivenSlot(@)]

\* The worker of run l, s is done with its slot; r is its run without it.
Release(l, s, r) ==
    /\ queue' = IF queue = <<>> THEN queue ELSE Tail(queue)
    /\ run' = HandedOn([run EXCEPT ![l][s] = r])
    /\ slots' = ActiveAfterRelease
    /\ UNCHANGED <<armed, caller>>

\* probeOne: nothing is started once the pool closes or the lease is short
ProbeOne(l, s) ==
    LET r == run[l][s] IN
    /\ r.holding > 0
    /\ \/ /\ ~stopped /\ r.lease
          /\ Continue(l, s, [r EXCEPT !.holding = @ - 1, !.probing = @ + 1])
          /\ UNCHANGED <<queue, slots>>
       \/ /\ stopped \/ ~r.lease
          /\ Release(l, s, [r EXCEPT !.holding = @ - 1])
    /\ UNCHANGED <<keys, polls, stopped, draining>>

Workers(r) == r.waiting + r.holding + r.probing

\* A probe answered or hit its deadline: its slot goes to the next waiter, its
\* check is recorded, and the worker takes its next target, if any, to the gate.
ProbeEnds(l, s) ==
    LET r == [run[l][s] EXCEPT !.probing = @ - 1, !.checks = 1] IN
    /\ run[l][s].probing > 0
    /\ IF r.left = 0 THEN Release(l, s, r)
       ELSE IF queue = <<>>
       THEN /\ Continue(l, s, [r EXCEPT !.left = @ - 1, !.holding = @ + 1])
            /\ UNCHANGED <<queue, slots>>
       ELSE /\ run' = HandedOn([run EXCEPT ![l][s] = [r EXCEPT !.left = @ - 1, !.waiting = @ + 1]])
            /\ queue' = Append(Tail(queue), <<l, s>>)
            /\ UNCHANGED <<armed, caller, slots>>
    /\ UNCHANGED <<keys, polls, stopped, draining>>

\* All workers are done.  A pass cut short by shutdown, or without a result,
\* is not reported; otherwise the report is pushed, and what becomes of it
\* does not matter to the run.
ProbesDone(l, s) ==
    LET r == run[l][s] IN
    /\ r.phase = "probe" /\ Workers(r) = 0
    /\ IF stopped \/ r.checks = 0 THEN Settle(l, s, TRUE)
       ELSE Continue(l, s, [r EXCEPT !.phase = "report", !.left = 0, !.lease = FALSE, !.checks = 0])
    /\ UNCHANGED <<keys, polls, stopped, draining, queue, slots>>

ReportEnds(l, s) ==
    /\ run[l][s].phase = "report"
    /\ Settle(l, s, TRUE)
    /\ UNCHANGED <<keys, polls, stopped, draining, queue, slots>>

-----------------------------------------------------------------------------
(* The rest of the process.                                                 *)
\* credential administration changes the key set (module KeyAdmin)
EditKeys ==
    /\ keys < MaxKeyEdits
    /\ keys' = keys + 1
    /\ UNCHANGED <<run, armed, polls, stopped, draining, caller, queue, slots>>

\* drain: a repeated signal joins the drain under way
Drain ==
    /\ ~draining
    /\ draining' = TRUE
    /\ UNCHANGED <<keys, run, armed, polls, stopped, caller, queue, slots>>

\* server.close after the drain delay: onClose sets `closing`, stops every lane
Close ==
    /\ draining /\ ~stopped
    /\ stopped' = TRUE
    /\ armed' = [l \in Lanes |-> FALSE]
    /\ UNCHANGED <<keys, run, polls, draining, caller, queue, slots>>

SyncNext == UNCHANGED served /\ (
    \/ \E l \in served : Poll(l)
    \/ \E c \in Callers, l \in Lanes : SyncNow(c, l) \/ SyncUnavailable(c, l)
    \/ \E l \in served, s \in Slots :
          \/ RetentionChecked(l, s)
          \/ \E a \in {"array", "data", "models", "other", "final", "retryable"} : FetchEnds(l, s, a)
          \/ PushManifest(l, s)
          \/ PushFails(l, s)
          \/ \E n \in TargetCounts : PushAccepted(l, s, n)
          \/ LeaseRunsOut(l, s)
          \/ ProbeOne(l, s)
          \/ ProbeEnds(l, s)
          \/ ProbesDone(l, s)
          \/ ReportEnds(l, s)
    \/ EditKeys
    \/ Drain
    \/ Close)

-----------------------------------------------------------------------------
(* Properties.                                                              *)
\* A caller of Venice's on-demand sync that is told it succeeded got a push
\* whose key manifest was read at or after its call (syncNow, sync.ts:209-215):
\* an operator who revoked a key and synced is never told control has the new
\* manifest on the strength of one read before the revocation.
SyncReadsAfterCall ==
    \A c \in Callers :
        caller[c].state = "ok" /\ caller[c].lane = "venice" => caller[c].saw >= caller[c].at

\* The gate's count is the number of slots really held, over all lanes and
\* runs, never above the limit; and nobody waits while a slot is free
\* (createGate, roles.ts:317-333).
ProbeSlotsAreCounted ==
    LET HeldBy(l, s) == run[l][s].holding + run[l][s].probing
        held == {h \in Lanes \X Slots \X (1..(GateLimit + MaxTargets)) : h[3] <= HeldBy(h[1], h[2])}
    IN /\ slots = Cardinality(held)
       /\ slots <= GateLimit
       /\ queue # <<>> => slots = GateLimit

\* The file header of sync.ts: "Only ONE sync runs at a time".
OneSyncAtATime == \A l \in Lanes : \E s \in Slots : run[l][s].phase = "idle"

\* Both: the answer of a sync is about the catalog, and its probes are bounded.
SyncIsSound == SyncReadsAfterCall /\ ProbeSlotsAreCounted
=============================================================================

# Verification of the confidential content plane

TLA+ models of the program's own core logic, model-checked with TLC on small
instances and, where it matters most, proved with TLAPS for every instance.
Paths below are relative to the repository; line numbers are in
`PROJECT.json`, which maps every definition to the code it translates.

## The system

A **relay** (`src/routes`) accepts one inference request per ticket, asks the
**control plane** (outside this repository; its ledger, `src/metering`, its
ticket store, `src/inference/tickets.ts`, and the functions it plans routes with
are inside) to authorize it, and dispatches it to a **credential worker**
(`src/routes/internal/worker.ts`), the only role that holds provider keys. The
worker raises a *provider-attempt fence* on the ledger before it goes upstream.
The relay raises a *delivery fence* before the first byte of a stream, and
finalizes the hold with exactly one of settle, capture or abort. A sweeper
finalizes holds nobody finalized. Around this: an ingress that admits requests,
a broker that speaks the OpenAI protocol, routing that picks model and provider,
catalogs that say what may be picked, and attestation, by which clients and
workers check what they talk to.

| Component | State | Operations | What makes it hard | What makes it correct |
|---|---|---|---|---|
| Ledger `metering/billing.ts` | balances, trial, pool and daily counters, reservation rows, usage events | credit, reserve, fence, deliver, settle, capture, abort, reconcile, sweep | concurrent transactions; UTC midnight between hold and settlement; poison rows; lock order | money is conserved, caps hold, holds return to the day they came from, stale holds end, no deadlock |
| Daily budget `rate-limit/plans.ts` | per-account per-day counters | reserve, reconcile | committed before the reservation it is for | no stranded hold |
| Request handlers `routes/chat.ts`, `image.ts`, `speech.ts`, `embeddings.ts`, `opaqueE2ee.ts` | the handler's position, the SSE stream, the client's socket | authorize, fallback, deliver, finalize, compensate | RPCs that time out and arrive later, retries, a client that vanishes, a process that dies | delivered output is paid for, undelivered work is charged only if fenced, completion is durable |
| Stream relay `inference/backpressure.ts`, `workerClient.ts`, `providers/sse.ts` | provider stream, sidebands, socket and its listeners | read, write, wait, end | an event between a failed write and its listener; truncation that looks like an end | no write waits for ever; `[DONE]` means complete |
| Circuit breakers `providers/circuitBreaker.ts`, guards in `providers/venice.ts` | breaker state, generation, burst window, LRU registry | acquire, success, failure, neutral | results that arrive after the outage they belong to; two breakers per call; eviction with permits out | one probe, no lost probe, recovery only by a probe |
| Tickets `inference/tickets.ts` | Valkey hash per ticket, redemption state per ticket | issue, redeem, consume, publish | racing and replayed redemptions, repeated consumption, two TTLs | one binding and one redemption state per ticket, in time |
| Rate limiter `rate-limit/limiter.ts` | Valkey buckets, lease sets, request associations, counters | admit, lease, release, count | callers' timestamps out of order, one TTL for many leases, two commands for one fact | no window above burst and refill; no key above its limit; no count without a window |
| Ingress `relay/ingress.ts` | two namespaces of windows and active counts, entries | admit, redeem, hold, release | a request that closes before its lease is granted; eviction | counts are the requests in flight |
| Broker `compat/broker.ts` | candidate models of a request | resolve, mint, forward, fall back | a failure that may follow output, a hold whose release is lost | a client pays for one model |
| Key sets `providers/veniceKeys.ts`, `veniceKeyStore.ts`; credential admin `routes/internal/credentialAdmin.ts`, `credentials/consumedCapabilities.ts` | overlay file, capability log, effective keys | add, remove, rotate, reload, consume | crash between the log and the operation, a lost file | one capability, one use; a removed key stays out |
| Worker `routes/internal/worker.ts`, `providers/transport.ts`, `providers/tinfoil.ts` | route discovery, verified transports | fence, discover, verify, send | what was checked changes before it is used | a credential goes to its own provider, fenced; current evidence |
| Provider routing `providers/routing` | health of routes | normalise, merge, plan | stages that may undo each other; health changes between two plans | a plan within policy, no silent downgrade |
| Automatic routing `routing` | classifier queue, cached catalog | classify, load, select, match | timeouts and aborts of queued work, a shared load | the queue is served, selection misses nothing |
| Normalizers `providers/catalog/…Normalize.ts`, `nearRelay.ts`, `calculateCostUsd` | none; the routes of the last listing | normalize, enable, shape, price | a listing that drifts from its review | a class the live entry backs; a bill that covers the charge |
| Catalog `providers/catalog`, `providers/registry.ts` | rows, sync runs, probe slots | sync, join, enable, age, query | joins of a run that read too early, three filters that must agree | a sync reports what it was asked about; only eligible rows are served |
| Provider attestation `providers/attestation/authority` | cache of upstream answers | ask, refresh, serve stale | joined, stale and failed loads | what is served was published within the bound |
| Release collateral `releaseCollateral` | slots, line, admitted values, allowance | ask, queue, admit, answer | retries, cut-offs, hand-over of slots | upstream calls are paid for by the allowance |
| Gateway attestation `gateway`, `routes/gatewayAttestation.ts` | memoised identity, observed certificates | attest, renew, redeploy, verify | an untrusted carrier, concurrent renewals | accepted means measured; intact means accepted |
| Configuration `config.ts`, roles | one environment | edit, boot | rules spread over role blocks | a role boots with its own authority only |
| Parsing, schemas, receipts, logging, health | none that changes | – | – | not modelled (see below) |

## Modules

| Module | Models |
|---|---|
| `PrepaidRequest` | the abstract specification: what a customer and an operator are promised about one request |
| `Reservation` | one ledger row: what each finalization charges, when a fence is granted. Pure operators, shared by the next two |
| `Inference` | one request end to end: relay handler, workers, control handlers, network, client, crash, sweeper; a refinement of `PrepaidRequest` |
| `Billing` | the ledger's counters for several requests, accounts and days |
| `BillingLocks` | the row locks its transactions take, one per step |
| `RelayStream` | one stream from provider to socket |
| `Ingress`, `CompatBroker` | the public edge and the OpenAI-compatible client's broker |
| `ValkeyClock`; `Tickets`, `TokenBuckets`, `ConcurrencyLeases`, `ProtectionCounters` | the clock and callers' timestamps, and the Valkey scripts that run under them |
| `CircuitBreaker`; `VeniceCircuits` | one breaker as functions of its record; network breaker, scoped registry and the calls that hold permits of both |
| `KeyAdmin` | key sets, capabilities and their log, across restarts |
| `ProviderWorker`, `TinfoilTransport` | which call gets which credential to which host; one verified transport and its requests |
| `ProviderIdentity`; `CatalogSync`, `Catalog` | who a provider is to a customer; synchronisation, and what of the rows is served |
| `ProviderListings` | from a provider's published listing to its routes, and from a relayed request to its bill |
| `RoutingPlan`; `Glob`, `AutoRouting` | a provider plan; patterns, classification and model selection |
| `AuthorityCache`, `Collateral` | the fetch layer, and the release-collateral client and role |
| `GatewayVerify`; `Gateway` | the verifier as functions of a document; service, observers, carrier and clients |
| `BootConfig` | which environments a role boots with |
| `InferenceProofs`, `RefinementProofs`, `BillingProofs`, `VeniceCircuitsProofs`, `ValkeyProofs`, `EdgeProofs`, `RoutingProofs` | the theorems about the modules above; the last three cover the parts their `MC` module runs |
| `MC…` | constants for TLC; `MCLedger`, `MCValkey`, `MCEdge` and `MCRouting` put several parts in one run |

### Inference and PrepaidRequest

`pc` is the `await` at which the handler is suspended; everything between two
awaits is one action. `net` holds control requests that were sent and not yet
handled. `Call` is `HttpControlClient.post`: the sender waits in `awaiting`, and
may give up at any time (the 5 s timer, a reset connection, a lost answer) while
the request stays in `net` and may still be handled: every action of the handler
that gives up is enabled without an answer. `Handle…` are the control plane's
handlers; their effect on the row is the code in `billing.ts`, their admission
checks are external and nondeterministic. `wk[k]` is attempt k at its worker.
Prices and usage are constants per attempt, so that a settle priced at the wrong
route is visible. `attested` is a history variable: some abort attested a
provider rejection at a moment the client was connected.

The operations differ in who settles, what is retried and what a failure
compensates with; the parameter `Ops` selects them.

`PrepaidRequest` knows no relay, worker, message or sweeper: a hold is placed and
ends once, by a charge behind a fence or by a release that owes nothing. The
mapping (`Prepaid` at the end of `Inference`) takes the row's status, charge and
fences as they are, the attempts that are at their provider as `upstream`, and the
handler's `started` and `done` as what the caller was told; a media response is not
a completion, since those handlers answer while the capture is pending. So a
lost answer, a late fence or a retry is invisible, and the sweep is what makes a
hold end.

### Billing and BillingLocks

An action of `Billing` is one database transaction; the code takes the row locks
before it reads what it decides on. Amounts are small naturals: the code keeps six
decimal places in `numeric(12,6)`, so micro-USD are exact integers. `today` advances
nondeterministically and `hold` is the window between the daily hold and the
reservation. `vanished` are models that left the catalog: a usage event for them
violates its foreign key and the transaction rolls back.

`BillingLocks` is what makes those actions atomic: each transaction kind is the
sequence of row locks (table, row, mode) its statements take, and a transaction
waits for a conflicting holder. An account without a balance row is one whose
`SELECT … FOR UPDATE` locks nothing. The table definitions are not in this repository,
so the `KEY SHARE` locks that their foreign keys would take on the rows an `INSERT`
refers to are left out: `NoDeadlock` is about the locks the statements name.

### RelayStream

The k-th data event of the provider is the number k. A write that the socket does
not take leads to `waiting` with the installed `listening`. A socket dies (`sock.dead`)
one turn before it emits its close event, and the abort signal may have fired
already, so a write can meet a socket whose events are over: the case
`writeWithBackpressure` re-checks for after it installed its listeners. The worker's terminal
sidebands carry usage and the end; a connection may break between any two of them.

### Ingress, CompatBroker

`Ingress` keeps the guard's maps as functions of bucket keys and the hook's position
per request; its client may abort at every position. `CompatBroker` has
the broker's candidate list, what it told its client, and per candidate the ticket
and the hold at control, which `Inference` reduced to "held, charged or released"
ends later, also after the broker stopped waiting. The calls between relay and
control whose loss the broker cannot see are history: `abortLost` are the candidates
whose authorization answer or finalization was lost, which leaves a hold to the
sweep, and `settleLost` those that were charged by a settle whose answer was lost, so
that the relay reports an error for them (findings 2 and 3).

### KeyAdmin, ProviderWorker, TinfoilTransport, BootConfig

`KeyAdmin` has two files (overlay and capability log) that survive a crash and a
process that does not; only the live check of a new secret is an await.
`ProviderWorker` follows a call through role, service token, discovery, fence and
transport; `dispatched` records what left with which credential, and the environment
moves discovery results and account settings under a running call. Not every keyed
call has a fence: the ticketed attestation has one, the provider-neutral evidence
call, the signature call and the probe (`ReadOnly`) carry no dispatch token.
`TinfoilTransport` models the shared promise by a load number, so that requests
that hold an old load can be told from those of the current one. In `BootConfig`
an environment is edited one variable at a time (`MaxEdits` edits from a valid
deployment) and `loadConfig` is the set of problems it collects.

### CatalogSync, Catalog

`CatalogSync` has a scheduled and an on-demand run per provider lane; a step is one
turn of the event loop. `keys` is a version, and a caller remembers the one it
called at and the one its run saw, so joining a run that had read too early is
visible. In `Catalog` a row's identity (provider, ids, type) is fixed and its other
columns change at any time, with two exceptions: the privacy class and the `routing`
column are written only by what writes them in control, an accepted sync and an
operator's enablement, which use this repository's decisions. Control's release may
hold fewer providers from Auto than the reading plane does (`controlHold`), so the
stored column and the reader's own list can disagree. A provider without a
catalog-state row is not `managed`, and no freshness bound applies to its rows. The
queries are operators on the state, evaluated in every state.

### ProviderListings

Each provider publishes a new listing at every sync (`PublishListing`), the normalizer
of that provider makes its routes, and every route remembers the entry it is `from`,
so that a property can compare what was derived with what was published. A relayed
request of NEAR is shaped (`ForwardRelayed`), reported on by an upstream
(`SettleRelayed`) and billed by `calculateCostUsd`; `ProviderCharge` and `Accepts`
are what the comments in `nearRelay.ts` say of NEAR and the developers behind it. A
fingerprint is the entry it is a hash of, less what it leaves out. Prices are
integers, so the rounding to a millionth is left out; a prompt is taken to be within
the context the route advertises. For Venice, a price published as `null` becomes
zero (`NotBelowZero`; `Number(null)` is 0), although the comment at
`normalize.ts:57` says a missing value never does: such an input or output price keeps
the route from being enabled, and a cache price would bill cached tokens at nothing.

### RoutingPlan, Glob, AutoRouting

The plan is built by the same stages as the code, each an operator from sets of
routes to sets of routes; `TriedBefore` is the order the code's sort and its explicit
list put them in, and `InOrder` the sequence that order makes of a set. A base slug in
a policy names the variants of its provider as well (`SlugsOf`). Scores are
ranks, the tie break is the code's. A behaviour chooses a policy,
workspace defaults and facts, plans without a prompt size, lets a route change its
health, and plans again. `Glob` runs the loop of `globMatches` one iteration at a time
against what a pattern denotes: `Means` says that the value can be cut into one
piece per pattern character (`Readings`), of one letter for a letter and of any
length for a star. In `AutoRouting` the
queue's entries can time out or abort while queued or under inference, and a
catalog load is shared by whoever asks meanwhile.

### AuthorityCache, Collateral, Gateway

`AuthorityCache` gives each key the history of what was published when (`published`),
and each answer the time its load began. `Collateral` counts the values that reached
an upstream (`outbound`) against the clock. In `Gateway` a document carries build,
nonce, target and key; `VerifyMixed` is a client whose carrier handed it parts of two
documents or a log that prints other payloads than were measured. Digests are the
values they commit to: the model assumes hashes collide for nobody and signatures
are made by their owner.

### VeniceCircuits

A method of a breaker runs in one turn of the event loop and is atomic. What
interleaves is the time between `acquireGuard` and the record call, and the
clock. A guard whose breaker the registry evicted is an *orphan*: the object
lives on, but only guards reach it, so its further state is unobservable.

### Tickets, TokenBuckets, ConcurrencyLeases, ProtectionCounters

A Lua script is one action. A script refused for lack of Valkey memory writes
nothing and is no step; so is a hierarchical refusal and a failed redemption.
`clock` is the fastest of the clocks involved; the caller's `Date.now()` is any
`at` up to `MaxLag` behind it when the script runs, which covers queueing, slow
networks and slots whose clock is behind. Valkey's TTLs run on `clock` from the
moment of the script. A caller whose clock ran *ahead* of the rest would trim the
leases of others early: the limiter takes client time, and the claims hold up to
that.

`TokenBuckets` counts tokens in units that make refills whole. `since`, `spent`
and `late` observe an arbitrary window. `ServiceLimits` lists every capacity,
refill and TTL in the limiter's methods, and an assumption TLC evaluates says each
of them outlives its refill, on which the bound depends. `ConcurrencyLeases` keeps
`granted` and `released` as history. A lease whose acquire script runs after the
end of its own request stays until its deadline, as in the code. In
`ProtectionCounters` the two commands of `recordAuthFailure` are two actions.

## Runs

| Run | Shows | Bounds and why they are enough |
|---|---|---|
| `inference` | all properties of `Inference` for the five operations, and that it implements `PrepaidRequest` | two attempts with different usage and price: one fallback and an exhausted plan; a hold of 4 above both prices; the state space is complete (no other bound) |
| `fence_comment`, `fallback_comment` | two comments the code does not keep (see Findings) | one operation each |
| `ledger` | conservation, key limit, daily holds, trial ceiling, pool budget | amounts of 3 and 2 against a key limit of 4, a trial of 4 and an allowance of 4: either fits, both do not; two accounts against a pool of 6; one credit of 5; costs below and above every hold; two days; two replies, so the early return of an exhausted allowance happens |
| `sweep` | recovery with one row that cannot be finalized | batch of two |
| `sweep_blocked` | recovery with a full batch of such rows **fails** | batch of two, two such rows, one good row behind them, all funded by a trial; the code's batch is 100 |
| `circuits` | thresholds, probes, late results, eviction, progress | thresholds 2 and 2 with a window shorter than the run, so that either is met alone (two failures far apart, two around a success); four calls: two that fail, a probe, and one from before the outage; a registry of one for two scopes |
| `valkey` | `TokenBuckets`, `ConcurrencyLeases`, `Tickets`, `ProtectionCounters` | scripts one tick late in a run of four. Buckets: capacities 2 and 3, TTL 2, so that keys expire and are recreated; a charge of one, of both, and of a whole bucket. Leases: three, limits 2 and 1, lifetimes 1 and 3, so that a short lease follows a long one. Tickets: two for two destinations, three calls (two that race and a replay), TTLs of two ticks. Counters: two handlers and a clearing; two costs against a budget of 3 |
| `counter_lost` | a handler that ends between its two commands leaves an immortal count (see Findings) | as above |
| `edge` | `BillingLocks`, `RelayStream`, `Ingress`, `CompatBroker`, `KeyAdmin`, `ProviderWorker`, `TinfoilTransport`, `BootConfig`, `AuthorityCache`, `Collateral` | three transactions of two accounts, one without a balance row: the shortest circles have two. Streams of two data events. Three arrivals from two addresses of one subnet, limits 1 and 2, room for five entries, so that eviction meets held leases. A body with a pattern, a repeated and a third model. Three capabilities (rotate, revoke, one of another deployment) used twice each with a log of two. One worker call among three providers and a pool, discovery and retention changing under it. Two requests on one transport, one of them an evidence request, three verifications, two key rotations. Thirteen roles with two edits each. One asker at a time of two keys, on an authority with one endpoint and on one with two; a joined load is one that a refresh in the background started. Three lookups for one open call and one slot, an allowance of one |
| `routing` | `CatalogSync`, `Catalog`, `RoutingPlan`, `AutoRouting`, `Glob`, `Gateway`, `ProviderListings` | one lane that checks retention and one that does not, two callers, a retry, a key edit between a run's read and a caller's join. Three rows of two providers, one of them under a member's new namespace and one under its old; every provider managed and evidence enforced, or neither; control on the older hold list at first; two listed classes; two writes, and a clock past both ages. Five routes in four privacy classes with ties, one of a provider variant; every form of policy against five workspaces; one health change between two plans. Three requests for a queue of two. All patterns and texts of up to four characters. Two clients, two origins, a reviewed build and a stray one that shows the reviewed manifest, one renewal and one redeployment. Per provider its reviewed or approved entries and each drift of them by one field (owner, class flag, limits, price tiers, features, modalities), two entries under one id at NEAR; prompts on both sides of each price threshold |
| `broker_comment` | a candidate that was charged is passed over for the next one (see Findings) | as in `edge`, the broker alone |

`ledger`, `valkey`, `edge` and `routing` hold several parts. In `MCLedger` a
behaviour keeps to a scenario (the action constraint `KeepsToScenario`) that
restricts only what the environment does: which requests arrive, how they are
funded, whether midnight passes, output is streamed, a model vanishes, and which
holds grow stale. What the ledger does with a request is never cut off. In the other
three the parts share no state, so a behaviour runs one of them (`part`) while the
others stay in one initial state; for every part all its initial states are tried.
Leases, transactions, arrivals, lookups, automatic requests, callers and clients are
symmetric there; in `MCVeniceCircuits` calls and scopes are, and instead of a
symmetry set (which would not be sound for `HalfOpenIsLeft`) the run starts from one
assignment of scopes for each way to split the calls. Where one actor decides (a
plan's author, a boot, a pattern), the bound is on the inputs and they are named in
the MC module.

A few invariants are conjunctions of named parts (`OutcomeIsJustified`,
`OutputIsBacked`, `LimitsHold`, `ProbesAreSole`, `SpentOnce`,
`AuthorisationsAreKept`, `SyncIsSound`, `PlanKeepsPolicy`, `CountsAreTrue`,
`CatalogServesSoundly`, `AcceptanceIsExact`, `ListingIsSound`): the parts are about
one hazard, and each has a comment of its own.

Deadlock checking is off throughout: requests, calls and days are finite in an
instance, and a run that has used them up is meant to stop. Transactions that wait
for each other are found by `NoDeadlock` instead, which looks at every subset.

**Fairness.** Only what runs on a timer or ends by a deadline is fair. The
sweeper (`Inference`, `Billing`) is a timer of the control plane that no request
can hold up; with it `Inference` satisfies the fairness of `PrepaidRequest`, whose
only fair action is the end of a hold. In `VeniceCircuits` every call ends:
transport deadlines, the runtime's body timeout and the caller's abort signal each
reject what the guard awaits, and `monitorStream` settles in a `finally`. No message
is ever assumed to be delivered, no handler to make progress, no client to stay. The
parts of `edge` and `routing` claim safety only: where the code promises progress
(a waiting write, a queued classification), the invariant says that whatever will
wake it is still there.

## Findings

1. `fence_comment`: when `markDeliveryStarted` fails, the handler aborts with
   `providerRejected: !disconnected`, which releases a fenced and accepted attempt
   at zero. The comment beside the call says the provider-attempt fence "still
   governs conservative capture".
2. `fallback_comment`: the settle RPC of a JSON completion is inside the `try`
   whose `catch` classifies provider failures. A reset connection to the control
   plane counts as one, and a second provider attempt is authorized and dispatched
   although the first succeeded. The hold is charged once; the provider works twice.
3. `broker_comment`: the same lost answer, when an earlier attempt had failed before
   it and no attempt is left, ends in `provider_fallback_exhausted`. The abort finds
   the row charged and does nothing, the broker counts the code among those after
   which "the relay already released this model's reservation", and the client pays
   for the next candidate as well. (On the streamed path the settle comes after the
   first byte, where neither fallback is possible.)
4. `sweep_blocked`: un-finalizable rows are passed over within a batch but lead
   every later batch; as many of them as `LIMIT` admits block recovery for good.
5. `counter_lost`: `recordAuthFailure` sets the window in a second command after
   `INCR`, and only for the first failure. If it is not sent, the "short-lived"
   count lives until a sign-in clears it. The count feeds the audit trail only.

Other places where a comment says more than the code does are stated in the modules
as formulas that no run checks: `RoutingPlan.RequestOnlyConstrains` (`policy.ts:314`
says a request can only constrain; its `sort` or its floor replaces the workspace's
privacy confinement), `CatalogSync.OneSyncAtATime` (`sync.ts:4`; the scheduled and
the on-demand run of a lane may overlap),
`Catalog.StaleKeepsServing` (`freshness.ts:2` says that while stale "the
last-known-good catalog keeps serving"; `enablement.ts:160` makes every row of a
managed provider ineligible at the first of the two ages),
`BootConfig.ForeignKeysRefused` (`config.ts:2190` against `2422`: the older
providers' keys pass in the confidential-compute workers).

## Proofs

Every safety invariant and every action property of the passing runs is a theorem,
for every value of the constants that satisfies the assumptions named in the modules.
The theorems are about the parts' specifications; for `edge` and `routing`, whose
`MC` modules put parts beside each other, a last section proves that a behaviour
of the whole is one of every part (`EdgeRunsParts`, `RoutingRunsParts`) and hence
keeps all their invariants at once (`EdgeIsSafe`, `RoutingIsSafe`, ...).

**`InferenceProofs`**, for every set of operations, plan length, hold, usage
and price (assumptions: all are positive, `Ops` is a set of known operations):

* `TypeCorrect`: `TypeOK` is invariant;
* `OutcomesAreJustified` (from `ChargeFollowsFence` and
  `ReleaseFollowsAttestation`) and `OutputsAreBacked` (from `StreamFollowsFence` and
  `CompletionIsDurable`): both invariants the run checks, part by part;
* `TerminalIsFrozen`: no step changes a terminal row;
* `DeliveryIsPaid`: output that reached the caller is charged for, at its measured
  cost on the serving route or at the ceiling, whichever finalization comes first.

None of the invariants is inductive alone. `IInv` adds: what a row of each
status looks like (`RowInv`); a worker past its fence implies a fenced row
(`FenceInv`); a settle or capture on its way was sent by a relay that saw its
worker answer, and an attesting abort on its way has been recorded (`MessageInv`);
where the handler may be without a dispatched attempt (`RelayInv`); and what an
answer on its way back says of the row (`ReplyInv`): an `ok` for a settle,
capture or abort was produced by a finalization, after which the row cannot
change. The last is why `[DONE]` is durable although the answer may be old.
`DeliveryIsPaid` needs more (`PaidInv`): the row's route is the attempt the
handler stands at or, while the handler asks for the next one, that or the next
(`RouteInv`); a settle of a measured operation on its way is for the attempt the row
points to, from which the relay no longer moves on (`SettleInv`); the charge of a
finalized row is zero, the ceiling or, for a measured operation, the cost of the
handler's attempt (`ChargeInv`); and a caller who has output has it from the
handler's fenced attempt, of which nothing was attested (`CallerInv`).

**`RefinementProofs`** proves that `Inference` implements the safety part of
`PrepaidRequest` for every value of the constants (`RequestIsPrepaid`): the initial
state maps to an initial state, and every step maps to one step of the contract or
to none. The relay's 35 actions do one of four things to what the contract speaks
of (`RelayEffect`): record an attestation, start an attempt over, put output at the
caller, or end. A finalization charges a fenced hold or releases one that owes
nothing (`FinalizeRefines`), which rests on `IInv`; that output and completion come
late enough rests on the two theorems above, taken in the next state.

**`BillingProofs`** proves of the ledger, for any finite requests, accounts, keys,
days and amounts, that every counter is the sum of what the rows contribute to it
(`LedgerIsSound`: `LedgerInv`, one conjunct per counter: wallet, trial, pool, daily,
key). `WalletBalances`, `DailyHoldsAreReturned` and `LimitsHold` follow. The
sums are `SumFunction` of the community modules, which folds in an arbitrary order;
`SumIsCount` characterises such a sum once as the number of points under its graph,
by an induction over a *set* of numbers, so that the library's well-founded minimum
(`NatLessThanWellFounded`, `WFMin`) carries it and no induction schema is needed.
`SumChanges` then says what a sum does when one row changes, and each transaction has
a lemma per counter.

**`VeniceCircuitsProofs`** proves for any number of calls and scopes, any registry
size and any thresholds that a half-open breaker has exactly one live permit and
an open one none (`OneProbeDecides`), and that an outage ends only by
a probe (`OutageEndsByProbe`). The inductive invariant relates every permit in
flight to the generation of its breaker: none is of a later generation, and a
live probe permit implies a half-open breaker.

**`ValkeyProofs`**, one section per script module:

* leases: a key outlives every lease it holds, an association outlives every lease
  in use of its request and names no other's (`LeasesInv`); so `InUseIsCounted`,
  `WithinLimit` and `ReleasedIsFree` hold for any keys, limits, requests, lifetimes;
* tickets: an issued ticket was returned to nobody, a redeemed one ends within both
  TTLs, a published one is gone (`TicketsInv`); so `SpentOnce`, `PublishedInTime`;
* counters: a failure count has its window or a handler that is about to set it; the
  free tokens of a day are counted under the key of that day, scripts that run after
  midnight included;
* buckets: `AdmissionBound` for any hierarchy, costs, rates and lateness, from the
  assumption that every TTL outlives its refill. The bound is not inductive;
  *spent plus what could be spent now* within the bound is. A late script raises
  both sides by the refill of its lateness, a tick by one refill, and an expiring
  key is a full one by the assumption. `RetryIsAdmitted`: the wait a refusal
  names is long enough for the bucket that needs longest (`RetryAfterCovers`).

**`EdgeProofs`** has one inductive invariant per part of `edge`:

* stream: what has been written is what the worker read, in order, and an end marker
  stands behind all of it (`StreamInv`); a waiting write listens (`WriterInv`);
* locks: every plan takes its locks in the order of `Rank` (`PlansAscend`), so the
  transaction of a waiting set that holds the largest rank waits for nobody in it;
* broker: a candidate that was passed over was idle or ended with an error another
  model may escape, and holds nothing and was charged nothing unless its finalization
  or the answer to its settle was lost;
* transport: a kept promise is pending or settled and expires its TTL after it
  settled; a request past verification holds a load that succeeded and sends with
  that load's key, taken while younger than the TTL (`TlsInv`);
* credentials: a capability in use or applied is spent (in the log, or expired) and
  applied at most once; what was revoked is not in effect while the files are not
  lost (`AdminInv`);
* worker: a call in production past its checks goes to the provider it names, which
  the worker serves, fenced where it is metered or a ticketed attestation and with zero
  retention and the pinned host established (`TakenInv`);
* ingress and collateral: counts are the cardinality of their holders (`CountInv`,
  `SlotInv`); the values paid for (outbound, asked for by a running lookup, or
  remembered) are at most what the allowance has spent (`AllowanceInv`);
* boot: `loadConfig`'s problems are empty only for confined environments
  (`AcceptedIsConfined`);
* authority cache: every entry and every load dates from when its value was
  published (`CacheInv`).

**`RoutingProofs`** does so for `routing`:

* classifier: a non-empty queue has an inference running, its entries belong to
  requests that were made, and nobody waits on a settled promise (`QueueInv`);
* selection: the ranking is a strict total order (`RankingIsAnOrder`), hence has a
  first on every finite set (`FirstExists`), and relaxing the floors keeps some
  candidate whenever one is feasible;
* synchronisation: in `SyncInv` the slots taken are the workers of all runs that hold
  one or probe, counted as points as in `BillingProofs`; all are taken while a worker
  waits; and a run's waiting workers are its entries in the queue;
* catalog: a row the query returns and in which no filter finds a fault is sound
  (`FaultlessIsSound`), and what is stored keeps it so (`CatalogIInv`); a row with the
  `routing` column set is text and of a class Auto may pick, whatever hold list
  wrote the column, and the reader's own list does the rest;
* listings: what is offered is the normalization of a listing that was published
  (`OfferInv`); a relayed request has a callable row of an admitted entry, a body of
  the row's shape, and a bill equal to its charge (`RelayedInv`);
* globs: `GlobInv` says that the value has a reading exactly when the rest of it has
  one from the scan's position or from a later one of the last star. That an earlier
  star never needs a second try (`BacktrackProgresses`) is the argument that makes
  the greedy loop exact, for patterns and values of every length;
* plans: `PlanPromise` is kept by whatever `BuildProviderRoutingPlan` returns. The
  comparison keys end in the stable id, so `TriedBefore` is a strict total order
  (`TriedInOrder`) and `InOrder` lists a set once each, the strongest class first
  (`InOrderEnumerates`, `StrongestIsFirst`); the merged policy is within both of its
  sources (`MergedIsWithin`);
* gateway: `GatewayIInv` says that cached certificates are current unless renewed
  since, that a document was issued for one client's request, and of which two
  documents a verdict speaks; so what an intact carrier delivers verifies, and what
  verifies was measured.

Attempting the proofs changed the models where they were wrong or could not be
reasoned about: in `BillingLocks.FinalizePlan` the locks after an unbracketed `CASE`
belonged to its last arm, so that only one funding took the daily-budget lock;
`Collateral.Admitted` is now the set of recency orders cut to the limit; registers of `GatewayVerify` are folded by `FlattenSeq`, and a reviewed certificate
is asked for only where the pinned policy asks for TLS in the TEE; `ClassIsEarned`
claimed that a native id is one route, which `nearNormalize.ts` does not see to for a
confidential id listed twice (TLC found no counterexample because no listing had
one; it has now); plans are sets under an order instead of sorted sequences, and
`Means` is declarative instead of recursive.

The assumptions on constants are what the code and its configuration schema give:
amounts, counts and times are naturals; sets of requests, rows and lookups are
finite; provider names are the known ones; reviewed listings are well-formed and
disjoint from relayed ones. TLC evaluates all of them in the runs.

Only model-checked: the progress properties (`HoldsAreFinalized`,
`StaleHoldsAreFinalized`, `HalfOpenIsLeft`, the fairness of `PrepaidRequest`), since
liveness under fairness and `ENABLED` are outside the prover, and what the runs say
about the code where it contradicts a comment (see Findings).

## Not modelled

* **Rejection reporting, content receipts, logging, health, HTTP base**: they observe
  or sign, and nothing the modelled components read depends on them.
* **Ticket request schemas, RPC schemas, adapters' request and response shaping**
  (NEAR's relayed requests excepted): functions of one input without state. What a
  component decides from their result is a parameter of its model.
* **Cryptography of attestation** (quotes, certificate chains, signatures, measured
  digests of the providers' evidence): verdicts. `GatewayVerify` keeps the order and
  meaning of the gateway verifier's checks, with digests as injective constructors.
* **The classifier's inference and the ranking arithmetic**: votes and ranks.
* **Reservations of zero cost** (`billing.ts:254` allows them): `Inference` takes the
  hold, the usage and the rates above zero, since with a free model nothing tells a
  charge from a release.
* **Venice's published limits** (`rate-limit/limiter.ts`), the kill switches, and
  `inlineTicket.ts`: caches or writes of a single step.
* **The control plane's own handlers and its catalog apply engine** are not in this
  repository; they are modelled by what the functions of this repository decide for
  them, and nondeterministic otherwise.

## What is left

1. Action properties for what a step may never do in `edge` and `routing` (a slot
   handed on without a waiter, a class that changes between two plans of a request).
2. Abstract specifications for the ledger and for the lease store, with `Billing` and
   `ConcurrencyLeases` shown to implement them.
3. A module for the cache of Venice's published limits, and one for the probes that
   follow a catalog sync on the control side.

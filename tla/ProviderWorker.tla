--------------------------- MODULE ProviderWorker ---------------------------
(***************************************************************************)
(* A call from the relay to a credential worker and on to the provider:    *)
(* which worker it reaches (RoutedWorkerClient, HttpWorkerClient), which    *)
(* requests the worker takes (src/routes/internal/worker.ts), under which   *)
(* metadata token it asks control for the dispatch fence (workerProviders,  *)
(* roles.ts, serviceAuth.ts), what the adapter does before and after the    *)
(* fence, and whether the provider transport attaches the key (transport).  *)
(*                                                                          *)
(* Control's decision about the grant itself is the fence of module         *)
(* Inference; here it may accept any attempt whose token fits.              *)
(***************************************************************************)
EXTENDS Naturals, FiniteSets

CONSTANTS
    WorkerProviders,  \* the canonical provider names of this instance
    PoolLists,        \* the POOL_PROVIDERS lists of this instance
    Enclaves,         \* hosts of APPROVED_NEAR_ROUTES
    PinnedHost,       \* PinnedHost[m]: the approved host of model m, or NoHost
    NearModels,
    ForeignHosts,     \* other hosts a discovery answer or a base URL may name
    Calls

Near == "near-ai"
BedrockName == "aws-bedrock"
Mock == "mock"
NoHost == "no-host"
Synthetic == "mock-provider"

ASSUME WorkerAssumption ==
    /\ Enclaves \cap ForeignHosts = {}
    /\ \A list \in PoolLists : list # {} /\ list \subseteq WorkerProviders \ {BedrockName}
    /\ WorkerProviders \subseteq
         {"venice", "fireworks", "deepinfra", "phala-ai", "tinfoil", "chutes", Near, BedrockName}

-----------------------------------------------------------------------------
(* The adapters: the operations each has, what it does before the fence,    *)
(* whether its evidence request carries the key, and which of its hosts     *)
(* serves what ("alt" is Chutes' second one).                               *)
Metered == {"chat", "embeddings", "media", "opaque"}
\* Evidence for a ticket holder, and evidence anyone may ask the relay for.
Evidence == {"attestation", "tee-attestation"}
ReadOnly == {"tee-attestation", "signature", "probe"}
Operations == Metered \cup Evidence \cup ReadOnly

\* What of a request body each adapter does not forward.
Fields == {"messages", "provider", "routing", "reasoning", "venice_parameters", "prompt_cache"}
FireworksBody == {"routing", "reasoning", "venice_parameters", "prompt_cache"}
DeepInfraBody == FireworksBody
PhalaAiBody == FireworksBody \ {"reasoning"}
TinfoilBody == FireworksBody
NearBody == FireworksBody
ChutesBody == FireworksBody
BedrockBody == FireworksBody
VeniceBody == {}  \* venice_parameters are reduced to an allow-list, not dropped

Plain(ops, strips) == [ops |-> ops \cup {"chat", "probe"}, strips |-> strips, before |-> "nothing",
                       evidence |-> "keyless", alt |-> {}]
VeniceAdapter == [Plain(Evidence \cup {"embeddings", "media", "signature"}, VeniceBody) EXCEPT !.evidence = "keyed"]
FireworksAdapter == Plain({}, FireworksBody)
DeepInfraAdapter == Plain({}, DeepInfraBody)
PhalaAiAdapter == Plain({}, PhalaAiBody)
TinfoilAdapter == Plain(Evidence \cup {"embeddings"}, TinfoilBody)
NearAdapter == [Plain(Evidence \cup {"embeddings", "signature"}, NearBody) EXCEPT !.before = "discover"]
ChutesAdapter == [Plain(Evidence \cup {"embeddings", "opaque"}, ChutesBody)
                    EXCEPT !.evidence = "keyed", !.alt = Evidence \cup {"opaque"}]
BedrockAdapter == [Plain({}, BedrockBody) EXCEPT !.before = "retention"]

AdapterFor(p) ==
    CASE p = "venice" -> VeniceAdapter [] p = "fireworks" -> FireworksAdapter
      [] p = "deepinfra" -> DeepInfraAdapter [] p = "phala-ai" -> PhalaAiAdapter
      [] p = "tinfoil" -> TinfoilAdapter [] p = Near -> NearAdapter
      [] p = "chutes" -> ChutesAdapter [] p = BedrockName -> BedrockAdapter

VARIABLES
    workerCfg,  \* [env, pool, serves, profile, base, tokens]: the booted worker's configuration
    endpoints,  \* NEAR's discovery cache: a set of at most one map from models to hosts
    retention,  \* the Bedrock account's retention mode
    call,       \* call[c]: [pc, op, path, name, model, e2ee, host, fence, zdr, body]
    gone,       \* the calls whose caller went away or whose deadline passed
    dispatched  \* history of credentialed inference, evidence and signature requests

workerVars == <<workerCfg, endpoints, retention, call, gone, dispatched>>

-----------------------------------------------------------------------------
(* Boot: the origins a base URL may have, and the served providers.         *)
RealHosts(p) == IF p = "chutes" THEN {"chutes", "chutes-api"} ELSE {p}
CredentialOrigins(p, profile) == IF profile = "synthetic" THEN {Synthetic} ELSE RealHosts(p)

BaseUrlPermitted(p, profile, host) == host \in CredentialOrigins(p, profile)

\* A pool serves a list of bearer-key providers, each with its own token; any
\* other worker role serves one.  The base-URL check runs in production, and
\* Bedrock, which signs its requests, has no base URL to check.
BootAllowed(w) ==
    /\ IF w.pool THEN w.serves \in PoolLists /\ w.tokens = "own" ELSE Cardinality(w.serves) = 1
    /\ w.env = "production" =>
         \A p \in w.serves \ {BedrockName} :
           /\ BaseUrlPermitted(p, w.profile, w.base[p].api)
           /\ BaseUrlPermitted(p, w.profile, w.base[p].alt)

Bases ==
    {[p \in WorkerProviders |-> [api |-> p, alt |-> IF p = "chutes" THEN "chutes-api" ELSE p]]}
      \cup {[p \in WorkerProviders |-> [api |-> h, alt |-> h]] : h \in {Synthetic} \cup ForeignHosts}

Configurations ==
    {w \in [env : {"production", "test"}, pool : BOOLEAN, profile : {"production", "synthetic"},
            serves : PoolLists \cup {{p} : p \in WorkerProviders}, tokens : {"own", "shared"}, base : Bases] :
       BootAllowed(w)}

NoCall == [pc |-> "idle", op |-> "chat", path |-> Mock, name |-> Mock, model |-> "none",
           e2ee |-> FALSE, host |-> NoHost, fence |-> FALSE, zdr |-> FALSE, body |-> Fields]

WorkerInit ==
    /\ workerCfg \in Configurations
    /\ endpoints = {}
    /\ retention = "none"
    /\ call = [c \in Calls |-> NoCall]
    /\ gone = {}
    /\ dispatched = {}

outside == <<workerCfg, endpoints, retention, gone>>

-----------------------------------------------------------------------------
(* The relay's side.                                                        *)
\* forProvider: one worker per provider; the mock provider of the split test
\* harness shares another's (Venice's).
PathsFor(n) == IF n = Mock THEN WorkerProviders ELSE {n}

\* The relay removes its own fields and resolves reasoning before it sends.
ProviderBody == Fields \ {"provider", "routing", "reasoning"}

RelayCalls(c, n, p, op, m, e) ==
    /\ call[c].pc = "idle" /\ p \in PathsFor(n)
    /\ op \in ReadOnly => n = p
    /\ call' = [call EXCEPT ![c] = [NoCall EXCEPT !.pc = "sent", !.op = op, !.path = p, !.name = n,
                                                  !.model = m, !.e2ee = e /\ op = "chat", !.body = ProviderBody]]
    /\ UNCHANGED <<outside, dispatched>>

\* Another caller with the worker token names path and provider as it likes.
TokenHolderCalls(c, n, p, op, m) ==
    /\ call[c].pc = "idle" /\ op # "probe"
    /\ call' = [call EXCEPT ![c] = [NoCall EXCEPT !.pc = "sent", !.op = op, !.path = p,
                                                  !.name = n, !.model = m]]
    /\ UNCHANGED <<outside, dispatched>>

\* The headers deadline, or the client's disconnect: both abort the signal.
Aborts(c) ==
    /\ call[c].pc \notin {"idle", "over"}
    /\ gone' = gone \cup {c}
    /\ UNCHANGED <<workerCfg, endpoints, retention, call, dispatched>>

-----------------------------------------------------------------------------
(* The worker's side.                                                       *)
AssertWorkerProvider(p, n) == workerCfg.env = "production" => n = p

\* Where a call goes once the worker has taken it, and once its adapter is
\* ready: the attestation of a ticket is fenced before the adapter is asked at
\* all, and what is read only is not fenced.
AfterAccept(k) == IF k.op = "attestation" THEN "fencing" ELSE "preparing"
AfterPrepare(k) == IF k.op \in Metered THEN "fencing" ELSE "sending"

\* A route exists for every served provider and only for those; the mock's
\* adapter has no key and sends nothing here.
AcceptCall(c) ==
    LET k == call[c]
        taken == /\ k.path \in workerCfg.serves /\ AssertWorkerProvider(k.path, k.name)
                 /\ k.name # Mock /\ k.op \in AdapterFor(k.name).ops
    IN  /\ k.pc = "sent"
        /\ call' = [call EXCEPT ![c].pc = IF taken THEN AfterAccept(k) ELSE "over"]
        /\ UNCHANGED <<outside, dispatched>>

\* directDomain: a stale or missing map is fetched (a failed fetch leaves an
\* empty one) and kept.
DiscoverEndpoints(map) ==
    /\ endpoints = {}
    /\ \E c \in Calls : call[c].pc = "preparing" /\ call[c].name = Near
    /\ endpoints' = {map}
    /\ UNCHANGED <<workerCfg, retention, call, gone, dispatched>>

EndpointsExpire ==
    /\ endpoints # {}
    /\ endpoints' = {}
    /\ UNCHANGED <<workerCfg, retention, call, gone, dispatched>>

\* The host of a NEAR call: the discovered one, for E2EE and evidence only
\* when it is the approved one; else the gateway.
NearHost(k, map) ==
    LET found == map[k.model]
    IN  IF k.e2ee \/ k.op \in Evidence
        THEN IF found # NoHost /\ found = PinnedHost[k.model] THEN found ELSE NoHost
        ELSE IF found # NoHost THEN found ELSE workerCfg.base[Near].api

HostsFor(k) ==
    IF AdapterFor(k.name).before = "discover" THEN {NearHost(k, map) : map \in endpoints}
    ELSE {IF k.op \in AdapterFor(k.name).alt THEN workerCfg.base[k.name].alt ELSE workerCfg.base[k.name].api}

\* ensurePrivateRoute: Bedrock's account and model are asked on every call.
RetentionConfirmed(k) == AdapterFor(k.name).before = "retention" => retention = "none"

PrepareCall(c) ==
    LET k == call[c]
    IN  /\ k.pc = "preparing"
        /\ \E h \in HostsFor(k) :
             call' = [call EXCEPT ![c].host = h, ![c].zdr = RetentionConfirmed(k),
                                  ![c].pc = IF h = NoHost \/ c \in gone \/ ~RetentionConfirmed(k)
                                            THEN "over" ELSE AfterPrepare(k)]
        /\ UNCHANGED <<outside, dispatched>>

RetentionChanges ==
    /\ BedrockName \in workerCfg.serves
    /\ retention' = IF retention = "none" THEN "default" ELSE "none"
    /\ UNCHANGED <<workerCfg, endpoints, call, gone, dispatched>>

\* workerMetadataTokenFor and acknowledgerFor: the token an attempt for n is
\* reported under.  The pool has neither a shared token nor a default lane.
MetadataTokens(n) ==
    IF workerCfg.pool THEN {n} \cap workerCfg.serves
    ELSE IF workerCfg.tokens = "shared" THEN {"shared"} ELSE workerCfg.serves

\* resolveMetadataRequestScope: control refuses another provider's token.
ScopeAccepts(token, n) == token = "shared" \/ token = n

PassFence(c) ==
    LET k == call[c]
    IN  /\ k.pc = "fencing" /\ c \notin gone
        /\ \E t \in MetadataTokens(k.name) : ScopeAccepts(t, k.name)
        /\ call' = [call EXCEPT ![c].fence = TRUE,
                                ![c].pc = IF k.op = "attestation" THEN "preparing" ELSE "sending"]
        /\ UNCHANGED <<outside, dispatched>>

\* Refused, timed out, unreachable, or no lane for the provider.
FenceFails(c) ==
    /\ call[c].pc = "fencing"
    /\ call' = [call EXCEPT ![c].pc = "over"]
    /\ UNCHANGED <<outside, dispatched>>

NearEnclaveOrigins(p) == IF p = Near /\ workerCfg.profile # "synthetic" THEN Enclaves ELSE {}
TransportOrigins(p) == {workerCfg.base[p].api, workerCfg.base[p].alt} \cup NearEnclaveOrigins(p)

\* (mutant) the origin is not compared
AnyDestination(p, h) == h # NoHost

\* ProviderTransport.send: only a bound origin, never a redirect.
DestinationPermitted(p, h) == h \in TransportOrigins(p)

\* Evidence that is public is requested without the key.
Keyed(k) == k.op \in Evidence => AdapterFor(k.name).evidence = "keyed"

SendRequest(c) ==
    LET k == call[c]
        sent == c \notin gone /\ Keyed(k) /\ DestinationPermitted(k.name, k.host)
    IN  /\ k.pc = "sending"
        /\ dispatched' = dispatched \cup IF sent THEN {[cred |-> k.name, host |-> k.host, path |-> k.path, op |-> k.op,
                                            model |-> k.model, e2ee |-> k.e2ee, fence |-> k.fence,
                                            zdr |-> k.zdr, body |-> k.body \ AdapterFor(k.name).strips]} ELSE {}
        /\ call' = [call EXCEPT ![c].pc = "over"]
        /\ UNCHANGED outside

Maps == [NearModels -> {NoHost} \cup Enclaves \cup ForeignHosts]

WorkerNext ==
    \/ \E c \in Calls, n \in WorkerProviders \cup {Mock}, p \in WorkerProviders, op \in Operations, m \in NearModels :
          \/ \E e \in BOOLEAN : RelayCalls(c, n, p, op, m, e)
          \/ TokenHolderCalls(c, n, p, op, m)
    \/ \E c \in Calls :
          Aborts(c) \/ AcceptCall(c) \/ PrepareCall(c) \/ PassFence(c) \/ FenceFails(c) \/ SendRequest(c)
    \/ \E map \in Maps : DiscoverEndpoints(map)
    \/ EndpointsExpire \/ RetentionChanges

-----------------------------------------------------------------------------
(* In production a provider's key leaves a worker only towards that          *)
(* provider: to its configured production host or, for NEAR, an approved    *)
(* enclave host, and in the synthetic profile only to the fixture; on a     *)
(* path of that provider; after control's fence whenever the operation is   *)
(* metered or the attestation of a ticket (the evidence, signatures and     *)
(* probes that are only read leave without one); an E2EE call only to the   *)
(* approved host of its model; a Bedrock call only after the account was    *)
(* seen to keep nothing; and no other provider's call carries the routing   *)
(* or Venice fields of the body.  This holds whatever discovery returns,    *)
(* whoever calls, and while the discovery cache or the account changes      *)
(* under a running call.                                                    *)
CredentialStaysHome ==
    workerCfg.env = "production" =>
      \A s \in dispatched :
        /\ s.cred = s.path /\ s.cred \in workerCfg.serves
        /\ s.cred # BedrockName => s.host \in CredentialOrigins(s.cred, workerCfg.profile) \cup NearEnclaveOrigins(s.cred)
        /\ s.op \in Metered \cup {"attestation"} => s.fence
        /\ (s.e2ee /\ s.cred = Near) => s.host = PinnedHost[s.model]
        /\ s.zdr
        /\ s.cred # "venice" => {"routing", "venice_parameters"} \cap s.body = {}
=============================================================================

----------------------------- MODULE BootConfig -----------------------------
(***************************************************************************)
(* loadConfig (src/config.ts): which environments a process of each role    *)
(* boots with.  An operator edits the environment of a process and restarts *)
(* it; a boot either starts the process with what it was given or refuses.  *)
(*                                                                          *)
(* A variable that only has to be present is a member of "has"; a key is    *)
(* given directly, by file or not at all; a token is its own name, another  *)
(* token's value, too weak, or absent.  Number ranges and URL syntax are    *)
(* the schema's and are left out.                                           *)
(***************************************************************************)
EXTENDS Naturals, FiniteSets

CONSTANTS
    BootRoles,      \* the roles of this instance
    KeyProviders,   \* providers with a bearer key, of this instance
    PoolChoices,    \* values of POOL_PROVIDERS
    Switches,       \* the presence settings an operator may edit
    TokenValues,    \* the values an operator may give a token
    MaxEdits        \* bound: edits of an environment

\* The providers whose key the schema knows.
ASSUME BootAssumption ==
    KeyProviders \subseteq {"venice", "fireworks", "deepinfra", "chutes", "tinfoil", "near-ai", "phala-ai"}

Pool == "pool-worker"
Collateral == "release-collateral"
Gateway == "gateway-attestation"

WorkerProviderForRole(r) ==
    CASE r = "venice-worker" -> "venice" [] r = "fireworks-worker" -> "fireworks"
      [] r = "bedrock-worker" -> "aws-bedrock" [] r = "deepinfra-worker" -> "deepinfra"
      [] r = "chutes-worker" -> "chutes" [] r = "tinfoil-worker" -> "tinfoil"
      [] r = "near-worker" -> "near-ai" [] r = "phala-ai-worker" -> "phala-ai" [] OTHER -> "none"

ProviderWorkers == {r \in BootRoles : WorkerProviderForRole(r) # "none"}
IsSplitRole(r) == r \in ProviderWorkers \cup {"control", "relay", "compat", Pool, Gateway, Collateral}
ServesPublicAuth(r) == r \in {"api", "control", "metadata-api"}
HttpEdge(r) == r \in {"api", "control", "control-rpc", "metadata-api", "relay", "compat"}
ContentTier(r) == IsSplitRole(r) /\ r # "control"

\* The service tokens; a provider's name stands for its METADATA_RPC_TOKEN_*.
ServiceTokens == {"relay", "worker", "compat", "shared", "deployment", "collateral"}
TokenVariables == ServiceTokens \cup KeyProviders
Strong(t) == t \notin {"none", "weak"}

VARIABLES
    env,     \* the environment as the operator has it
    booted,  \* {the environment the running process was started with}, or {}
    edits    \* edits so far

bootVars == <<env, booted, edits>>

-----------------------------------------------------------------------------
(* What an environment amounts to once it is read.                          *)
Production(e) == "production" \in e.has

\* loadLocalEnv: a checkout's .env fills in missing keys, never in production.
LoadLocalEnv(e) ==
    IF Production(e) \/ "dotenv" \notin e.has THEN e
    ELSE [e EXCEPT !.keys = [p \in KeyProviders |-> IF e.keys[p] = "none" THEN "direct" ELSE e.keys[p]]]

\* sensitiveValue refuses a value given both ways.  "shadowed" is Venice's
\* direct keyset beside a key file that is then not read.
SensitiveRefuses(e) == \E p \in KeyProviders : e.keys[p] = "both"
Holds(e, p) == p \in KeyProviders /\ e.keys[p] # "none"
HoldsAny(e, ps) == \E p \in ps : Holds(e, p)
FileDefined(e, p) == e.keys[p] \in {"file", "shadowed"}

\* workerMetadataTokenFor
WorkerMetadataToken(e) ==
    LET own == WorkerProviderForRole(e.role)
    IN  IF e.tokens["deployment"] # "none" THEN e.tokens["deployment"]
        ELSE IF own \in KeyProviders /\ e.tokens[own] # "none" THEN e.tokens[own] ELSE e.tokens["shared"]

Served(e) == IF e.role = Pool THEN e.pool ELSE {WorkerProviderForRole(e.role)} \ {"none"}

-----------------------------------------------------------------------------
(* Checks of every environment.                                             *)
EdgeRefuses(e) == Production(e) /\ HttpEdge(e.role) /\ "proxy-hop" \notin e.has
PoolListRefuses(e) == (e.role = Pool) = (e.pool = {}) \/ (e.role # Pool /\ "collateral-url" \in e.has)
MigrateRefuses(e) == e.role = "migrate" /\ "attestation" \in e.has

\* AnonRouter Connect, the social logins, the alert receiver and the admin
\* cookie.
ConnectRefuses(e) ==
    /\ "connect" \in e.has
    /\ \/ ~ServesPublicAuth(e.role)
       \/ "connect-same-origin" \notin e.has
       \/ Production(e) /\ "connect-files" \notin e.has
SocialRefuses(e) == ("social-credentials" \in e.has) # ("social-enabled" \in e.has)
AlertRefuses(e) ==
    \/ "alert-mode" \in e.has /\ "alert-receiver" \notin e.has
    \/ Production(e) /\ "alert-receiver" \in e.has /\ {"alert-mode", "alert-file"} \ e.has # {}
AdminRefuses(e) ==
    \/ "admin-mismatch" \in e.has
    \/ Production(e) /\ ServesPublicAuth(e.role) /\ "admin-path" \notin e.has

\* Payments: live only in production, over HTTPS, with file-backed keys, and
\* nothing is sold while the mode is disabled.
StripeLiveRefuses(e) == ~(Production(e) /\ {"app-https", "stripe-files"} \subseteq e.has)
StripeRefuses(e) ==
    \/ "stripe-purchases" \in e.has /\ {"stripe-live", "stripe-sandbox"} \cap e.has = {}
    \/ "stripe-live" \in e.has /\ StripeLiveRefuses(e)
CryptoLiveRefuses(e) == ~(Production(e) /\ {"app-https", "btcpay-files"} \subseteq e.has)
ResolveCryptoRailsRefuses(e) == "xmr-rail" \in e.has
CryptoRefuses(e) ==
    \/ "crypto-invoices" \in e.has /\ {"crypto-live", "crypto-sandbox"} \cap e.has = {}
    \/ {"crypto-live", "crypto-sandbox"} \cap e.has # {} /\ ResolveCryptoRailsRefuses(e)
    \/ "crypto-live" \in e.has /\ CryptoLiveRefuses(e)
WebhookRefuses(e) == "webhook" \in e.has /\ {"webhook-topic", "webhook-lease"} \ e.has # {}

\* The roles that serve the public auth surface.
SecretsRefuse(e) == "auth-secrets" \notin e.has
AuthRefuses(e) ==
    /\ Production(e) /\ ServesPublicAuth(e.role)
    /\ SecretsRefuse(e) \/ {"auth-https", "cors-public", "smtp-file", "verify-email"} \ e.has # {}

-----------------------------------------------------------------------------
(* The split-role checks, made in production only.                          *)
GatewayRefuses(e) ==
    \/ /\ "attestation" \in e.has
       /\ \/ {"public-origin", "release-id"} \ e.has # {}
          \/ ("in-tee-tls" \in e.has) # ("tls-terminator" \in e.has)
    \/ e.role = Gateway /\ "attestation" \notin e.has
CorsRefuses(e) == e.role \in {"relay", "compat"} /\ "cors-public" \notin e.has
LogRefuses(e) == e.role # "control" /\ "debug-log" \in e.has

\* The variables a content-tier role, the pool and the collateral role must
\* not be handed, and the tokens the last two must not hold.
ContentForbidden == {"database", "redis", "auth-secrets", "stripe-key", "smtp-file"}
AwsSources == {"aws-source", "bedrock-url"}
PoolForbidden == AwsSources \cup {"scopes", "signing-key", "guest-agent", "replay-file"}
CollateralForbidden == AwsSources \cup {"scopes", "signing-key", "guest-agent", "replay-file", "app-secret", "capability"}
ForbiddenTokens(r) ==
    CASE r = Pool -> {"relay", "compat", "shared", "deployment"}
      [] r = Collateral -> TokenVariables \ {"collateral"}
      [] OTHER -> {}
Forbidden(r) ==
    IF ~ContentTier(r) THEN {}
    ELSE ContentForbidden \cup (IF r = Pool THEN PoolForbidden ELSE {})
                          \cup (IF r = Collateral THEN CollateralForbidden ELSE {})
GivenForbidden(e) ==
    \/ e.has \cap Forbidden(e.role) # {}
    \/ \E v \in ForbiddenTokens(e.role) : e.tokens[v] # "none"

Bedrock(e) == "bedrock-profile" \in e.has
OlderKeys == {"venice", "fireworks", "deepinfra"}
NoProviderKeys(e) == ~HoldsAny(e, OlderKeys) /\ ~Bedrock(e)

ControlRefuses(e) ==
    LET given == {v \in KeyProviders \cup {"shared"} : e.tokens[v] # "none"}
    IN  \/ \E v \in {"relay", "shared", "worker"} : ~Strong(e.tokens[v])
        \/ \E v \in given : ~Strong(e.tokens[v])
        \/ \E v, w \in given : v # w /\ e.tokens[v] = e.tokens[w]
        \/ "compat" \in e.has /\ ~Strong(e.tokens["compat"])
        \/ ~NoProviderKeys(e)
RelayRefuses(e) ==
    \/ "inline-ticket" \in e.has
    \/ ~Strong(e.tokens["relay"]) \/ ~Strong(e.tokens["worker"])
    \/ ~NoProviderKeys(e)
CompatRefuses(e) == ("compat" \in e.has /\ ~Strong(e.tokens["compat"])) \/ ~NoProviderKeys(e)
AttestationRefuses(e) == ~NoProviderKeys(e)

\* What every worker needs, and each worker's own key and refusals.
WorkerBasics(e) ==
    ~Strong(e.tokens["worker"]) \/ ~Strong(WorkerMetadataToken(e)) \/ "control-url" \notin e.has
OwnKey(e, p) == FileDefined(e, p) /\ Holds(e, p)
VeniceWorkerRefuses(e) == ~OwnKey(e, "venice") \/ HoldsAny(e, {"fireworks", "deepinfra"}) \/ Bedrock(e)
FireworksWorkerRefuses(e) == ~OwnKey(e, "fireworks") \/ HoldsAny(e, {"venice", "deepinfra"}) \/ Bedrock(e)
DeepInfraWorkerRefuses(e) == ~OwnKey(e, "deepinfra") \/ HoldsAny(e, {"venice", "fireworks"}) \/ Bedrock(e)
BedrockWorkerRefuses(e) ==
    "bedrock" \notin e.has \/ Bedrock(e) \/ "aws-static" \in e.has \/ HoldsAny(e, OlderKeys)
ConfidentialWorkerRefuses(e) == ~OwnKey(e, WorkerProviderForRole(e.role))

WorkerRefuses(e) ==
    \/ WorkerBasics(e)
    \/ CASE e.role = "venice-worker" -> VeniceWorkerRefuses(e)
         [] e.role = "fireworks-worker" -> FireworksWorkerRefuses(e)
         [] e.role = "deepinfra-worker" -> DeepInfraWorkerRefuses(e)
         [] e.role = "bedrock-worker" -> BedrockWorkerRefuses(e)
         [] OTHER -> ConfidentialWorkerRefuses(e)

\* (mutant) a key of a provider outside POOL_PROVIDERS is let through
PoolKeysOfListed(e) == \E p \in e.pool : e.keys[p] # "file"

\* The pool: a file-backed key for each listed provider and none besides.
PoolKeysRefuse(e) ==
    \/ \E p \in e.pool : e.keys[p] # "file"
    \/ \E p \in KeyProviders \ e.pool : Holds(e, p)
PoolTokensRefuse(e) ==
    \/ \E p \in e.pool : ~Strong(e.tokens[p])
    \/ \E p \in KeyProviders \ e.pool : e.tokens[p] # "none"
    \/ \E p, q \in e.pool : p # q /\ e.tokens[p] = e.tokens[q]
PoolCollateralRefuses(e) ==
    \/ "collateral-url" \notin e.has
    \/ ~Strong(e.tokens["collateral"])
    \/ \E v \in {"worker"} \cup KeyProviders : e.tokens[v] = e.tokens["collateral"]
    \/ "chutes" \in e.pool
PoolRefuses(e) ==
    \/ ~Strong(e.tokens["worker"]) \/ "control-url" \notin e.has
    \/ PoolTokensRefuse(e) \/ PoolKeysRefuse(e) \/ PoolCollateralRefuses(e)
    \/ {"bedrock", "bedrock-profile", "attestation"} \cap e.has # {}
    \/ "capability" \notin e.has
CollateralRefuses(e) ==
    \/ ~Strong(e.tokens["collateral"])
    \/ ~NoProviderKeys(e) \/ {"bedrock", "attestation"} \cap e.has # {}

\* Checks over all split roles at the end.
CollateralTokenRefused(e) == e.role \notin {Pool, Collateral} /\ e.tokens["collateral"] # "none"
OriginsRefuse(e) == Served(e) \cap e.elsewhere # {}
ConfidentialKeysRefuse(e) ==
    \E p \in {"chutes", "tinfoil", "near-ai", "phala-ai"} :
      e.role # Pool /\ WorkerProviderForRole(e.role) # p /\ Holds(e, p)
StaticAwsRefused(e) == e.role # "bedrock-worker" /\ "aws-static" \in e.has

RoleRefuses(e) ==
    CASE e.role = "control" -> ControlRefuses(e) [] e.role = "relay" -> RelayRefuses(e)
      [] e.role = "compat" -> CompatRefuses(e) [] e.role = Gateway -> AttestationRefuses(e)
      [] e.role = Pool -> PoolRefuses(e) [] e.role = Collateral -> CollateralRefuses(e)
      [] OTHER -> WorkerRefuses(e)

SplitRefuses(e) ==
    /\ Production(e) /\ IsSplitRole(e.role)
    /\ \/ GatewayRefuses(e) \/ CorsRefuses(e) \/ LogRefuses(e) \/ GivenForbidden(e) \/ RoleRefuses(e)
       \/ CollateralTokenRefused(e) \/ OriginsRefuse(e) \/ ConfidentialKeysRefuse(e) \/ StaticAwsRefused(e)

Refuses(e) ==
    \/ EdgeRefuses(e) \/ SensitiveRefuses(e) \/ ConnectRefuses(e) \/ SocialRefuses(e) \/ AlertRefuses(e)
    \/ AdminRefuses(e) \/ PoolListRefuses(e) \/ MigrateRefuses(e) \/ SplitRefuses(e)
    \/ StripeRefuses(e) \/ CryptoRefuses(e) \/ WebhookRefuses(e) \/ AuthRefuses(e)

-----------------------------------------------------------------------------
(* The operator.                                                            *)
Usual(r) ==
    {"production", "proxy-hop", "admin-path", "cors-public", "control-url"}
      \cup (IF r = "bedrock-worker" THEN {"bedrock"} ELSE {})
      \cup (IF r = Pool THEN {"collateral-url", "capability"} ELSE {})
      \cup (IF r = Gateway THEN {"attestation", "public-origin", "release-id"} ELSE {})
      \cup (IF ServesPublicAuth(r) THEN {"auth-secrets", "auth-https", "smtp-file", "verify-email"} ELSE {})

Deployed(r, list) ==
    LET own == IF r = Pool THEN list ELSE {WorkerProviderForRole(r)}
    IN  [role |-> r, has |-> Usual(r), pool |-> IF r = Pool THEN list ELSE {}, elsewhere |-> {},
         keys |-> [p \in KeyProviders |-> IF p \in own THEN "file" ELSE "none"],
         tokens |-> [v \in TokenVariables |->
                       IF v \in ForbiddenTokens(r) \/ (v = "collateral" /\ r \notin {Pool, Collateral})
                          \/ (v \in KeyProviders /\ r # "control" /\ v \notin own)
                          \/ (v = "deployment" /\ r # "control")
                       THEN "none" ELSE v]]

BootInit ==
    /\ env \in {Deployed(r, list) : r \in BootRoles, list \in PoolChoices}
    /\ booted = {}
    /\ edits = 0

Edit(e) ==
    /\ edits < MaxEdits
    /\ env' = e
    /\ edits' = edits + 1
    /\ UNCHANGED booted

Toggle(x) == Edit([env EXCEPT !.has = IF x \in @ THEN @ \ {x} ELSE @ \cup {x}])
SetKey(p, how) == (how = "shadowed" => p = "venice") /\ Edit([env EXCEPT !.keys[p] = how])
SetToken(v, t) == Edit([env EXCEPT !.tokens[v] = t])
SetPool(list) == Edit([env EXCEPT !.pool = list])
PointElsewhere(p) == Edit([env EXCEPT !.elsewhere = @ \cup {p}])

\* The configuration object the process runs with.
Boot ==
    /\ ~Refuses(LoadLocalEnv(env))
    /\ booted' = {LoadLocalEnv(env)}
    /\ UNCHANGED <<env, edits>>

RefuseBoot ==
    /\ Refuses(LoadLocalEnv(env))
    /\ booted' = {}
    /\ UNCHANGED <<env, edits>>

BootNext ==
    \/ \E x \in Switches : Toggle(x)
    \/ \E p \in KeyProviders : PointElsewhere(p) \/ \E how \in {"none", "direct", "file", "both", "shadowed"} : SetKey(p, how)
    \/ \E v \in TokenVariables, t \in TokenValues : SetToken(v, t)
    \/ \E list \in PoolChoices : SetPool(list)
    \/ Boot \/ RefuseBoot

-----------------------------------------------------------------------------
Running == {e \in booted : Production(e) /\ IsSplitRole(e.role)}

\* The workers whose block leaves foreign keys to a check that does not
\* cover these three.
Unchecked(e) == IF e.role \in {"chutes-worker", "tinfoil-worker", "near-worker", "phala-ai-worker"} THEN OlderKeys ELSE {}

(* Whatever an operator edits, a production process of a split role runs    *)
(* only with the authority of its role: keys of the providers it serves (the *)
(* confidential-compute workers may also be given the older providers' keys, *)
(* which no check refuses), each sent to pinned hosts; no database, account *)
(* or payment secret in the content tier; in the pool no token but one per  *)
(* provider, all different; and the collateral token nowhere but in the     *)
(* pool and the collateral role, which holds nothing else.  The rules are   *)
(* spread over the role blocks and the checks after them.                   *)
AuthorityIsConfined ==
    \A e \in Running :
      /\ \A p \in KeyProviders : Holds(e, p) => p \in Served(e) \cup Unchecked(e)
      /\ Served(e) \cap e.elsewhere = {}
      /\ ContentTier(e.role) => e.has \cap ContentForbidden = {}
      /\ e.role = Pool =>
           /\ \A p \in e.pool : e.keys[p] = "file"
           /\ \A p, q \in e.pool : p # q => e.tokens[p] # e.tokens[q]
           /\ {e.tokens[v] : v \in ServiceTokens \ {"worker", "collateral"}} = {"none"}
      /\ e.tokens["collateral"] # "none" => e.role \in {Pool, Collateral}
      /\ e.role = Collateral => {v \in TokenVariables : e.tokens[v] # "none"} = {"collateral"}

(* "Foreign credentials are rejected globally by the consolidated            *)
(* cross-check below" (src/config.ts:2191): a confidential-compute worker    *)
(* does not run with another provider's key.                                 *)
ForeignKeysRefused ==
    \A e \in Running : e.role \in ProviderWorkers => \A p \in KeyProviders : Holds(e, p) => p \in Served(e)
=============================================================================

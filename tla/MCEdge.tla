------------------------------- MODULE MCEdge -------------------------------
(***************************************************************************)
(* The parts between the public edge and the providers, on small           *)
(* instances: ingress, compatibility broker, stream relay, row locks,      *)
(* credential administration, provider workers, the pinned transport, boot *)
(* configuration, the authority cache and the release-collateral role.     *)
(* They share no state, so a behaviour runs one of them, with the others   *)
(* parked in one initial state.                                            *)
(***************************************************************************)
EXTENDS BillingLocks, RelayStream, Ingress, CompatBroker, KeyAdmin, ProviderWorker,
        TinfoilTransport, BootConfig, AuthorityCache, Collateral

CONSTANTS x1, x2, x3

\* Transactions are alike, and so are arrivals and lookups; each part has its own.
EdgeSymmetry == Permutations({x1, x2, x3})

MCSubnet == [a \in Addresses |-> "n"]
MCRate == [ns \in Namespaces |-> [s \in Scopes |-> IF s = "exact" THEN 1 ELSE 2]]
MCActive == [ns \in Namespaces |-> [s \in Scopes |-> IF ns = "classifier" THEN 1 ELSE 2]]

MCBodies == {[model |-> "", models |-> <<>>], [model |-> "m1", models |-> <<"m*", "m2", "m1", "m3">>]}

Cap(a, k, d, e) ==
    [action |-> a, id |-> k, deployment |-> d, provider |-> "venice", signer |-> "s1", issuedAt |-> 0, expiresAt |-> e]
MCCapInfo == [c \in Caps |-> CASE c = "rot" -> Cap("rotate", "k1", "primary", 2)
                               [] c = "rev" -> Cap("revoke", "k1", "primary", 1)
                               [] OTHER -> Cap("revoke", "k2", "there", 2)]

MCPinned == [m \in NearModels |-> IF m = "m1" THEN "enc1" ELSE NoHost]

MCAuthorityFetchers ==
    {[subjects |-> {"k1", "k2"}, endpoints |-> <<"rpc1">>], [subjects |-> {"k1"}, endpoints |-> <<"rpc1", "rpc2">>]}

Question(op, vs, odd) == [op |-> op, values |-> vs, odd |-> odd]
MCQuestions ==
    {Question("publication", {"f1", "f2"}, FALSE), Question("publication", {"f2"}, TRUE), Question("onchain", {"a1"}, FALSE),
     Question("onchain", {"a2"}, FALSE), Question("releases", {}, FALSE), Question("none", {}, TRUE)}

VARIABLE part  \* the part that runs

Init ==
    /\ part \in {"locks", "stream", "ingress", "broker", "admin", "worker", "tls", "boot", "authority", "collateral"}
    /\ LocksInit /\ IngressInit /\ TlsInit /\ CollateralInit
    /\ StreamInit /\ (part # "stream" => ~eofOk)
    /\ BrokerInit /\ (part # "broker" => broker.cands = <<>>)
    /\ AdminInit /\ (part # "admin" => adminMode = "legacy")
    /\ WorkerInit /\ (part # "worker" => workerCfg = CHOOSE w \in Configurations : TRUE)
    /\ BootInit /\ (part # "boot" => env = CHOOSE e \in {Deployed(r, list) : r \in BootRoles, list \in PoolChoices} : TRUE)
    /\ AuthorityInit /\ (part # "authority" => Len(fetcher.endpoints) = 2)

parts == <<part, lockVars, streamVars, ingressVars, brokerVars, adminVars, workerVars, tlsVars, bootVars,
           authorityVars, collateralVars>>

RunLocks == part = "locks" /\ LocksNext
    /\ UNCHANGED <<part, streamVars, ingressVars, brokerVars, adminVars, workerVars, tlsVars, bootVars, authorityVars, collateralVars>>
RunStream == part = "stream" /\ StreamNext
    /\ UNCHANGED <<part, lockVars, ingressVars, brokerVars, adminVars, workerVars, tlsVars, bootVars, authorityVars, collateralVars>>
RunIngress == part = "ingress" /\ IngressNext
    /\ UNCHANGED <<part, lockVars, streamVars, brokerVars, adminVars, workerVars, tlsVars, bootVars, authorityVars, collateralVars>>
RunBroker == part = "broker" /\ BrokerNext
    /\ UNCHANGED <<part, lockVars, streamVars, ingressVars, adminVars, workerVars, tlsVars, bootVars, authorityVars, collateralVars>>
RunAdmin == part = "admin" /\ AdminNext
    /\ UNCHANGED <<part, lockVars, streamVars, ingressVars, brokerVars, workerVars, tlsVars, bootVars, authorityVars, collateralVars>>
RunWorker == part = "worker" /\ WorkerNext
    /\ UNCHANGED <<part, lockVars, streamVars, ingressVars, brokerVars, adminVars, tlsVars, bootVars, authorityVars, collateralVars>>
RunTls == part = "tls" /\ TlsNext
    /\ UNCHANGED <<part, lockVars, streamVars, ingressVars, brokerVars, adminVars, workerVars, bootVars, authorityVars, collateralVars>>
RunBoot == part = "boot" /\ BootNext
    /\ UNCHANGED <<part, lockVars, streamVars, ingressVars, brokerVars, adminVars, workerVars, tlsVars, authorityVars, collateralVars>>
RunAuthority == part = "authority" /\ AuthorityNext
    /\ UNCHANGED <<part, lockVars, streamVars, ingressVars, brokerVars, adminVars, workerVars, tlsVars, bootVars, collateralVars>>
RunCollateral == part = "collateral" /\ CollateralNext
    /\ UNCHANGED <<part, lockVars, streamVars, ingressVars, brokerVars, adminVars, workerVars, tlsVars, bootVars, authorityVars>>

Next ==
    \/ RunLocks \/ RunStream \/ RunIngress \/ RunBroker \/ RunAdmin \/ RunWorker \/ RunTls \/ RunBoot
    \/ RunAuthority \/ RunCollateral

Spec == Init /\ [][Next]_parts

\* The broker alone, for the run about its comment.
BrokerAlone == Init /\ part = "broker" /\ [][Next]_parts

\* Ingress, the collateral client and the collateral role count what they hold.
CountsAreTrue == CountersAreTrue /\ SlotsAreCounted
=============================================================================

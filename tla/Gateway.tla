------------------------------ MODULE Gateway ------------------------------
(***************************************************************************)
(* GET /v1/gateway/attestation: the service inside the TD that mints a     *)
(* nonce-bound quote (src/gateway/service.ts, dstackClient.ts), the        *)
(* observer of its own TLS certificate (tlsObservation.ts), the route      *)
(* (routes/gatewayAttestation.ts), and clients that verify what they get.  *)
(*                                                                         *)
(* An attestation waits at once for two things it shares with other        *)
(* requests, the identity (memoised) and the certificate of the origin     *)
(* (cached for a time); the application key, always the same, is folded    *)
(* into the quote.  Meanwhile certificates are renewed and the deployment  *)
(* is replaced.  Whatever carries the document is not trusted: a client    *)
(* may be handed parts of different documents, or a log that prints other  *)
(* payloads than were measured.                                            *)
(***************************************************************************)
EXTENDS GatewayVerify

CONSTANTS
    Clients, Builds,  \* builds that may run: [app, compose, release, claims, manifest, debug]
    GatewayOrigins,   \* the origins served, canonical first
    Transport,        \* "in-tee-tls" or "gateway-tls"
    Connections,      \* [origin, host, sees]: the origin a client connects to, the Host it sends, whether it sees its certificate
    Chains,           \* what a client's chain verifier may say: "good", "bad", "none"
    TlsTtl, GatewayMaxClock, MaxRenewals, MaxDeploys

\* The deployment and the policy released with it: the policy names the origins
\* served and asks for no transport the service does not have.  What the platform
\* itself measures is not modelled, and not pinned.
ASSUME GatewayAssumption ==
    /\ TlsTtl \in Nat \ {0}
    /\ GatewayOrigins \in Seq(ToSet(GatewayOrigins)) /\ GatewayOrigins # <<>>
    /\ \A k \in Connections : k.origin \in ToSet(GatewayOrigins)
    /\ ToSet(GatewayOrigins) \subseteq Pinned.origins
    /\ Pinned.inTeeTls => Transport = "in-tee-tls"
    /\ Pinned.keyProvider = {} /\ Pinned.platforms = {}

VARIABLES
    build,      \* the build that runs
    deploys,    \* its instance
    identity,   \* {} or {build}: the memoised identity
    loadingId,  \* the identity load is in flight
    observer,   \* observer[o]: {} or {[key, at]}
    observing,  \* origins with a handshake in flight
    serial,     \* serial[o]: the certificate served for o
    renewedAt,  \* when it was last renewed
    ask,        \* ask[c]: [stage, origin, target, observed, at, has, key]
    documents,  \* documents issued
    verdict,    \* verdict[c]: {} or {[failed, bound, quoted, reprint, x]}: the documents shown, and the checks that failed
    gatewayNow

gatewayVars == <<build, deploys, identity, loadingId, observer, observing, serial, renewedAt, ask, documents, verdict, gatewayNow>>

OriginSet == ToSet(GatewayOrigins)
KeyOf(o, n) == <<o, n>>    \* each name has a certificate of its own

Unasked == [stage |-> "idle", origin |-> GatewayOrigins[1], target |-> GatewayOrigins[1], observed |-> {}, at |-> 0, has |-> {},
            key |-> {}]

GatewayInit ==
    /\ build \in Builds /\ deploys = 0
    /\ identity = {} /\ loadingId = FALSE
    /\ observer = [o \in OriginSet |-> {}] /\ observing = {}
    /\ serial = [o \in OriginSet |-> 0] /\ renewedAt = [o \in OriginSet |-> 0 - TlsTtl]
    /\ ask = [c \in Clients |-> Unasked]
    /\ documents = {} /\ verdict = [c \in Clients |-> {}]
    /\ gatewayNow = 0

-----------------------------------------------------------------------------
(* The service.                                                             *)
SelectAttestedOrigin(host) == IF host \in OriginSet THEN host ELSE GatewayOrigins[1]

\* (mutant) every name is observed by the canonical observer
CanonicalOnly(o) == GatewayOrigins[1]

\* observerFor: one observer per origin
ObserverFor(o) == o

CachedKey(o) == {e.key : e \in {e \in observer[ObserverFor(o)] : gatewayNow - e.at < TlsTtl}}

\* attest: the waits start together
Attest(c) ==
    /\ ask[c].stage = "idle"
    /\ \E k \in Connections :
        LET t == SelectAttestedOrigin(k.host)
            tls == Transport # "in-tee-tls" \/ CachedKey(t) # {}
        IN /\ ask' = [ask EXCEPT ![c] =
                 [stage |-> "asked", origin |-> k.origin, target |-> t, observed |-> IF k.sees THEN {KeyOf(k.origin, serial[k.origin])} ELSE {}, at |-> gatewayNow,
                  has |-> (IF identity # {} THEN {"identity"} ELSE {}) \cup (IF tls THEN {"tls"} ELSE {}),
                  key |-> IF Transport = "in-tee-tls" THEN CachedKey(t) ELSE {NoKey}]]
           /\ loadingId' = (loadingId \/ identity = {})
           /\ observing' = IF tls THEN observing ELSE observing \cup {ObserverFor(t)}
    /\ UNCHANGED <<build, deploys, identity, observer, serial, renewedAt, documents, verdict, gatewayNow>>

Waiting(what) == {c \in Clients : ask[c].stage = "asked" /\ what \notin ask[c].has}

Arrived(cs, what, key) ==
    ask' = [c \in Clients |-> IF c \in cs THEN [ask[c] EXCEPT !.has = @ \cup {what}, !.key = @ \cup key] ELSE ask[c]]
FailAsks(cs) == ask' = [c \in Clients |-> IF c \in cs THEN [Unasked EXCEPT !.stage = "failed"] ELSE ask[c]]

\* loadIdentity
IdentityLoads ==
    /\ loadingId
    /\ loadingId' = FALSE
    /\ identity' = {build}
    /\ Arrived(Waiting("identity"), "identity", {})
    /\ UNCHANGED <<build, deploys, observer, observing, serial, renewedAt, documents, verdict, gatewayNow>>

\* a failure is not memoised
IdentityFails ==
    /\ loadingId
    /\ loadingId' = FALSE
    /\ FailAsks(Waiting("identity"))
    /\ UNCHANGED <<build, deploys, identity, observer, observing, serial, renewedAt, documents, verdict, gatewayNow>>

Observers(o) == {c \in Waiting("tls") : ObserverFor(ask[c].target) = o}

\* observeLocalTlsIdentity: a handshake with the origin's own name
Observed(o) ==
    /\ o \in observing
    /\ observing' = observing \ {o}
    /\ LET key == KeyOf(o, serial[o])
       IN /\ observer' = [observer EXCEPT ![o] = {[key |-> key, at |-> gatewayNow]}]
          /\ Arrived(Observers(o), "tls", {key})
    /\ UNCHANGED <<build, deploys, identity, loadingId, serial, renewedAt, documents, verdict, gatewayNow>>

ObservationFails(o) ==
    /\ o \in observing
    /\ observing' = observing \ {o}
    /\ FailAsks(Observers(o))
    /\ UNCHANGED <<build, deploys, identity, loadingId, observer, serial, renewedAt, documents, verdict, gatewayNow>>

-----------------------------------------------------------------------------
(* The guest agent and the document.                                        *)
\* What the hardware measures of a build: its own compose hash, whatever the
\* build then claims to be.  The agent may leave a digest out, or add the
\* bytes that were hashed.
Event(i, n, p) == [imr |-> i, name |-> n, payload |-> p, digest |-> <<n, p>>, preimage |-> {}]
EventLog(b, n) == <<Event(0, "boot", "firmware"), Event(3, "app-id", b.app),
                    [Event(3, "compose-hash", b.compose) EXCEPT !.preimage = {<<"compose-hash", b.compose>>}],
                    [Event(3, "instance-id", ToString(n)) EXCEPT !.digest = <<>>]>>
Measured(log, i) == FlattenSeq([k \in DOMAIN log |-> IF log[k].imr = i THEN <<Commitment(log[k])>> ELSE <<>>])

\* A document: who asked, the build that answered and its instance, the origin
\* and certificate key bound, and whether that certificate was steady.
Binding(d) ==
    [wellformed |-> TRUE, nonce |-> d.client, app |-> d.build.app, instance |-> ToString(d.instance), compose |-> d.build.claims,
     release |-> d.build.release, origin |-> d.target, transport |-> Transport, spki |-> d.key]

GetQuote(d) ==
    [parses |-> TRUE, tdx |-> TRUE, debug |-> d.build.debug, report |-> Binding(d), platform |-> "platform",
     rtmr |-> [i \in 0 .. 3 |-> Measured(EventLog(d.build, d.instance), i)]]

QuoteArrives(c) ==
    /\ ask[c].stage = "asked" /\ ask[c].has = {"identity", "tls"}
    /\ ask' = [ask EXCEPT ![c].stage = "issued"]
    /\ \E b \in identity, k \in ask[c].key :
        documents' = documents \cup
            {[client |-> c, build |-> b, instance |-> deploys, target |-> ask[c].target, key |-> k,
              steady |-> renewedAt[ask[c].target] + TlsTtl <= ask[c].at]}
    /\ UNCHANGED <<build, deploys, identity, loadingId, observer, observing, serial, renewedAt, verdict, gatewayNow>>

QuoteFails(c) ==
    /\ ask[c].stage = "asked" /\ ask[c].has = {"identity", "tls"}
    /\ FailAsks({c})
    /\ UNCHANGED <<build, deploys, identity, loadingId, observer, observing, serial, renewedAt, documents, verdict, gatewayNow>>

-----------------------------------------------------------------------------
(* The client.                                                              *)
\* The binding of one document with the quote and log of another, the log
\* printing the first one's compose hash, when it is reprinted.
Reprinted(log, other) ==
    [i \in DOMAIN log |-> IF log[i].name = "compose-hash" THEN [log[i] EXCEPT !.payload = other] ELSE log[i]]

Mixed(d, quoted, reprint) ==
    LET log == EventLog(quoted.build, quoted.instance)
    IN [binding |-> Binding(d), quote |-> GetQuote(quoted), manifest |-> d.build.manifest, vm |-> {},
        log |-> IF reprint THEN Reprinted(log, d.build.claims) ELSE log]

Decide(c, d, quoted, reprint, chain) ==
    LET x == [nonce |-> c, origin |-> ask[c].origin, observed |-> ask[c].observed, chain |-> chain]
    IN /\ verdict' = [verdict EXCEPT ![c] =
             {[failed |-> VerifyGatewayAttestation(Mixed(d, quoted, reprint), x).failed,
               bound |-> d, quoted |-> quoted, reprint |-> reprint, x |-> x]}]
       /\ ask' = [ask EXCEPT ![c].stage = "verified"]
       /\ UNCHANGED <<build, deploys, identity, loadingId, observer, observing, serial, renewedAt, documents, gatewayNow>>

\* the document the service issued for it
VerifyIntact(c) ==
    /\ ask[c].stage = "issued"
    /\ \E d \in documents, chain \in Chains : d.client = c /\ Decide(c, d, d, FALSE, chain)

\* Parts of several documents.  A client that refuses them goes on waiting.
VerifyMixed(c) ==
    /\ ask[c].stage \in {"asked", "issued"}
    /\ \E d1, d2 \in documents, chain \in Chains \ {"bad"}, reprint \in BOOLEAN :
          Decide(c, d1, d2, reprint, chain) /\ \A v \in verdict'[c] : v.failed = {}

-----------------------------------------------------------------------------
(* The world.                                                               *)
RenewCertificate(o) ==
    /\ \A p \in OriginSet : serial[p] < MaxRenewals
    /\ serial' = [serial EXCEPT ![o] = @ + 1]
    /\ renewedAt' = [renewedAt EXCEPT ![o] = gatewayNow]
    /\ UNCHANGED <<build, deploys, identity, loadingId, observer, observing, ask, documents, verdict, gatewayNow>>

\* the service restarts with nothing memoised; requests in flight are lost
Redeploy ==
    /\ deploys < MaxDeploys
    /\ deploys' = deploys + 1
    /\ build' \in Builds
    /\ identity' = {} /\ loadingId' = FALSE
    /\ observer' = [o \in OriginSet |-> {}] /\ observing' = {}
    /\ FailAsks({c \in Clients : ask[c].stage = "asked"})
    /\ UNCHANGED <<serial, renewedAt, documents, verdict, gatewayNow>>

GatewayTick ==
    /\ gatewayNow < GatewayMaxClock
    /\ gatewayNow' = gatewayNow + 1
    /\ UNCHANGED <<build, deploys, identity, loadingId, observer, observing, serial, renewedAt, ask, documents, verdict>>

GatewayNext ==
    \/ \E c \in Clients : Attest(c) \/ QuoteArrives(c) \/ QuoteFails(c) \/ VerifyIntact(c) \/ VerifyMixed(c)
    \/ \E o \in OriginSet : Observed(o) \/ ObservationFails(o) \/ RenewCertificate(o)
    \/ IdentityLoads \/ IdentityFails \/ Redeploy \/ GatewayTick

-----------------------------------------------------------------------------
(***************************************************************************)
(* A client that accepts holds one statement, made for it: a TD whose      *)
(* measured compose hash is pinned asserted the binding in answer to this  *)
(* client's nonce, and names the certificate the client sees, when it sees *)
(* one and the policy asks for it.                                         *)
(***************************************************************************)
AcceptedIsMeasured ==
    \A c \in Clients : \A v \in verdict[c] : v.failed = {} =>
        \E d \in documents :
            /\ d.client = c
            /\ Binding(v.bound) = Binding(d) /\ GetQuote(v.quoted) = GetQuote(d)
            /\ d.build.compose \in Pinned.composes /\ ~d.build.debug
            /\ Pinned.inTeeTls => v.x.observed \subseteq {d.key}

\* What a policy's review says of a build: its measured compose hash is pinned and
\* is the one it claims, of a manifest that keeps the policy's rules.
Reviewed(b) ==
    /\ ~b.debug
    /\ b.app \in Pinned.apps /\ b.compose \in Pinned.composes /\ b.release \in Pinned.releases
    /\ b.claims = b.compose /\ b.manifest.parses /\ b.manifest.hash = b.compose
    /\ Pinned.privateLogs => b.manifest.publicLogs = "false"
    /\ Pinned.digests => b.manifest.images # {} /\ \A i \in b.manifest.images : i.pinned

(***************************************************************************)
(* The service and the verifier agree: a client that gets the document it  *)
(* asked for, from a reviewed build under the name it connected to, whose  *)
(* certificate was not renewed since a cache lifetime before it asked,     *)
(* accepts it, whatever other requests the service was answering.          *)
(***************************************************************************)
IntactIsAccepted ==
    \A c \in Clients : \A v \in verdict[c] :
        /\ v.bound.client = c /\ v.quoted = v.bound /\ ~v.reprint
        /\ Reviewed(v.bound.build)
        /\ ask[c].target = ask[c].origin /\ v.bound.steady
        /\ v.x.chain = "good"
        => v.failed = {}

\* Acceptance is exact: nothing but a measured statement made for the client is
\* accepted (gateway/verify.ts), and whatever the service issued intact is.
AcceptanceIsExact == AcceptedIsMeasured /\ IntactIsAccepted
=============================================================================

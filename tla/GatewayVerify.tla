--------------------------- MODULE GatewayVerify ---------------------------
(***************************************************************************)
(* The client's verdict on the gateway's evidence: src/gateway/verify.ts,  *)
(* with binding.ts, eventLog.ts, appCompose.ts and policy.ts.              *)
(*                                                                         *)
(* A digest is modelled by what it is of: the hash of a binding is the     *)
(* binding, the digest of an event its name and payload, and a register    *)
(* the sequence of the digests that extended it.  Field syntax is one flag.*)
(***************************************************************************)
EXTENDS Integers, SequencesExt

CONSTANTS
    Pinned    \* the policy: [apps, composes, releases, origins, keyProvider, platforms, inTeeTls, privateLogs, digests, hardware];
              \* keyProvider and platforms are {} when not pinned

NoKey == <<"no-key">> \* tls_spki_sha256 = null

\* loadGatewayPolicy: an allowlist is never empty
PolicyIsUsable == {} \notin {Pinned.apps, Pinned.composes, Pinned.releases, Pinned.origins}

ASSUME GatewayPolicyAssumption == PolicyIsUsable

-----------------------------------------------------------------------------
(* The parts of the evidence.                                               *)
\* normalizeGatewayBinding: a TD that claims the transport names its key, and only then
NormalizeGatewayBinding(b) ==
    /\ b.wellformed
    /\ (b.transport = "in-tee-tls") <=> (b.spki # NoKey)

\* rtmr3EventDigest: the digest the name and payload commit to, {} when they
\* do not.  A second-version event carries the bytes that were hashed.
Commitment(e) == <<e.name, e.payload>>
ClaimedDigest(e) == {IF e.digest = <<>> THEN Commitment(e) ELSE e.digest}
Rtmr3EventDigest(e) ==
    IF e.preimage = {} THEN {Commitment(e)}
    ELSE {d \in {e.digest} : d = Commitment(e) /\ e.preimage = {Commitment(e)}}

Rtmr3EventDigestIsSelfConsistent(e) == Rtmr3EventDigest(e) # {} /\ e.digest \in Rtmr3EventDigest(e) \cup {<<>>}

\* replayRegister, replayRtmrs: the digests of register i in the order of the
\* log; an event that commits to nothing extends it with a value no event has
ReplayRegister(log, i) ==
    FlattenSeq([k \in DOMAIN log |->
        IF log[k].imr # i THEN <<>>
        ELSE IF i # 3 THEN <<log[k].digest>>
        ELSE IF Rtmr3EventDigest(log[k]) = {} THEN <<<<"unhashable">>>>
        ELSE <<CHOOSE d \in Rtmr3EventDigest(log[k]) : TRUE>>])

Named(log, n) == {i \in DOMAIN log : log[i].name = n}
SingleEventFails(log, n) ==
    \/ Cardinality(Named(log, n)) > 1
    \/ \E i \in Named(log, n) : log[i].imr # 3 \/ ~Rtmr3EventDigestIsSelfConsistent(log[i])
SingleEventPayload(log, n) == {log[i].payload : i \in Named(log, n)}

ParseEventLog(log) == \A i \in DOMAIN log : log[i].imr \in 0 .. 3
LogIsRead(log) ==
    /\ ParseEventLog(log)
    /\ \A n \in {"compose-hash", "instance-id", "app-id", "key-provider", "os-image-hash"} : ~SingleEventFails(log, n)

\* what the manifest says, {} when it does not parse; its hash is of the exact text
ReadAttestedAppCompose(m) == IF m.parses THEN {m} ELSE {}

-----------------------------------------------------------------------------
(* The checks.  x is what the client knows: [nonce, origin, observed, chain]; *)
(* `observed` is {} when the client cannot see its certificate.               *)
QuoteChecks(v, x) ==
    [quote_is_tdx |-> v.quote.tdx,
     quote_not_debug |-> ~v.quote.debug,
     report_data_binds_binding |-> v.quote.report = v.binding,
     nonce_matches_request |-> v.binding.nonce = x.nonce,
     origin_matches_connection |-> v.binding.origin = x.origin]

LogChecks(v) ==
    LET payload(n) == SingleEventPayload(v.log, n)
        os == payload("os-image-hash")
    IN [event_log_replays_rtmrs |-> LogIsRead(v.log) /\ \A i \in 0 .. 3 : ReplayRegister(v.log, i) = v.quote.rtmr[i],
        event_digests_commit_to_payloads |-> \A i \in DOMAIN v.log : v.log[i].imr = 3 => Rtmr3EventDigestIsSelfConsistent(v.log[i]),
        compose_hash_measured_in_rtmr3 |-> payload("compose-hash") = {v.binding.compose},
        instance_id_measured |-> payload("instance-id") \subseteq {v.binding.instance},
        app_id_measured |-> payload("app-id") = {v.binding.app},
        key_provider_pinned |-> Pinned.keyProvider = {} \/ payload("key-provider") = Pinned.keyProvider,
        vm_config_matches_measured_os_image |-> os = {} \/ v.vm = {} \/ os = v.vm,
        os_image_pinned |-> Pinned.platforms = {} \/ \E p \in Pinned.platforms : os = {p.os}]

ManifestChecks(v) ==
    LET compose == ReadAttestedAppCompose(v.manifest)
    IN [app_compose_parsed |-> compose # {},
        app_compose_matches_measurement |-> \E m \in compose : m.hash = v.binding.compose,
        compose_public_logs_disabled |-> Pinned.privateLogs => \E m \in compose : m.publicLogs = "false",
        compose_images_digest_pinned |-> Pinned.digests => \E m \in compose : m.images # {} /\ \A i \in m.images : i.pinned]

PinChecks(v, x) ==
    [app_id_pinned |-> v.binding.app \in Pinned.apps,
     compose_hash_pinned |-> v.binding.compose \in Pinned.composes,
     release_pinned |-> v.binding.release \in Pinned.releases,
     origin_pinned |-> v.binding.origin \in Pinned.origins,
     platform_measurements_pinned |-> Pinned.platforms = {} \/ \E p \in Pinned.platforms : p.registers = v.quote.platform,
     transport_terminates_in_tee |-> Pinned.inTeeTls => v.binding.transport = "in-tee-tls",
     tls_certificate_bound_to_quote |-> Pinned.inTeeTls => x.observed \subseteq {v.binding.spki} \ {NoKey},
     quote_signature_chain |-> x.chain = "good" \/ (x.chain = "none" /\ ~Pinned.hardware)]

Failures(checks) == {n \in DOMAIN checks : ~checks[n]}

\* verifyGatewayAttestation: the required checks that fail, and the level
VerifyGatewayAttestation(v, x) ==
    LET failed == IF ~NormalizeGatewayBinding(v.binding) THEN {"binding_wellformed"}
                  ELSE IF ~v.quote.parses THEN {"quote_parsed"}
                  ELSE UNION {Failures(QuoteChecks(v, x)), Failures(LogChecks(v)), Failures(ManifestChecks(v)),
                              Failures(PinChecks(v, x))}
    IN [failed |-> failed,
        level |-> IF failed # {} THEN "unverified" ELSE IF x.chain = "good" THEN "hardware-verified" ELSE "provider-attested"]
=============================================================================

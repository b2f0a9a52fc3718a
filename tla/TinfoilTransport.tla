-------------------------- MODULE TinfoilTransport --------------------------
(***************************************************************************)
(* The attested connection of the Tinfoil adapter (src/providers/           *)
(* tinfoil.ts): requests share one verification of the enclave and one TLS  *)
(* agent pinned to the key the evidence names.  The verification is a       *)
(* promise, kept for a fixed time; a pin mismatch, an expiry or a failed    *)
(* evidence request drops it and closes its agent, with the requests still  *)
(* on it.  A request is: obtain the promise, await it, connect, and on a    *)
(* pin mismatch start over once.                                            *)
(***************************************************************************)
EXTENDS Naturals

CONSTANTS
    TlsRequests,
    EvidenceRequests,  \* the ones that only fetch evidence (HEAD, no credential)
    Loads,             \* verifications, 1..n: a bound on the model
    VerificationTtl,   \* TINFOIL_VERIFICATION_TTL_MS
    MaxKey,            \* certificate key rotations are bounded
    TlsMaxClock

ASSUME TlsAssumption == EvidenceRequests \subseteq TlsRequests /\ VerificationTtl \in Nat \ {0}

NoLoad == 0

VARIABLES
    tlsTime,
    liveKey,   \* the TLS key the enclave presents now
    load,      \* load[i]: [status, key, at] of verification i
    shared,    \* verifiedTransportPromise: NoLoad or the verification it is
    expires,   \* verifiedTransportExpiresAtMs
    closed,    \* the verifications whose agent is or will be destroyed
    tls        \* tls[r]: [pc, load, retried, joined, sentKey, age]

tlsVars == <<tlsTime, liveKey, load, shared, expires, closed, tls>>

Idle == [pc |-> "idle", load |-> NoLoad, retried |-> FALSE, joined |-> "none", sentKey |-> 0, age |-> 0]

TlsInit ==
    /\ tlsTime = 1 /\ liveKey = 1
    /\ load = [i \in Loads |-> [status |-> "unused", key |-> 0, at |-> 0]]
    /\ shared = NoLoad /\ expires = 0 /\ closed = {}
    /\ tls = [r \in TlsRequests |-> Idle]

Start(r) ==
    /\ tls[r].pc = "idle"
    /\ tls' = [tls EXCEPT ![r].pc = "want"]
    /\ UNCHANGED <<tlsTime, liveKey, load, shared, expires, closed>>

\* (mutant) a kept verification never expires
NeverExpires == FALSE

VerificationExpired == shared # NoLoad /\ expires > 0 /\ tlsTime >= expires

FreshLoads == {i \in Loads : load[i].status = "unused" /\ \A j \in Loads : j < i => load[j].status # "unused"}

\* getVerifiedTransport up to its await: an expired verification is dropped;
\* without one this request starts the next.
JoinVerification(r) ==
    /\ tls[r].pc = "want" /\ shared # NoLoad /\ ~VerificationExpired
    /\ tls' = [tls EXCEPT ![r] = [@ EXCEPT !.load = shared, !.joined = load[shared].status,
                 !.pc = CASE load[shared].status = "pending" -> "waiting"
                          [] load[shared].status = "ok" -> "connecting"
                          [] OTHER -> "unverified",
                 !.age = IF load[shared].status = "ok" THEN tlsTime - load[shared].at ELSE 0]]
    /\ UNCHANGED <<tlsTime, liveKey, load, shared, expires, closed>>

StartVerification(r) ==
    /\ tls[r].pc = "want" /\ (shared = NoLoad \/ VerificationExpired)
    /\ \E i \in FreshLoads :
         /\ load' = [load EXCEPT ![i].status = "pending"]
         /\ shared' = i
         /\ tls' = [tls EXCEPT ![r].pc = "loading", ![r].load = i, ![r].joined = "pending"]
    /\ closed' = closed \cup ({shared} \ {NoLoad})
    /\ expires' = 0
    /\ UNCHANGED <<tlsTime, liveKey>>

\* An evidence request that fails drops the shared verification, whichever
\* it is by then.
DropShared(drop) ==
    IF drop THEN shared' = NoLoad /\ expires' = 0 /\ closed' = closed \cup ({shared} \ {NoLoad})
    ELSE UNCHANGED <<shared, expires, closed>>

Awaiting(i) == {r \in TlsRequests : tls[r].pc \in {"loading", "waiting"} /\ tls[r].load = i}

\* loadVerifiedTransport settles: the verifier accepts the enclave and names
\* its key, or anything fails.  The continuations run before any other event:
\* the starter keeps or clears the promise if it is still the shared one, and
\* every request that awaited it goes on or fails.
VerificationSettles(i, ok) ==
    /\ load[i].status = "pending"
    /\ load' = [load EXCEPT ![i] = IF ok THEN [status |-> "ok", key |-> liveKey, at |-> tlsTime]
                                         ELSE [@ EXCEPT !.status = "failed"]]
    /\ tls' = [r \in TlsRequests |-> IF r \notin Awaiting(i) THEN tls[r]
                                     ELSE [tls[r] EXCEPT !.pc = IF ok THEN "connecting" ELSE "unverified"]]
    /\ IF shared = i /\ ok
       THEN expires' = tlsTime + VerificationTtl /\ UNCHANGED <<shared, closed>>
       ELSE IF shared = i
       THEN shared' = NoLoad /\ expires' = 0 /\ UNCHANGED closed
       ELSE DropShared(~ok /\ Awaiting(i) \cap EvidenceRequests # {})
    /\ UNCHANGED <<tlsTime, liveKey>>

\* The handshake compares the certificate's key with the pinned one before
\* a byte of the request is written.
Connect(r) ==
    /\ tls[r].pc = "connecting" /\ load[tls[r].load].key = liveKey
    /\ tls' = [tls EXCEPT ![r].pc = "inflight", ![r].sentKey = liveKey]
    /\ UNCHANGED <<tlsTime, liveKey, load, shared, expires, closed>>

PinMismatch(r) ==
    /\ tls[r].pc = "connecting" /\ load[tls[r].load].key # liveKey
    /\ tls' = [tls EXCEPT ![r] = IF @.retried THEN [@ EXCEPT !.pc = "failed"]
                                 ELSE [@ EXCEPT !.pc = "want", !.retried = TRUE]]
    /\ DropShared(~tls[r].retried \/ r \in EvidenceRequests)
    /\ UNCHANGED <<tlsTime, liveKey, load>>

Completes(r) ==
    /\ tls[r].pc = "inflight"
    /\ tls' = [tls EXCEPT ![r].pc = "done"]
    /\ UNCHANGED <<tlsTime, liveKey, load, shared, expires, closed>>

\* A network error, a timeout, or the destruction of the agent under it.
Breaks(r) ==
    /\ tls[r].pc \in {"connecting", "inflight"}
    /\ tls' = [tls EXCEPT ![r].pc = IF tls[r].load \in closed THEN "cut" ELSE "failed"]
    /\ DropShared(r \in EvidenceRequests)
    /\ UNCHANGED <<tlsTime, liveKey, load>>

RotateTlsKey ==
    /\ liveKey < MaxKey
    /\ liveKey' = liveKey + 1
    /\ UNCHANGED <<tlsTime, load, shared, expires, closed, tls>>

TlsTick ==
    /\ tlsTime < TlsMaxClock
    /\ tlsTime' = tlsTime + 1
    /\ UNCHANGED <<liveKey, load, shared, expires, closed, tls>>

TlsNext ==
    \/ \E r \in TlsRequests :
          \/ Start(r) \/ JoinVerification(r) \/ StartVerification(r) \/ Connect(r)
          \/ PinMismatch(r) \/ Completes(r) \/ Breaks(r)
    \/ \E i \in Loads, ok \in BOOLEAN : VerificationSettles(i, ok)
    \/ RotateTlsKey \/ TlsTick

-----------------------------------------------------------------------------
(* What a request sends rests on evidence of its own time: the key its      *)
(* agent was pinned to is the key the enclave presented, and the            *)
(* verification behind it had settled less than the retention time before   *)
(* the request took it.  A failed verification fails the        *)
(* requests that were waiting for it and no later one.  This must survive   *)
(* drops by another request while a verification is under way, and an       *)
(* expiry that one request finds and another does not.                      *)
EvidenceIsCurrent ==
    \A r \in TlsRequests :
      /\ tls[r].pc \in {"connecting", "inflight", "done"} => tls[r].age < VerificationTtl
      /\ tls[r].pc \in {"inflight", "done"} => tls[r].sentKey = load[tls[r].load].key
      /\ tls[r].pc = "unverified" => tls[r].joined # "failed"
=============================================================================

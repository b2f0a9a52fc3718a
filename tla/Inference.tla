----------------------------- MODULE Inference -----------------------------
(***************************************************************************)
(* One inference request from the relay's authorize call to the end of the *)
(* client's connection: the relay handler (routes/chat.ts and its media,   *)
(* embeddings and opaque-E2EE siblings), the credential worker with its    *)
(* provider-attempt fence, the control plane's ledger row, and the sweeper *)
(* that finalizes abandoned holds.                                         *)
(*                                                                         *)
(* The relay and the worker reach the ledger over HTTP.  A request that is *)
(* in net is on its way: it may be handled at any later time, long after   *)
(* its sender gave up on it, or never.  A sender that awaits an answer may *)
(* fail at any time (its 5 s timer, a reset connection, a lost answer).    *)
(* A retry sends the same record again; because every handler is           *)
(* idempotent, keeping net a set loses nothing but indistinguishable       *)
(* copies.                                                                 *)
(***************************************************************************)
EXTENDS Reservation, FiniteSets

CONSTANTS
    Ops,          \* the operations a request may be: a subset of AllOps
    MaxAttempts,  \* length of the control plane's bounded provider plan
    Reserved,     \* the hold: the plan's worst case
    Usage,        \* Usage[k]: tokens attempt k reports
    Rate          \* Rate[k]: price per token of the route of attempt k

\* "stream" and "json" are chat; "media" is image and speech; "e2ee" is the
\* opaque whole-body transport.
AllOps == {"stream", "json", "embeddings", "media", "e2ee"}
Chat == {"stream", "json"}
Attempts == 1 .. MaxAttempts

ASSUME OpsAssumption == Ops \subseteq AllOps
ASSUME MaxAttemptsAssumption == MaxAttempts \in Nat \ {0}
ASSUME ReservedAssumption == Reserved \in Nat \ {0}
ASSUME UsageAssumption == Usage \in [Attempts -> Nat \ {0}]
ASSUME RateAssumption == Rate \in [Attempts -> Nat \ {0}]

VARIABLES
    op,        \* the operation of this request
    row,       \* its reservation row
    tombstone, \* the control plane's cancellation mark for a request id
    net,       \* control requests on their way
    pc,        \* where the relay handler is
    att,       \* the attempt the relay is serving (0 before the first)
    awaiting,  \* the control request whose answer the relay awaits
    reply,     \* its answer, if one is on its way back
    tries,     \* tries left of settleWithRetry / captureWithRetry
    started,   \* deliveryStarted in the streaming branch
    caller,    \* the attempt whose output reached the caller (0: none)
    done,      \* the public completion ([DONE] or a full response) was sent
    gone,      \* the client disconnected
    attested,  \* an abort attested a rejection while the client was connected
    wk,        \* worker[k]: state of attempt k at its credential worker
    sweep      \* the stale-reservation sweeper's pending outcome

relayVars  == <<pc, att, awaiting, reply, tries, started, caller, done, attested>>
ledgerVars == <<row, tombstone>>
vars == <<op, row, tombstone, net, pc, att, awaiting, reply, tries, started,
          caller, done, gone, attested, wk, sweep>>

Msg(kind, k, rejected) == [kind |-> kind, k |-> k, rejected |-> rejected]
Kinds == {"authorize", "next", "fence", "delivery", "settle", "capture", "abort"}
Messages == [kind : Kinds, k : 0 .. MaxAttempts, rejected : BOOLEAN]
NoMsg == Msg("none", 0, FALSE)

NoRow == [status |-> "none", reserved |-> 0, charged |-> 0, attempt |-> FALSE,
          delivery |-> FALSE, route |-> 0]
NewRow == [status |-> "reserved", reserved |-> Reserved, charged |-> 0, attempt |-> FALSE,
           delivery |-> FALSE, route |-> 1]

Cost(usageOf, route) == Usage[usageOf] * Rate[route]

PCs == {"start", "authorize", "authorized", "skip", "worker", "failed", "next", "headers",
        "fence", "streaming", "settle", "partial", "capture", "streamcapture",
        "streamabort", "abort", "closed", "crashed"}
WorkerStates == {"idle", "fencing", "granted", "refused", "dispatched", "accepted",
                 "complete", "incomplete", "failed"}

Init ==
    /\ op \in Ops
    /\ row = NoRow /\ tombstone = FALSE
    /\ net = {}
    /\ pc = "start" /\ att = 0
    /\ awaiting = NoMsg /\ reply = "none" /\ tries = 0
    /\ started = FALSE /\ caller = 0 /\ done = FALSE
    /\ gone = FALSE /\ attested = FALSE
    /\ wk = [k \in Attempts |-> "idle"]
    /\ sweep = "idle"

Running == pc \notin {"closed", "crashed"}
----------------------------------------------------------------------------
(* Control RPCs as the relay issues them (HttpControlClient.post).         *)

\* Send m and wait for its answer at pc = where.
Call(m, where) ==
    /\ net' = net \cup {m}
    /\ awaiting' = m /\ reply' = "none"
    /\ pc' = where
    /\ attested' = (attested \/ (m.kind = "abort" /\ m.rejected /\ ~gone))

\* The handler no longer waits for a control answer.
Resume(where) ==
    /\ pc' = where
    /\ awaiting' = NoMsg /\ reply' = "none"
    /\ UNCHANGED <<net, attested>>

Answered == reply = "ok"

\* The compensating abort; rejected is the providerRejected attestation.
Abort(rejected) ==
    /\ Call(Msg("abort", 0, rejected), "abort")
    /\ UNCHANGED <<op, row, tombstone, att, tries, started, caller, done, gone, wk, sweep>>

\* A mutation: the relay attests a rejection even for a vanished client.
AttestsAlways == op \in {"stream", "json", "embeddings", "e2ee"}

\* providerRejected: !clientGone in chat, embeddings and opaque E2EE; the media
\* handlers never attest.
Attests == op # "media" /\ ~gone
----------------------------------------------------------------------------
(* The relay handler up to the first dispatch.                             *)

SendAuthorize ==
    /\ pc = "start"
    /\ Call(Msg("authorize", 0, FALSE), "authorize")
    /\ UNCHANGED <<op, row, tombstone, att, tries, started, caller, done, gone, wk, sweep>>

AuthorizeOk ==
    /\ pc = "authorize" /\ Answered
    /\ Resume("authorized")
    /\ att' = 1
    /\ UNCHANGED <<op, row, tombstone, tries, started, caller, done, gone, wk, sweep>>

\* A refused, failed or cancelled authorize.  Chat and media compensate without
\* an attestation, embeddings with one, opaque E2EE not at all.
AuthorizeFail ==
    /\ pc = "authorize"
    /\ IF op = "e2ee"
       THEN /\ Resume("closed")
            /\ UNCHANGED <<op, row, tombstone, att, tries, started, caller, done, gone, wk, sweep>>
       ELSE Abort(op = "embeddings" /\ ~gone)

\* The handler refuses the authorized route (model type, streaming, tools or
\* vision support, a client that is already gone) before any dispatch.
RefuseRoute ==
    /\ pc = "authorized"
    /\ Abort(op \in {"embeddings", "e2ee"} /\ ~gone)

\* The capability loop before the first dispatch: a route that cannot serve
\* tools or vision is skipped for the next one of the plan.
AskCapable ==
    /\ pc = "authorized" /\ op \in Chat /\ ~gone
    /\ Call(Msg("next", att, FALSE), "skip")
    /\ UNCHANGED <<op, row, tombstone, att, tries, started, caller, done, gone, wk, sweep>>

SkipOk ==
    /\ pc = "skip" /\ Answered
    /\ Resume("authorized")
    /\ att' = att + 1
    /\ UNCHANGED <<op, row, tombstone, tries, started, caller, done, gone, wk, sweep>>

\* The plan holds no capable route: released without an attestation.
SkipExhausted ==
    /\ pc = "skip" /\ reply = "refused"
    /\ Abort(FALSE)

\* The loop runs outside the handler's try block: a failed RPC ends the request
\* and leaves the hold to the sweeper.
SkipFail ==
    /\ pc = "skip"
    /\ Resume("closed")
    /\ UNCHANGED <<op, row, tombstone, att, tries, started, caller, done, gone, wk, sweep>>

\* Hand attempt k to its credential worker, which first raises the
\* provider-attempt fence.
Dispatch(k) ==
    /\ pc' = "worker" /\ att' = k
    /\ wk' = [wk EXCEPT ![k] = "fencing"]
    /\ net' = net \cup {Msg("fence", k, FALSE)}
    /\ awaiting' = NoMsg /\ reply' = "none"

\* An already aborted signal makes the worker fetch throw before it is sent.
DispatchFirst ==
    /\ pc = "authorized" /\ ~gone
    /\ Dispatch(att)
    /\ UNCHANGED <<op, row, tombstone, tries, started, caller, done, gone, attested, sweep>>
----------------------------------------------------------------------------
(* The answer of the worker and the bounded fallback (chat only).          *)

\* The worker answers 200: the provider accepted the attempt.
WorkerOk ==
    /\ pc = "worker"
    /\ wk[att] \in {"accepted", "complete", "incomplete"}
    /\ CASE op \in {"json", "embeddings"} -> Call(Msg("settle", att, FALSE), "settle") /\ tries' = 1
         [] op = "media" -> Call(Msg("capture", att, FALSE), "capture") /\ tries' = 2
         [] op = "e2ee"  -> Call(Msg("capture", att, FALSE), "capture") /\ tries' = 1
         [] op = "stream" -> Resume("headers") /\ UNCHANGED tries
    /\ UNCHANGED <<op, row, tombstone, att, started, caller, done, gone, wk, sweep>>

\* The relay sees the attempt fail: an error answer, the 120 s headers
\* deadline, a reset connection, or its own client's disconnect.
WorkerFail ==
    /\ pc = "worker"
    /\ Resume("failed")
    /\ UNCHANGED <<op, row, tombstone, att, tries, started, caller, done, gone, wk, sweep>>

\* advanceToNextAttempt: a pre-output failure of a fallback-eligible class asks
\* the control plane for the next attempt of the plan.
AskNext ==
    /\ pc = "failed"
    /\ op \in Chat /\ ~gone
    /\ Call(Msg("next", att, FALSE), "next")
    /\ UNCHANGED <<op, row, tombstone, att, tries, started, caller, done, gone, wk, sweep>>

\* Not eligible, no fallback available, E2EE, or the client is gone.
GiveUp ==
    /\ pc = "failed"
    /\ Abort(Attests)

NextOk ==
    /\ pc = "next" /\ Answered /\ ~gone
    /\ Dispatch(awaiting.k + 1)
    /\ UNCHANGED <<op, row, tombstone, tries, started, caller, done, gone, attested, sweep>>

\* The authorized route cannot serve tools or vision: ask for the one after it.
NextIncapable ==
    /\ pc = "next" /\ Answered
    /\ Call(Msg("next", awaiting.k + 1, FALSE), "next")
    /\ UNCHANGED <<op, row, tombstone, att, tries, started, caller, done, gone, wk, sweep>>

\* The plan is exhausted, or the RPC failed.
NextFail ==
    /\ pc = "next"
    /\ Abort(Attests)
----------------------------------------------------------------------------
(* Completion of the non-streamed operations.                              *)

\* The full response is returned to the caller.
Respond ==
    /\ caller' = (IF gone THEN caller ELSE att)
    /\ done' = ~gone
    /\ Resume("closed")

SettleOk ==
    /\ pc = "settle" /\ Answered /\ op # "stream"
    /\ Respond
    /\ UNCHANGED <<op, row, tombstone, att, tries, started, gone, wk, sweep>>

\* The settle call of chat sits in the same try block as the worker call: a
\* reset connection to the control plane is classified like a provider
\* transport failure, any other failure is not eligible.
SettleNetworkFail ==
    /\ pc = "settle" /\ op = "json"
    /\ Resume("failed")
    /\ UNCHANGED <<op, row, tombstone, att, tries, started, caller, done, gone, wk, sweep>>

SettleFail ==
    /\ pc = "settle" /\ op \in {"json", "embeddings"}
    /\ Abort(Attests)

\* Media capture, then return the image or the audio whatever it answered.
\* Opaque E2EE returns the ciphertext only after its capture.
CaptureOk ==
    /\ pc = "capture" /\ Answered
    /\ Respond
    /\ UNCHANGED <<op, row, tombstone, att, tries, started, gone, wk, sweep>>

CaptureRetry ==
    /\ pc = "capture" /\ tries > 1
    /\ Call(awaiting, "capture")
    /\ tries' = tries - 1
    /\ UNCHANGED <<op, row, tombstone, att, started, caller, done, gone, wk, sweep>>

CapturePending ==
    /\ pc = "capture" /\ tries = 1 /\ op = "media"
    /\ Respond
    /\ UNCHANGED <<op, row, tombstone, att, tries, started, gone, wk, sweep>>

CaptureFail ==
    /\ pc = "capture" /\ op = "e2ee"
    /\ Abort(Attests)

\* The answer of a compensating abort is ignored.
AbortEnds ==
    /\ pc = "abort"
    /\ Resume("closed")
    /\ UNCHANGED <<op, row, tombstone, att, tries, started, caller, done, gone, wk, sweep>>
----------------------------------------------------------------------------
(* The streaming branch after the SSE headers are written.                 *)

\* The first chunk: the durable delivery fence comes before the first byte.
SendDelivery ==
    /\ pc = "headers"
    /\ Call(Msg("delivery", 0, FALSE), "fence")
    /\ UNCHANGED <<op, row, tombstone, att, tries, started, caller, done, gone, wk, sweep>>

\* A mutation: the first chunk is written while the fence is still unanswered.
DeliverBeforeFence ==
    /\ pc = "fence"
    /\ Resume("streaming")
    /\ started' = TRUE
    /\ caller' = IF gone THEN caller ELSE att
    /\ UNCHANGED <<op, row, tombstone, att, tries, done, gone, wk, sweep>>

DeliveryOk ==
    /\ pc = "fence" /\ Answered
    /\ Resume("streaming")
    /\ started' = TRUE
    /\ caller' = IF gone THEN caller ELSE att
    /\ UNCHANGED <<op, row, tombstone, att, tries, done, gone, wk, sweep>>

\* The stream ended and its usage sideband was read: settleWithRetry.
StreamComplete ==
    /\ pc \in {"headers", "streaming"} /\ wk[att] = "complete"
    /\ Call(Msg("settle", att, FALSE), "settle")
    /\ tries' = 2
    /\ UNCHANGED <<op, row, tombstone, att, started, caller, done, gone, wk, sweep>>

\* A mutation: [DONE] is written when the settle request is sent.
DoneBeforeSettle ==
    /\ pc = "settle" /\ op = "stream" /\ ~gone
    /\ done' = TRUE
    /\ Resume("closed")
    /\ UNCHANGED <<op, row, tombstone, att, tries, started, caller, gone, wk, sweep>>

\* finalizeThenWriteDone: [DONE] follows the settlement.
StreamSettleOk ==
    /\ pc = "settle" /\ op = "stream" /\ Answered /\ ~gone
    /\ done' = TRUE
    /\ Resume("closed")
    /\ UNCHANGED <<op, row, tombstone, att, tries, started, caller, gone, wk, sweep>>

StreamSettleRetry ==
    /\ pc \in {"settle", "partial"} /\ op = "stream" /\ tries > 1
    /\ Call(awaiting, pc)
    /\ tries' = tries - 1
    /\ UNCHANGED <<op, row, tombstone, att, started, caller, done, gone, wk, sweep>>

\* The catch block: what is delivered is captured, what is not is aborted.
StreamFails ==
    /\ IF started
       THEN Call(Msg("capture", att, FALSE), "streamcapture")
       ELSE Call(Msg("abort", 0, ~gone), "streamabort")
    /\ UNCHANGED <<op, row, tombstone, att, tries, started, caller, done, gone, wk, sweep>>

\* The delivery fence failed, both settles failed, or [DONE] met a closed
\* socket after the settlement.
StreamFailsOnControl ==
    /\ pc \in {"fence", "settle", "partial"} /\ op = "stream"
    /\ pc = "fence" \/ tries = 1 \/ (pc = "settle" /\ Answered /\ gone)
    /\ StreamFails

\* The stream broke off or the client went away.
StreamFailsOnStream ==
    /\ pc \in {"headers", "streaming"}
    /\ StreamFails

\* A truncated stream whose partial output was delivered: settle what the
\* worker measured before falling back to the capture.
StreamPartial ==
    /\ pc = "streaming" /\ wk[att] = "incomplete" /\ ~gone
    /\ Call(Msg("settle", att, FALSE), "partial")
    /\ tries' = 2
    /\ UNCHANGED <<op, row, tombstone, att, started, caller, done, gone, wk, sweep>>

\* Finalized: error frame and [DONE].
StreamErrorDone ==
    /\ pc \in {"partial", "streamcapture", "streamabort"} /\ Answered
    /\ done' = ~gone
    /\ Resume("closed")
    /\ UNCHANGED <<op, row, tombstone, att, tries, started, caller, gone, wk, sweep>>

\* Not finalized: the socket is destroyed without a terminal marker.
StreamDestroyed ==
    /\ pc \in {"streamcapture", "streamabort"}
    /\ Resume("closed")
    /\ UNCHANGED <<op, row, tombstone, att, tries, started, caller, done, gone, wk, sweep>>
----------------------------------------------------------------------------
(* The client and the relay process.                                       *)

ClientDisconnects ==
    /\ Running /\ ~gone
    /\ gone' = TRUE
    /\ UNCHANGED <<op, ledgerVars, net, relayVars, wk, sweep>>

RelayCrash ==
    /\ Running
    /\ pc' = "crashed"
    /\ awaiting' = NoMsg /\ reply' = "none"
    /\ UNCHANGED <<op, row, tombstone, net, att, tries, started, caller, done, gone,
                   attested, wk, sweep>>
----------------------------------------------------------------------------
(* The credential worker and its provider.                                 *)

\* A mutation: the worker goes upstream without waiting for the fence.
WorkerDispatchUnfenced(k) ==
    /\ wk[k] \in {"fencing", "granted"}
    /\ wk' = [wk EXCEPT ![k] = "dispatched"]
    /\ UNCHANGED <<op, ledgerVars, net, relayVars, gone, sweep>>

\* The fence answered 200: the request goes upstream.
WorkerDispatch(k) ==
    /\ wk[k] = "granted"
    /\ wk' = [wk EXCEPT ![k] = "dispatched"]
    /\ UNCHANGED <<op, ledgerVars, net, relayVars, gone, sweep>>

\* The provider accepts: its work is billable from here on.
ProviderAccepts(k) ==
    /\ wk[k] = "dispatched"
    /\ wk' = [wk EXCEPT ![k] = "accepted"]
    /\ UNCHANGED <<op, ledgerVars, net, relayVars, gone, sweep>>

\* A stream ends with its terminal sidebands, or without them.
StreamEnds(k) ==
    /\ op = "stream" /\ wk[k] = "accepted"
    /\ \E end \in {"complete", "incomplete"} : wk' = [wk EXCEPT ![k] = end]
    /\ UNCHANGED <<op, ledgerVars, net, relayVars, gone, sweep>>

\* The fence was refused, timed out or its answer was lost; the provider
\* rejected the request or the connection to it broke; or the worker died.
WorkerFails(k) ==
    /\ wk[k] \in {"fencing", "granted", "refused", "dispatched"}
    /\ wk' = [wk EXCEPT ![k] = "failed"]
    /\ UNCHANGED <<op, ledgerVars, net, relayVars, gone, sweep>>
----------------------------------------------------------------------------
(* The control plane's handlers.                                           *)

\* Take m off the network and answer it if its sender still waits.
Handle(m, answer) ==
    /\ m \in net
    /\ net' = net \ {m}
    /\ reply' = IF awaiting = m THEN answer ELSE reply
    /\ UNCHANGED <<op, pc, att, awaiting, tries, started, caller, done, gone, attested, sweep>>

\* authorize (external handler around reserveBalance).  A tombstone left by an
\* earlier abort refuses it; so may an admission check; a repeat finds the row.
HandleAuthorize ==
    LET m == Msg("authorize", 0, FALSE) IN
    /\ UNCHANGED <<tombstone, wk>>
    /\ \/ /\ ~tombstone /\ row.status = "none"
          /\ row' = NewRow
          /\ Handle(m, "ok")
       \/ /\ UNCHANGED row
          /\ Handle(m, "refused")

\* authorize-next-attempt (external handler around
\* updateInferenceReservationRoute): the cursor moves along the bounded plan
\* while the row is held.
HandleNext(m) ==
    /\ m.kind = "next"
    /\ UNCHANGED <<tombstone, wk>>
    /\ IF Held(row) /\ row.route = m.k /\ m.k < MaxAttempts
       THEN row' = UpdateRoute(row, m.k + 1) /\ Handle(m, "ok")
       ELSE UNCHANGED row /\ Handle(m, "refused")

\* dispatch-attempt (external token check around
\* markInferenceProviderAttemptStarted).  The provider kill switch may refuse.
HandleFence(m) ==
    LET allowed == AttemptAllowed(row) IN
    /\ m.kind = "fence"
    /\ Handle(m, "none")
    /\ UNCHANGED tombstone
    /\ \/ /\ allowed
          /\ row' = MarkAttempt(row)
          /\ wk' = [wk EXCEPT ![m.k] = IF @ = "fencing" THEN "granted" ELSE @]
       \/ /\ UNCHANGED row
          /\ wk' = [wk EXCEPT ![m.k] = IF @ = "fencing" THEN "refused" ELSE @]

HandleDelivery ==
    /\ Handle(Msg("delivery", 0, FALSE), IF DeliveryAllowed(row) THEN "ok" ELSE "refused")
    /\ row' = MarkDelivery(row)
    /\ UNCHANGED <<tombstone, wk>>

\* settle and capture: finalizeInferenceReservation prices the reported usage at
\* the route the row points to.
HandleFinalize(m) ==
    /\ m.kind \in {"settle", "capture"}
    /\ Handle(m, "ok")
    /\ row' = Finalize(row, m.kind, FALSE,
                       IF m.kind = "settle" /\ row.route # 0 THEN Cost(m.k, row.route) ELSE 0)
    /\ UNCHANGED <<tombstone, wk>>

\* abort also leaves the tombstone that refuses a later authorize.
HandleAbort(m) ==
    /\ m.kind = "abort"
    /\ Handle(m, "ok")
    /\ row' = Finalize(row, "abort", m.rejected, 0)
    /\ tombstone' = TRUE
    /\ UNCHANGED wk
----------------------------------------------------------------------------
(* releaseStaleBalanceReservations: the outcome is chosen from a SELECT,   *)
(* the row is finalized later in a transaction of its own.  The age limit  *)
(* is left out: a handler may outlive it, so every held row may be stale.  *)

\* A mutation: only rows with a fence on them are swept.
SweepSelectFencedOnly ==
    /\ sweep = "idle" /\ Held(row) /\ (row.attempt \/ row.delivery)
    /\ sweep' = "capture"
    /\ UNCHANGED <<op, ledgerVars, net, relayVars, gone, wk>>

SweepSelect ==
    /\ sweep = "idle" /\ Held(row)
    /\ sweep' = IF row.attempt \/ row.delivery THEN "capture" ELSE "abort"
    /\ UNCHANGED <<op, ledgerVars, net, relayVars, gone, wk>>

SweepFinalize ==
    /\ sweep # "idle"
    /\ row' = Finalize(row, sweep, FALSE, 0)
    /\ sweep' = "idle"
    /\ UNCHANGED <<op, tombstone, net, relayVars, gone, wk>>
----------------------------------------------------------------------------
Relay ==
    \/ SendAuthorize \/ AuthorizeOk \/ AuthorizeFail \/ RefuseRoute
    \/ AskCapable \/ SkipOk \/ SkipExhausted \/ SkipFail \/ DispatchFirst
    \/ WorkerOk \/ WorkerFail \/ AskNext \/ GiveUp \/ NextOk \/ NextIncapable \/ NextFail
    \/ SettleOk \/ SettleNetworkFail \/ SettleFail
    \/ CaptureOk \/ CaptureRetry \/ CapturePending \/ CaptureFail \/ AbortEnds
    \/ SendDelivery \/ DeliveryOk \/ StreamComplete \/ StreamSettleOk
    \/ StreamSettleRetry \/ StreamFailsOnControl \/ StreamFailsOnStream
    \/ StreamPartial \/ StreamErrorDone \/ StreamDestroyed

Worker(k) ==
    \/ WorkerDispatch(k) \/ ProviderAccepts(k) \/ StreamEnds(k) \/ WorkerFails(k)

Control ==
    \/ HandleAuthorize \/ HandleDelivery
    \/ \E m \in net : HandleNext(m) \/ HandleFence(m) \/ HandleFinalize(m) \/ HandleAbort(m)

Sweeper == SweepSelect \/ SweepFinalize

Next ==
    \/ Relay \/ Control \/ Sweeper
    \/ \E k \in Attempts : Worker(k)
    \/ ClientDisconnects \/ RelayCrash

Spec == Init /\ [][Next]_vars

\* The sweeper runs on a timer of the control plane, whatever the relay does.
FairSpec == Spec /\ WF_vars(Sweeper)
----------------------------------------------------------------------------
Rows == [status : Statuses, reserved : Nat, charged : Nat, attempt : BOOLEAN,
         delivery : BOOLEAN, route : 0 .. MaxAttempts]

TypeOK ==
    /\ op \in Ops
    /\ row \in Rows
    /\ tombstone \in BOOLEAN
    /\ net \subseteq Messages
    /\ pc \in PCs
    /\ att \in 0 .. MaxAttempts
    /\ awaiting \in Messages \cup {NoMsg}
    /\ reply \in {"none", "ok", "refused"}
    /\ tries \in 0 .. 2
    /\ started \in BOOLEAN
    /\ caller \in 0 .. MaxAttempts
    /\ done \in BOOLEAN
    /\ gone \in BOOLEAN
    /\ attested \in BOOLEAN
    /\ wk \in [Attempts -> WorkerStates]
    /\ sweep \in {"idle", "capture", "abort"}

\* What a request whose output reached the caller may have been charged.
FairCharges ==
    CASE op \in {"stream", "embeddings"} -> {Least(Cost(caller, caller), Reserved), Reserved}
      [] op \in {"media", "e2ee"} -> {Reserved}
      [] op = "json" -> 1 .. Reserved

\* Model output that reached the caller is paid for: whichever of settle,
\* capture, abort and the stale sweep finalizes the row first, however late the
\* others arrive, the row is never released for zero, and a stream or an
\* embedding is charged its measured cost on the serving route or the ceiling
\* (markInferenceDeliveryStarted: "must never release the request for zero").
DeliveredIsPaid == (caller # 0 /\ Finalized(row)) => row.charged \in FairCharges

\* Nobody is charged for a request whose provider attempt was never fenced:
\* every charge, the sweeper's and a late capture's included, follows
\* markInferenceProviderAttemptStarted.
ChargedWasFenced == row.charged > 0 => row.attempt

\* The public completion marker is a durable promise: [DONE], or a full JSON,
\* embeddings or ciphertext response, is sent only once the row is terminal.
\* (The media handlers deliver while their capture is still pending.)
DoneIsDurable == (done /\ op # "media") => Finalized(row)

\* "The durable fence must commit before any model output is written": once the
\* stream delivered anything, the row says so, whatever finalized it meanwhile
\* and however late the answer of the fence came (routes/chat.ts).
StreamedIsFenced == started => row.delivery

\* A fenced attempt is released for zero only on an attestation that the relay
\* gave while its client was connected: a disconnect, a crash, a sweep or a lost
\* message never yields free provider work (AbortRpcRequest.providerRejected).
FencedReleaseIsAttested == (row.status = "released" /\ row.attempt) => attested

\* A terminal row never changes again, whatever late, repeated or reordered
\* message arrives (finalizeInferenceReservation, "Idempotent").
TerminalRowIsFrozen == [][Finalized(row) => row' = row]_vars

\* Every hold is eventually finalized, although the relay may crash, skip its
\* compensation or lose every message it sends.
HoldsAreFinalized == Held(row) ~> Finalized(row)

\* The request as its caller and its operator know it.
Prepaid == INSTANCE PrepaidRequest WITH
    Amount <- Reserved, Tries <- Attempts,
    hold <- row.status, charge <- row.charged, fenced <- row.attempt, owed <- row.delivery,
    upstream <- {k \in Attempts : wk[k] \in {"dispatched", "accepted", "complete", "incomplete"}},
    present <- ~gone, streamed <- started, completed <- done /\ op # "media"

\* Whatever is lost, late, repeated or crashes, and however relay, workers and
\* sweeper interleave, the request is a prepaid request: each of their steps is
\* a step of that contract or invisible to it, and its hold ends.  (The
\* comments of billing.ts on markInferenceProviderAttemptStarted,
\* markInferenceDeliveryStarted and releaseStaleBalanceReservations.)
IsPrepaidRequest == Prepaid!PrepaidSpec

\* Every outcome is justified: a charge by a fence, a release of a fenced
\* attempt by an attestation.
OutcomeIsJustified == ChargedWasFenced /\ FencedReleaseIsAttested

\* What the caller was given is backed by the row: streamed output by the
\* delivery fence, a completion by the end of the hold.
OutputIsBacked == StreamedIsFenced /\ DoneIsDurable

----------------------------------------------------------------------------
(* Two statements of the source that the code does not keep.               *)

\* routes/chat.ts on a failed delivery fence: the earlier provider-attempt
\* fence "still governs conservative capture", so the row is not released.
FailedDeliveryFenceCaptures ==
    (Msg("delivery", 0, FALSE) \in net /\ pc # "fence") => row.status # "released"

\* rpc.ts: the next provider attempt is authorized "after a sanitized failure of
\* the previous one", so never while this attempt's settlement is on its way.
FallbackFollowsFailure ==
    pc = "next" => Msg("settle", att, FALSE) \notin net
============================================================================

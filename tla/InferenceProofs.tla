-------------------------- MODULE InferenceProofs --------------------------
(***************************************************************************)
(* Safety of one inference request for every plan length, hold, usage and  *)
(* price: the type invariant, that a charge follows the fence, that a      *)
(* fenced attempt is released only on an attestation, that a completion    *)
(* marker is durable, that a terminal row is frozen, and that output which *)
(* reached the caller is paid for.                                         *)
(***************************************************************************)
EXTENDS Inference, TLAPS

Granted == {"granted", "dispatched", "accepted", "complete", "incomplete"}
Finalizers == {"settle", "capture"}

\* Where the relay serves the output of an attempt, and where it has a plan.
Serving == {"headers", "fence", "streaming", "settle", "partial", "capture",
            "streamcapture", "streamabort"}
Planned == Serving \cup {"authorized", "skip", "worker", "failed", "next"}

RowInv ==
    /\ row.status = "none" => ~row.attempt /\ row.charged = 0
    /\ Held(row) => row.reserved = Reserved /\ row.route \in Attempts /\ row.charged = 0
    /\ row.delivery => row.attempt
    /\ ChargedWasFenced
    /\ FencedReleaseIsAttested

\* Everything that lets a charge happen comes after the attempt was fenced.
FenceInv ==
    /\ \A k \in Attempts : wk[k] \in Granted => row.attempt
    /\ \A m \in net : m.kind \in Finalizers => row.attempt
    /\ pc \in Serving => row.attempt
    /\ sweep = "capture" => row.attempt

MessageInv ==
    /\ \A m \in net : m.kind \in Finalizers \cup {"fence", "next"} => m.k \in Attempts
    /\ \A m \in net : m.kind = "abort" /\ m.rejected => attested

\* The request the relay waits for is the one its place in the handler sent.
Awaits(m, where, k) ==
    /\ where \in {"settle", "partial"} => m.kind = "settle"
    /\ where \in {"capture", "streamcapture"} => m.kind = "capture"
    /\ where = "streamabort" => m.kind = "abort"
    /\ where \in {"skip", "next"} => m.kind = "next"
    /\ where = "skip" => m.k = k
    /\ m.kind \in Finalizers \cup {"next"} => m.k \in Attempts

RelayInv == (pc \in Planned => att \in Attempts) /\ Awaits(awaiting, pc, att)

\* What a positive answer on its way to the relay means for the ledger.
ReplyInv ==
    reply = "ok" =>
      /\ awaiting.kind = "next" => awaiting.k < MaxAttempts
      /\ awaiting.kind \in Finalizers => Finalized(row)
      /\ awaiting.kind = "abort" => tombstone /\ ~Held(row)

IInv == TypeOK /\ RowInv /\ FenceInv /\ MessageInv /\ RelayInv /\ ReplyInv /\ DoneIsDurable

USE MaxAttemptsAssumption, OpsAssumption, ReservedAssumption DEF Attempts
----------------------------------------------------------------------------
LEMMA IInvInit == Init => IInv
  <1> SUFFICES ASSUME Init PROVE IInv
    OBVIOUS
  <1>1. TypeOK
    <2>1. row \in Rows
      BY DEF Init, NoRow, Rows, Statuses
    <2>2. awaiting \in Messages \cup {NoMsg} /\ net \subseteq Messages
      BY DEF Init
    <2>3. wk \in [Attempts -> WorkerStates]
      BY DEF Init, WorkerStates
    <2>4. pc \in PCs /\ reply \in {"none", "ok", "refused"} /\ sweep \in {"idle", "capture", "abort"}
      BY DEF Init, PCs
    <2>5. att \in 0 .. MaxAttempts /\ caller \in 0 .. MaxAttempts /\ tries \in 0 .. 2
      BY DEF Init
    <2>6. /\ tombstone \in BOOLEAN /\ started \in BOOLEAN /\ done \in BOOLEAN
          /\ gone \in BOOLEAN /\ attested \in BOOLEAN /\ op \in Ops
      BY DEF Init
    <2> QED BY <2>1, <2>2, <2>3, <2>4, <2>5, <2>6 DEF TypeOK
  <1>2. RowInv
    BY DEF Init, RowInv, NoRow, Held, ChargedWasFenced, FencedReleaseIsAttested
  <1>3. FenceInv /\ MessageInv
    BY DEF Init, FenceInv, MessageInv, Granted, Serving
  <1>4. RelayInv /\ ReplyInv /\ DoneIsDurable
    BY DEF Init, RelayInv, Awaits, ReplyInv, DoneIsDurable, NoMsg, Msg, Finalizers, Planned,
           Serving
  <1> QED BY <1>1, <1>2, <1>3, <1>4 DEF IInv
----------------------------------------------------------------------------
(* The three ways a step of the relay ends: it sends a control request and *)
(* waits, it goes on without waiting, or it dispatches an attempt.         *)

LEMMA CallKeeps ==
    ASSUME IInv, NEW m \in Messages, NEW where \in PCs, Call(m, where),
           UNCHANGED <<op, row, tombstone, att, caller, started, done, gone, wk, sweep>>,
           tries' \in 0 .. 2,
           m.kind \in Finalizers => row.attempt,
           m.kind = "fence" => FALSE,
           m.kind = "abort" /\ m.rejected => ~gone,
           where \in Serving => row.attempt,
           where \in Planned => att \in Attempts,
           Awaits(m, where, att)
    PROVE  IInv'
  <1>1. TypeOK'
    BY DEF IInv, TypeOK, Call
  <1>2. RowInv'
    BY DEF IInv, RowInv, Call, Held, ChargedWasFenced, FencedReleaseIsAttested
  <1>3. FenceInv'
    BY DEF IInv, FenceInv, Call
  <1>4. MessageInv'
    BY DEF IInv, MessageInv, Call, TypeOK, Awaits
  <1>5. RelayInv' /\ ReplyInv'
    BY DEF RelayInv, ReplyInv, Call, Awaits
  <1>6. DoneIsDurable'
    BY DEF IInv, DoneIsDurable, Finalized
  <1> QED BY <1>1, <1>2, <1>3, <1>4, <1>5, <1>6 DEF IInv

LEMMA ResumeKeeps ==
    ASSUME IInv, NEW where \in {"closed", "authorized", "failed", "headers", "streaming"},
           Resume(where),
           UNCHANGED <<op, row, tombstone, tries, gone, wk, sweep>>,
           att' \in 0 .. MaxAttempts, caller' \in 0 .. MaxAttempts, started' \in BOOLEAN,
           done' \in BOOLEAN, DoneIsDurable',
           where \in Serving => row.attempt,
           where \in Planned => att' \in Attempts
    PROVE  IInv'
  <1>1. TypeOK'
    BY DEF IInv, TypeOK, Resume, PCs
  <1>2. RowInv' /\ FenceInv' /\ MessageInv'
    BY DEF IInv, RowInv, FenceInv, MessageInv, Resume, Held, ChargedWasFenced,
           FencedReleaseIsAttested, Serving
  <1>3. RelayInv' /\ ReplyInv'
    BY DEF RelayInv, ReplyInv, Resume, Awaits, NoMsg, Msg, Finalizers, Planned, Serving
  <1> QED BY <1>1, <1>2, <1>3 DEF IInv

LEMMA DispatchKeeps ==
    ASSUME IInv, NEW k \in Attempts, Dispatch(k),
           UNCHANGED <<op, row, tombstone, tries, started, caller, done, gone, attested, sweep>>
    PROVE  IInv'
  <1>1. TypeOK'
    <2>1. Msg("fence", k, FALSE) \in Messages
      BY DEF Messages, Kinds, Msg
    <2>2. wk' \in [Attempts -> WorkerStates]
      BY DEF IInv, TypeOK, Dispatch, WorkerStates
    <2>3. net' \subseteq Messages
      BY <2>1 DEF IInv, TypeOK, Dispatch
    <2>4. att' \in 0 .. MaxAttempts
      BY DEF Dispatch
    <2>5. pc' \in PCs
      BY DEF Dispatch, PCs
    <2>6. awaiting' \in Messages \cup {NoMsg} /\ reply' \in {"none", "ok", "refused"}
      BY DEF Dispatch
    <2> QED BY <2>2, <2>3, <2>4, <2>5, <2>6 DEF IInv, TypeOK
  <1>2. RowInv'
    BY DEF IInv, RowInv, Held, ChargedWasFenced, FencedReleaseIsAttested
  <1>3. FenceInv'
    BY DEF IInv, TypeOK, FenceInv, Dispatch, Msg, Finalizers, Serving, Granted
  <1>4. MessageInv'
    BY DEF IInv, MessageInv, Dispatch, Msg
  <1>5. RelayInv' /\ ReplyInv'
    BY DEF RelayInv, ReplyInv, Dispatch, Awaits, NoMsg, Msg, Finalizers
  <1>6. DoneIsDurable'
    BY DEF IInv, DoneIsDurable, Finalized
  <1> QED BY <1>1, <1>2, <1>3, <1>4, <1>5, <1>6 DEF IInv
----------------------------------------------------------------------------
(* The steps of the relay.                                                 *)

\* The compensating abort is always safe to send, as long as it attests a
\* rejection only for a connected client.
LEMMA AbortKeeps ==
    ASSUME IInv, NEW rejected \in BOOLEAN, Abort(rejected), rejected => ~gone
    PROVE  IInv'
  <1> DEFINE m == Msg("abort", 0, rejected)
  <1>1. m \in Messages /\ m.kind = "abort" /\ m.rejected = rejected
    BY DEF Msg, Messages, Kinds
  <1>2. Call(m, "abort") /\ tries' \in 0 .. 2
    BY DEF Abort, IInv, TypeOK
  <1>3. UNCHANGED <<op, row, tombstone, att, caller, started, done, gone, wk, sweep>>
    BY DEF Abort
  <1> HIDE DEF m
  <1>4. Awaits(m, "abort", att) /\ "abort" \in PCs /\ "abort" \notin Planned
    BY <1>1 DEF Awaits, Finalizers, PCs, Planned, Serving
  <1> QED BY <1>1, <1>2, <1>3, <1>4, CallKeeps DEF Finalizers, Planned

LEMMA BeforeDispatchKeeps ==
    ASSUME IInv, \/ SendAuthorize \/ AuthorizeOk \/ AuthorizeFail \/ RefuseRoute
                 \/ AskCapable \/ SkipOk \/ SkipExhausted \/ SkipFail \/ DispatchFirst
    PROVE  IInv'
  <1>0. TypeOK /\ RelayInv /\ FenceInv /\ DoneIsDurable
    BY DEF IInv
  <1>1. CASE SendAuthorize
    <2> DEFINE m == Msg("authorize", 0, FALSE)
    <2>1. m \in Messages /\ m.kind = "authorize"
      BY DEF Msg, Messages, Kinds
    <2>2. Call(m, "authorize") /\ tries' \in 0 .. 2
          /\ UNCHANGED <<op, row, tombstone, att, caller, started, done, gone, wk, sweep>>
      BY <1>0, <1>1 DEF SendAuthorize, TypeOK
    <2> HIDE DEF m
    <2>3. Awaits(m, "authorize", att) /\ "authorize" \in PCs /\ "authorize" \notin Planned
      BY <2>1 DEF Awaits, Finalizers, PCs, Planned, Serving
    <2> QED BY <2>1, <2>2, <2>3, CallKeeps DEF Finalizers, Planned
  <1>2. CASE AuthorizeOk
    BY <1>0, <1>2, ResumeKeeps DEF AuthorizeOk, TypeOK, DoneIsDurable, Serving, Finalized
  <1>3. CASE AuthorizeFail
    <2>1. CASE op = "e2ee"
      BY <1>0, <1>3, <2>1, ResumeKeeps
      DEF AuthorizeFail, TypeOK, DoneIsDurable, Serving, Planned, Finalized
    <2>2. CASE op # "e2ee"
      BY <1>3, <2>2, AbortKeeps DEF AuthorizeFail
    <2> QED BY <2>1, <2>2
  <1>4. CASE RefuseRoute
    BY <1>4, AbortKeeps DEF RefuseRoute
  <1>5. CASE AskCapable
    <2> DEFINE m == Msg("next", att, FALSE)
    <2>1. att \in Attempts
      BY <1>0, <1>5 DEF AskCapable, RelayInv, Planned
    <2>2. m \in Messages /\ m.kind = "next" /\ m.k = att
      BY <2>1 DEF Msg, Messages, Kinds
    <2>3. Call(m, "skip") /\ tries' \in 0 .. 2
          /\ UNCHANGED <<op, row, tombstone, att, caller, started, done, gone, wk, sweep>>
      BY <1>0, <1>5 DEF AskCapable, TypeOK
    <2> HIDE DEF m
    <2>4. Awaits(m, "skip", att) /\ "skip" \in PCs /\ "skip" \notin Serving
      BY <2>1, <2>2 DEF Awaits, PCs, Serving
    <2> QED BY <2>1, <2>2, <2>3, <2>4, CallKeeps DEF Finalizers
  <1>6. CASE SkipOk
    <2>1. att \in Attempts /\ att + 1 \in Attempts
      BY <1>0, <1>6 DEF SkipOk, Answered, RelayInv, Awaits, Planned, IInv, ReplyInv
    <2> QED BY <1>0, <1>6, <2>1, ResumeKeeps DEF SkipOk, TypeOK, DoneIsDurable, Serving, Finalized
  <1>7. CASE SkipExhausted
    BY <1>7, AbortKeeps DEF SkipExhausted
  <1>8. CASE SkipFail
    BY <1>0, <1>8, ResumeKeeps DEF SkipFail, TypeOK, DoneIsDurable, Serving, Planned, Finalized
  <1>9. CASE DispatchFirst
    <2>1. att \in Attempts
      BY <1>0, <1>9 DEF DispatchFirst, RelayInv, Planned
    <2> QED BY <1>9, <2>1, DispatchKeeps DEF DispatchFirst
  <1> QED BY <1>1, <1>2, <1>3, <1>4, <1>5, <1>6, <1>7, <1>8, <1>9

LEMMA AnswerKeeps ==
    ASSUME IInv, \/ WorkerOk \/ WorkerFail \/ AskNext \/ GiveUp \/ NextOk
                 \/ NextIncapable \/ NextFail
    PROVE  IInv'
  <1>0. TypeOK /\ RelayInv /\ FenceInv /\ DoneIsDurable
    BY DEF IInv
  <1>1. CASE WorkerOk
    <2>1. att \in Attempts /\ row.attempt
      BY <1>0, <1>1 DEF WorkerOk, RelayInv, FenceInv, Planned, Granted
    <2>2. UNCHANGED <<op, row, tombstone, att, caller, started, done, gone, wk, sweep>>
      BY <1>1 DEF WorkerOk
    <2>3. CASE op \in {"json", "embeddings"}
      <3> DEFINE m == Msg("settle", att, FALSE)
      <3>1. m \in Messages /\ m.kind = "settle" /\ m.k = att
        BY <2>1 DEF Msg, Messages, Kinds
      <3>2. Call(m, "settle") /\ tries' = 1
        BY <1>1, <2>3 DEF WorkerOk
      <3> HIDE DEF m
      <3>3. Awaits(m, "settle", att) /\ "settle" \in PCs
        BY <2>1, <3>1 DEF Awaits, PCs
      <3> QED BY <2>1, <2>2, <3>1, <3>2, <3>3, CallKeeps
    <2>4. CASE op \in {"media", "e2ee"}
      <3> DEFINE m == Msg("capture", att, FALSE)
      <3>1. m \in Messages /\ m.kind = "capture" /\ m.k = att
        BY <2>1 DEF Msg, Messages, Kinds
      <3>2. Call(m, "capture") /\ tries' \in {1, 2}
        <4>1. CASE op = "media"
          BY <1>1, <4>1 DEF WorkerOk
        <4>2. CASE op = "e2ee"
          BY <1>1, <4>2 DEF WorkerOk
        <4> QED BY <2>4, <4>1, <4>2
      <3> HIDE DEF m
      <3>3. Awaits(m, "capture", att) /\ "capture" \in PCs
        BY <2>1, <3>1 DEF Awaits, PCs
      <3> QED BY <2>1, <2>2, <3>1, <3>2, <3>3, CallKeeps
    <2>5. CASE op = "stream"
      <3>1. Resume("headers") /\ UNCHANGED tries
        BY <1>1, <2>5 DEF WorkerOk
      <3> QED BY <1>0, <2>1, <2>2, <3>1, ResumeKeeps DEF TypeOK, DoneIsDurable, Finalized
    <2>6. op \in {"json", "embeddings", "media", "e2ee", "stream"}
      BY <1>0 DEF TypeOK, AllOps
    <2> QED BY <2>3, <2>4, <2>5, <2>6
  <1>2. CASE WorkerFail
    <2>1. att \in Attempts
      BY <1>0, <1>2 DEF WorkerFail, RelayInv, Planned
    <2> QED BY <1>0, <1>2, <2>1, ResumeKeeps DEF WorkerFail, TypeOK, DoneIsDurable, Serving, Finalized
  <1>3. CASE AskNext
    <2> DEFINE m == Msg("next", att, FALSE)
    <2>1. att \in Attempts
      BY <1>0, <1>3 DEF AskNext, RelayInv, Planned
    <2>2. m \in Messages /\ m.kind = "next" /\ m.k = att
      BY <2>1 DEF Msg, Messages, Kinds
    <2>3. Call(m, "next") /\ tries' \in 0 .. 2
          /\ UNCHANGED <<op, row, tombstone, att, caller, started, done, gone, wk, sweep>>
      BY <1>0, <1>3 DEF AskNext, TypeOK
    <2> HIDE DEF m
    <2>4. Awaits(m, "next", att) /\ "next" \in PCs /\ "next" \notin Serving
      BY <2>1, <2>2 DEF Awaits, PCs, Serving
    <2> QED BY <2>1, <2>2, <2>3, <2>4, CallKeeps DEF Finalizers
  <1>4. CASE GiveUp
    BY <1>4, AbortKeeps DEF GiveUp, Attests
  <1>5. CASE NextOk
    <2>1. awaiting.k + 1 \in Attempts
      BY <1>0, <1>5 DEF NextOk, Answered, RelayInv, Awaits, IInv, ReplyInv
    <2> QED BY <1>5, <2>1, DispatchKeeps DEF NextOk
  <1>6. CASE NextIncapable
    <2> DEFINE k == awaiting.k + 1
               m == Msg("next", k, FALSE)
    <2>1. k \in Attempts /\ att \in Attempts
      BY <1>0, <1>6 DEF NextIncapable, Answered, RelayInv, Awaits, IInv, ReplyInv, Planned
    <2> HIDE DEF k
    <2>2. m \in Messages /\ m.kind = "next" /\ m.k = k
      BY <2>1 DEF Msg, Messages, Kinds
    <2>3. Call(m, "next") /\ tries' \in 0 .. 2
          /\ UNCHANGED <<op, row, tombstone, att, caller, started, done, gone, wk, sweep>>
      BY <1>0, <1>6 DEF NextIncapable, TypeOK, k
    <2> HIDE DEF m
    <2>4. Awaits(m, "next", att) /\ "next" \in PCs /\ "next" \notin Serving
      BY <2>1, <2>2 DEF Awaits, PCs, Serving
    <2> QED BY <2>1, <2>2, <2>3, <2>4, CallKeeps DEF Finalizers
  <1>7. CASE NextFail
    BY <1>7, AbortKeeps DEF NextFail, Attests
  <1> QED BY <1>1, <1>2, <1>3, <1>4, <1>5, <1>6, <1>7

\* A full response is returned once the awaited finalizer answered, or for
\* media, which make no durability promise.
LEMMA RespondKeeps ==
    ASSUME IInv, Respond, UNCHANGED <<op, row, tombstone, att, tries, started, gone, wk, sweep>>,
           Finalized(row) \/ op = "media"
    PROVE  IInv'
  <1>1. DoneIsDurable'
    BY DEF DoneIsDurable, Finalized
  <1>2. Resume("closed") /\ caller' \in 0 .. MaxAttempts /\ att' \in 0 .. MaxAttempts
        /\ started' \in BOOLEAN /\ done' \in BOOLEAN
    BY DEF Respond, IInv, TypeOK
  <1> QED BY <1>1, <1>2, ResumeKeeps DEF Serving, Planned

LEMMA CompletionKeeps ==
    ASSUME IInv, \/ SettleOk \/ SettleNetworkFail \/ SettleFail \/ CaptureOk
                 \/ CaptureRetry \/ CapturePending \/ CaptureFail \/ AbortEnds
    PROVE  IInv'
  <1>0. TypeOK /\ RelayInv /\ FenceInv /\ ReplyInv /\ DoneIsDurable
    BY DEF IInv
  <1>1. CASE SettleOk \/ CaptureOk
    <2>1. Finalized(row)
      BY <1>0, <1>1 DEF SettleOk, CaptureOk, Answered, RelayInv, Awaits, ReplyInv, Finalizers
    <2> QED BY <1>1, <2>1, RespondKeeps DEF SettleOk, CaptureOk
  <1>2. CASE SettleNetworkFail
    <2>1. att \in Attempts
      BY <1>0, <1>2 DEF SettleNetworkFail, RelayInv, Planned, Serving
    <2> QED BY <1>0, <1>2, <2>1, ResumeKeeps
            DEF SettleNetworkFail, TypeOK, DoneIsDurable, Serving, Finalized
  <1>3. CASE SettleFail
    BY <1>3, AbortKeeps DEF SettleFail, Attests
  <1>4. CASE CaptureRetry
    <2> DEFINE m == awaiting
    <2>1. m.kind = "capture" /\ m.k \in Attempts /\ att \in Attempts /\ row.attempt
      BY <1>0, <1>4 DEF CaptureRetry, RelayInv, Awaits, Finalizers, Planned, Serving, FenceInv
    <2>2. m \in Messages
      BY <1>0, <2>1 DEF TypeOK, NoMsg, Msg
    <2>3. Call(m, "capture") /\ tries' \in 0 .. 2
          /\ UNCHANGED <<op, row, tombstone, att, caller, started, done, gone, wk, sweep>>
      BY <1>0, <1>4 DEF CaptureRetry, TypeOK
    <2> HIDE DEF m
    <2>4. Awaits(m, "capture", att) /\ "capture" \in PCs
      BY <2>1 DEF Awaits, PCs
    <2> QED BY <2>1, <2>2, <2>3, <2>4, CallKeeps
  <1>5. CASE CapturePending
    BY <1>5, RespondKeeps DEF CapturePending
  <1>6. CASE CaptureFail
    BY <1>6, AbortKeeps DEF CaptureFail, Attests
  <1>7. CASE AbortEnds
    BY <1>0, <1>7, ResumeKeeps DEF AbortEnds, TypeOK, DoneIsDurable, Serving, Planned, Finalized
  <1> QED BY <1>1, <1>2, <1>3, <1>4, <1>5, <1>6, <1>7

\* The catch block of the streaming branch, from a state in which an attempt is
\* being served.
LEMMA StreamFailsKeeps ==
    ASSUME IInv, StreamFails, pc \in Serving
    PROVE  IInv'
  <1>1. att \in Attempts /\ row.attempt
    BY DEF IInv, RelayInv, FenceInv, Planned
  <1>2. /\ tries' \in 0 .. 2
        /\ UNCHANGED <<op, row, tombstone, att, caller, started, done, gone, wk, sweep>>
    BY DEF StreamFails, IInv, TypeOK
  <1>3. CASE started
    <2> DEFINE m == Msg("capture", att, FALSE)
    <2>1. m \in Messages /\ m.kind = "capture" /\ m.k = att
      BY <1>1 DEF Msg, Messages, Kinds
    <2>2. Call(m, "streamcapture")
      BY <1>3 DEF StreamFails
    <2> HIDE DEF m
    <2>3. Awaits(m, "streamcapture", att) /\ "streamcapture" \in PCs
      BY <1>1, <2>1 DEF Awaits, PCs
    <2> QED BY <1>1, <1>2, <2>1, <2>2, <2>3, CallKeeps
  <1>4. CASE ~started
    <2> DEFINE r == ~gone
               m == Msg("abort", 0, r)
    <2>1. m \in Messages /\ m.kind = "abort" /\ m.rejected = ~gone
      BY DEF Msg, Messages, Kinds
    <2>2. Call(m, "streamabort")
      BY <1>4 DEF StreamFails
    <2> HIDE DEF m
    <2>3. Awaits(m, "streamabort", att) /\ "streamabort" \in PCs
      BY <2>1 DEF Awaits, PCs, Finalizers
    <2> QED BY <1>1, <1>2, <2>1, <2>2, <2>3, CallKeeps DEF Finalizers
  <1> QED BY <1>3, <1>4

LEMMA StreamKeeps ==
    ASSUME IInv, \/ SendDelivery \/ DeliveryOk \/ StreamComplete \/ StreamSettleOk
                 \/ StreamSettleRetry \/ StreamFailsOnControl \/ StreamFailsOnStream
                 \/ StreamPartial \/ StreamErrorDone \/ StreamDestroyed
    PROVE  IInv'
  <1>0. TypeOK /\ RowInv /\ RelayInv /\ FenceInv /\ ReplyInv /\ DoneIsDurable
    BY DEF IInv
  <1>1. pc \in Serving /\ att \in Attempts /\ row.attempt
    BY <1>0 DEF SendDelivery, DeliveryOk, StreamComplete, StreamSettleOk, StreamSettleRetry,
                StreamFailsOnControl, StreamFailsOnStream, StreamPartial, StreamErrorDone,
                StreamDestroyed, RelayInv, FenceInv, Planned, Serving
  <1>2. CASE SendDelivery
    <2> DEFINE m == Msg("delivery", 0, FALSE)
    <2>1. m \in Messages /\ m.kind = "delivery"
      BY DEF Msg, Messages, Kinds
    <2>2. Call(m, "fence") /\ tries' \in 0 .. 2
          /\ UNCHANGED <<op, row, tombstone, att, caller, started, done, gone, wk, sweep>>
      BY <1>0, <1>2 DEF SendDelivery, TypeOK
    <2> HIDE DEF m
    <2>3. Awaits(m, "fence", att) /\ "fence" \in PCs
      BY <2>1 DEF Awaits, PCs, Finalizers
    <2> QED BY <1>1, <2>1, <2>2, <2>3, CallKeeps DEF Finalizers
  <1>3. CASE DeliveryOk
    <2>1. caller' \in 0 .. MaxAttempts /\ started' \in BOOLEAN
      BY <1>0, <1>3 DEF DeliveryOk, TypeOK
    <2> QED BY <1>0, <1>1, <1>3, <2>1, ResumeKeeps DEF DeliveryOk, TypeOK, DoneIsDurable, Finalized
  <1>4. CASE StreamComplete \/ StreamPartial
    <2> DEFINE m == Msg("settle", att, FALSE)
    <2>1. m \in Messages /\ m.kind = "settle" /\ m.k = att
      BY <1>1 DEF Msg, Messages, Kinds
    <2>2. (Call(m, "settle") \/ Call(m, "partial")) /\ tries' = 2
          /\ UNCHANGED <<op, row, tombstone, att, caller, started, done, gone, wk, sweep>>
      BY <1>4 DEF StreamComplete, StreamPartial
    <2> HIDE DEF m
    <2>3. /\ Awaits(m, "settle", att) /\ "settle" \in PCs
          /\ Awaits(m, "partial", att) /\ "partial" \in PCs
      BY <1>1, <2>1 DEF Awaits, PCs
    <2> QED BY <1>1, <2>1, <2>2, <2>3, CallKeeps
  <1>5. CASE StreamSettleOk
    <2>1. Finalized(row)
      BY <1>0, <1>5 DEF StreamSettleOk, Answered, RelayInv, Awaits, ReplyInv, Finalizers
    <2>2. DoneIsDurable'
      BY <1>5, <2>1 DEF StreamSettleOk, DoneIsDurable, Finalized
    <2> QED BY <1>0, <1>5, <2>2, ResumeKeeps DEF StreamSettleOk, TypeOK, Serving, Planned
  <1>6. CASE StreamSettleRetry
    <2> DEFINE m == awaiting
    <2>1. m.kind = "settle" /\ m.k \in Attempts /\ pc \in {"settle", "partial"}
      BY <1>0, <1>6 DEF StreamSettleRetry, RelayInv, Awaits, Finalizers
    <2>2. m \in Messages
      BY <1>0, <2>1 DEF TypeOK, NoMsg, Msg
    <2>3. Call(m, pc) /\ tries' \in 0 .. 2
          /\ UNCHANGED <<op, row, tombstone, att, caller, started, done, gone, wk, sweep>>
      BY <1>0, <1>6 DEF StreamSettleRetry, TypeOK
    <2> HIDE DEF m
    <2>4. Awaits(m, pc, att) /\ pc \in PCs
      BY <2>1 DEF Awaits, PCs
    <2> QED BY <1>1, <2>1, <2>2, <2>3, <2>4, CallKeeps
  <1>7. CASE StreamFailsOnControl \/ StreamFailsOnStream
    BY <1>1, <1>7, StreamFailsKeeps DEF StreamFailsOnControl, StreamFailsOnStream
  <1>8. CASE StreamErrorDone
    <2>1. Finalized(row)
      <3>1. row.status # "none"
        BY <1>0, <1>1 DEF RowInv
      <3>2. Finalized(row) \/ ~Held(row)
        BY <1>0, <1>8 DEF StreamErrorDone, Answered, RelayInv, Awaits, ReplyInv, Finalizers
      <3> QED BY <1>0, <3>1, <3>2 DEF Finalized, Held, TypeOK, Rows, Statuses
    <2>2. DoneIsDurable' /\ done' \in BOOLEAN
      BY <1>8, <2>1 DEF StreamErrorDone, DoneIsDurable, Finalized
    <2> QED BY <1>0, <1>8, <2>2, ResumeKeeps DEF StreamErrorDone, TypeOK, Serving, Planned
  <1>9. CASE StreamDestroyed
    BY <1>0, <1>9, ResumeKeeps DEF StreamDestroyed, TypeOK, DoneIsDurable, Serving, Planned, Finalized
  <1> QED BY <1>2, <1>3, <1>4, <1>5, <1>6, <1>7, <1>8, <1>9

LEMMA RelayKeeps == ASSUME IInv, Relay PROVE IInv'
  BY BeforeDispatchKeeps, AnswerKeeps, CompletionKeeps, StreamKeeps DEF Relay
----------------------------------------------------------------------------
(* The client, a crash of the relay, and the worker.                       *)

LEMMA ClientKeeps == ASSUME IInv, ClientDisconnects \/ RelayCrash PROVE IInv'
  <1>1. CASE ClientDisconnects
    <2>1. UNCHANGED <<op, row, tombstone, net, pc, att, awaiting, reply, tries, started, caller,
                      done, attested, wk, sweep>> /\ gone' = TRUE
      BY <1>1 DEF ClientDisconnects, ledgerVars, relayVars
    <2> QED
      BY <2>1
      DEF IInv, TypeOK, RowInv, FenceInv, MessageInv, RelayInv, Awaits, ReplyInv, DoneIsDurable,
          ChargedWasFenced, FencedReleaseIsAttested, Held, Finalized
  <1>2. CASE RelayCrash
    <2>1. UNCHANGED <<op, row, tombstone, net, att, tries, started, caller, done, gone,
                      attested, wk, sweep>> /\ pc' = "crashed" /\ awaiting' = NoMsg /\ reply' = "none"
      BY <1>2 DEF RelayCrash
    <2>2. TypeOK'
      BY <2>1 DEF IInv, TypeOK, PCs
    <2>3. RowInv' /\ FenceInv' /\ MessageInv' /\ DoneIsDurable'
      BY <2>1 DEF IInv, RowInv, FenceInv, MessageInv, DoneIsDurable, ChargedWasFenced,
                  FencedReleaseIsAttested, Held, Finalized, Serving
    <2>4. RelayInv' /\ ReplyInv'
      BY <2>1 DEF RelayInv, ReplyInv, Awaits, NoMsg, Msg, Finalizers, Planned, Serving
    <2> QED BY <2>2, <2>3, <2>4 DEF IInv
  <1> QED BY <1>1, <1>2

LEMMA WorkerKeeps == ASSUME IInv, NEW k \in Attempts, Worker(k) PROVE IInv'
  <1>1. PICK w \in WorkerStates :
          /\ wk' = [wk EXCEPT ![k] = w]
          /\ w \in Granted => wk[k] \in Granted
          /\ UNCHANGED <<op, row, tombstone, net, pc, att, awaiting, reply, tries, started, caller,
                         done, attested, gone, sweep>>
    <2> USE DEF ledgerVars, relayVars
    <2>1. CASE WorkerDispatch(k)
      BY <2>1 DEF WorkerDispatch, WorkerStates, Granted
    <2>2. CASE ProviderAccepts(k)
      BY <2>2 DEF ProviderAccepts, WorkerStates, Granted
    <2>3. CASE StreamEnds(k)
      BY <2>3 DEF StreamEnds, WorkerStates, Granted
    <2>4. CASE WorkerFails(k)
      BY <2>4 DEF WorkerFails, WorkerStates, Granted
    <2> QED BY <2>1, <2>2, <2>3, <2>4 DEF Worker
  <1>2. TypeOK'
    BY <1>1 DEF IInv, TypeOK
  <1>3. FenceInv'
    BY <1>1 DEF IInv, FenceInv, TypeOK
  <1>4. RowInv' /\ MessageInv' /\ RelayInv' /\ ReplyInv' /\ DoneIsDurable'
    BY <1>1 DEF IInv, RowInv, MessageInv, RelayInv, Awaits, ReplyInv, DoneIsDurable,
                ChargedWasFenced, FencedReleaseIsAttested, Held, Finalized
  <1> QED BY <1>2, <1>3, <1>4 DEF IInv
----------------------------------------------------------------------------
(* The ledger.                                                             *)

LEMMA ChargeIsNat ==
    ASSUME NEW r \in Rows, NEW outcome, NEW rejected, NEW cost \in Nat
    PROVE  Charge(r, outcome, rejected, cost) \in Nat
  BY DEF Charge, Least, Rows

\* What finalizeInferenceReservation does to a row.
LEMMA FinalizeResult ==
    ASSUME NEW r \in Rows, NEW outcome, NEW rejected, NEW cost \in Nat
    PROVE  LET f == Finalize(r, outcome, rejected, cost)
               charge == Charge(r, outcome, rejected, cost)
           IN /\ f \in Rows /\ ~Held(f)
              /\ f.attempt = r.attempt /\ f.delivery = r.delivery
              /\ ~Held(r) => f = r
              /\ Held(r) => /\ f.charged = charge
                            /\ f.status = IF charge > 0 THEN "settled" ELSE "released"
  <1> DEFINE f == Finalize(r, outcome, rejected, cost)
             charge == Charge(r, outcome, rejected, cost)
  <1>1. charge \in Nat
    BY ChargeIsNat
  <1>2. CASE ~Held(r)
    BY <1>2 DEF Finalize
  <1>3. CASE Held(r)
    <2> DEFINE status == IF charge > 0 THEN "settled" ELSE "released"
    <2>1. f = [r EXCEPT !.status = status, !.charged = charge]
      BY <1>3 DEF Finalize
    <2>2. status \in {"settled", "released"}
      OBVIOUS
    <2> HIDE DEF f, charge
    <2>3. f.charged = charge /\ f.status = status /\ f.attempt = r.attempt /\ f.delivery = r.delivery
      BY <2>1 DEF Rows
    <2> HIDE DEF status
    <2>4. f \in Rows
      BY <1>1, <2>1, <2>2 DEF Rows, Statuses
    <2> QED BY <1>3, <2>2, <2>3, <2>4 DEF Held, f, charge, status
  <1> QED BY <1>2, <1>3

\* A finalization keeps the row's invariant when every finalizer follows the
\* fence, a settlement has a cost, and a rejection was attested.
LEMMA FinalizeKeeps ==
    ASSUME IInv, NEW outcome \in Outcomes, NEW rejected \in BOOLEAN, NEW cost \in Nat,
           row' = Finalize(row, outcome, rejected, cost), attested' = attested,
           outcome \in Finalizers => row.attempt,
           outcome = "settle" /\ Held(row) => cost > 0,
           rejected => attested
    PROVE  /\ RowInv' /\ row' \in Rows /\ row'.attempt = row.attempt /\ ~Held(row')
           /\ Finalized(row) => row' = row
           /\ row.attempt => Finalized(row')
  <1>0. row \in Rows /\ RowInv /\ attested \in BOOLEAN
    BY DEF IInv, TypeOK
  <1>1. /\ row' \in Rows /\ row'.attempt = row.attempt /\ row'.delivery = row.delivery
        /\ ~Held(row') /\ (~Held(row) => row' = row)
    BY <1>0, FinalizeResult
  <1>2. Finalized(row) => row' = row
    BY <1>1 DEF Finalized, Held
  <1>3. row.attempt => Finalized(row')
    <2>1. Held(row) => row'.status \in {"settled", "released"}
      BY <1>0, FinalizeResult
    <2>2. row.attempt => row.status # "none"
      BY <1>0 DEF RowInv
    <2> QED BY <1>0, <1>1, <2>1, <2>2 DEF Finalized, Held, Rows, Statuses
  <1>4. CASE ~Held(row)
    BY <1>0, <1>1, <1>2, <1>3, <1>4 DEF RowInv, Held, ChargedWasFenced, FencedReleaseIsAttested
  <1>5. CASE Held(row)
    <2> DEFINE charge == Charge(row, outcome, rejected, cost)
    <2>1. /\ row'.charged = charge /\ charge \in Nat
          /\ row'.status = IF charge > 0 THEN "settled" ELSE "released"
      BY <1>0, <1>5, FinalizeResult, ChargeIsNat
    <2>2. row.reserved = Reserved /\ (row.delivery => row.attempt)
      BY <1>0, <1>5 DEF RowInv
    <2>3. charge > 0 => row.attempt
      <3>1. CASE outcome \in Finalizers
        BY <3>1
      <3>2. CASE outcome = "abort"
        BY <2>2, <3>2 DEF Charge, CapturesCeiling
      <3> QED BY <3>1, <3>2 DEF Outcomes, Finalizers
    <2>4. charge = 0 /\ row.attempt => attested
      <3>1. CASE outcome = "capture"
        BY <2>2, <3>1 DEF Charge, CapturesCeiling
      <3>2. CASE outcome = "settle"
        BY <1>5, <2>2, <3>2 DEF Charge, CapturesCeiling, Least
      <3>3. CASE outcome = "abort"
        BY <2>2, <3>3 DEF Charge, CapturesCeiling
      <3> QED BY <3>1, <3>2, <3>3 DEF Outcomes
    <2> HIDE DEF charge
    <2>5. RowInv'
      BY <1>1, <2>1, <2>2, <2>3, <2>4
      DEF RowInv, ChargedWasFenced, FencedReleaseIsAttested, Held
    <2> QED BY <1>1, <1>2, <1>3, <2>5
  <1> QED BY <1>4, <1>5

\* A control handler: what it must guarantee about the row, the worker states
\* and the meaning of its answer.
LEMMA HandleKeeps ==
    ASSUME IInv, NEW m \in net, NEW answer \in {"none", "ok", "refused"}, Handle(m, answer),
           RowInv', row' \in Rows, row.attempt => row'.attempt,
           Finalized(row) => Finalized(row'),
           wk' \in [Attempts -> WorkerStates],
           \A k \in Attempts : wk'[k] \in Granted => row'.attempt,
           tombstone' \in BOOLEAN,
           tombstone /\ ~Held(row) => tombstone' /\ ~Held(row'),
           answer = "ok" /\ m.kind = "next" => m.k < MaxAttempts,
           answer = "ok" /\ m.kind \in Finalizers => Finalized(row'),
           answer = "ok" /\ m.kind = "abort" => tombstone' /\ ~Held(row')
    PROVE  IInv'
  <1>1. /\ net' = net \ {m} /\ reply' = (IF awaiting = m THEN answer ELSE reply)
        /\ UNCHANGED <<op, pc, att, awaiting, tries, started, caller, done, gone, attested, sweep>>
    BY DEF Handle
  <1>2. TypeOK'
    BY <1>1 DEF IInv, TypeOK
  <1>3. FenceInv' /\ MessageInv'
    BY <1>1 DEF IInv, FenceInv, MessageInv
  <1>4. RelayInv'
    BY <1>1 DEF IInv, RelayInv, Awaits
  <1>5. ReplyInv'
    BY <1>1 DEF IInv, ReplyInv
  <1>6. DoneIsDurable'
    BY <1>1 DEF IInv, DoneIsDurable
  <1> QED BY <1>2, <1>3, <1>4, <1>5, <1>6 DEF IInv

LEMMA AuthorizeKeeps == ASSUME IInv, HandleAuthorize PROVE IInv'
  <1> DEFINE m == Msg("authorize", 0, FALSE)
  <1>0. TypeOK /\ RowInv /\ FenceInv
    BY DEF IInv
  <1>1. m.kind = "authorize" /\ m \in net /\ UNCHANGED <<tombstone, wk, attested>>
    BY DEF HandleAuthorize, Handle, Msg
  <1>2. CASE ~tombstone /\ row.status = "none" /\ row' = NewRow /\ Handle(m, "ok")
    <2>1. /\ NewRow.status = "reserved" /\ NewRow.reserved = Reserved /\ NewRow.route = 1
          /\ NewRow.charged = 0 /\ ~NewRow.attempt /\ ~NewRow.delivery /\ NewRow \in Rows
      BY DEF NewRow, NoRow, Rows, Statuses
    <2> HIDE DEF m
    <2>2. RowInv' /\ ~row.attempt /\ ~Finalized(row)
      BY <1>0, <1>2, <2>1
      DEF RowInv, ChargedWasFenced, FencedReleaseIsAttested, Held, Finalized
    <2>3. \A k \in Attempts : wk'[k] \notin Granted
      BY <1>0, <1>1, <2>2 DEF FenceInv
    <2> QED BY <1>0, <1>1, <1>2, <2>1, <2>2, <2>3, HandleKeeps DEF TypeOK, Finalizers
  <1>3. CASE UNCHANGED row /\ Handle(m, "refused")
    <2> HIDE DEF m
    <2>1. RowInv'
      BY <1>0, <1>1, <1>3 DEF RowInv, ChargedWasFenced, FencedReleaseIsAttested, Held
    <2> QED BY <1>0, <1>1, <1>3, <2>1, HandleKeeps DEF TypeOK, FenceInv
  <1> QED BY <1>2, <1>3 DEF HandleAuthorize

LEMMA NextAttemptKeeps == ASSUME IInv, NEW m \in net, HandleNext(m) PROVE IInv'
  <1>0. TypeOK /\ RowInv /\ FenceInv /\ MessageInv
    BY DEF IInv
  <1>1. m.kind = "next" /\ m.k \in Attempts /\ UNCHANGED <<tombstone, wk, attested>>
    BY <1>0 DEF HandleNext, Handle, MessageInv
  <1>2. CASE Held(row) /\ m.k < MaxAttempts /\ row' = UpdateRoute(row, m.k + 1) /\ Handle(m, "ok")
    <2>1. m.k + 1 \in Attempts
      BY <1>1, <1>2
    <2>2. /\ row' = [row EXCEPT !.route = m.k + 1] /\ row' \in Rows
          /\ row'.status = "reserved" /\ row'.reserved = Reserved /\ row'.charged = 0
          /\ row'.attempt = row.attempt /\ row'.delivery = row.delivery
          /\ row'.route \in Attempts
      BY <1>0, <1>2, <2>1 DEF UpdateRoute, TypeOK, Rows, RowInv, Held
    <2>3. RowInv' /\ ~Finalized(row)
      BY <1>0, <1>2, <2>2 DEF RowInv, ChargedWasFenced, FencedReleaseIsAttested, Held, Finalized
    <2> QED BY <1>0, <1>1, <1>2, <2>2, <2>3, HandleKeeps DEF TypeOK, FenceInv, Finalizers
  <1>3. CASE UNCHANGED row /\ Handle(m, "refused")
    <2>1. RowInv'
      BY <1>0, <1>1, <1>3 DEF RowInv, ChargedWasFenced, FencedReleaseIsAttested, Held
    <2> QED BY <1>0, <1>1, <1>3, <2>1, HandleKeeps DEF TypeOK, FenceInv
  <1> QED BY <1>2, <1>3 DEF HandleNext

LEMMA ProviderFenceKeeps == ASSUME IInv, NEW m \in net, HandleFence(m) PROVE IInv'
  <1>0. TypeOK /\ RowInv /\ FenceInv /\ MessageInv
    BY DEF IInv
  <1>1. /\ m.kind = "fence" /\ m.k \in Attempts /\ Handle(m, "none")
        /\ UNCHANGED <<tombstone, attested>>
    BY <1>0 DEF HandleFence, Handle, MessageInv
  <1>2. CASE /\ AttemptAllowed(row) /\ row' = MarkAttempt(row)
             /\ wk' = [wk EXCEPT ![m.k] = IF @ = "fencing" THEN "granted" ELSE @]
    <2>1. /\ row' \in Rows /\ row'.status = row.status /\ row'.reserved = row.reserved
          /\ row'.charged = row.charged /\ row'.delivery = row.delivery /\ row'.route = row.route
          /\ row'.attempt
      BY <1>0, <1>2 DEF AttemptAllowed, MarkAttempt, TypeOK, Rows, Held
    <2>2. (Finalized(row) => row' = row) /\ row.status # "none"
      BY <1>2 DEF AttemptAllowed, MarkAttempt, Held, Finalized
    <2>3. RowInv'
      BY <1>0, <1>1, <2>1, <2>2
      DEF RowInv, ChargedWasFenced, FencedReleaseIsAttested, Held, Finalized
    <2>4. wk' \in [Attempts -> WorkerStates]
      BY <1>0, <1>1, <1>2 DEF TypeOK, WorkerStates
    <2> QED BY <1>0, <1>1, <2>1, <2>2, <2>3, <2>4, HandleKeeps DEF TypeOK, Held
  <1>3. CASE /\ UNCHANGED row
             /\ wk' = [wk EXCEPT ![m.k] = IF @ = "fencing" THEN "refused" ELSE @]
    <2>1. RowInv'
      BY <1>0, <1>1, <1>3 DEF RowInv, ChargedWasFenced, FencedReleaseIsAttested, Held
    <2>2. wk' \in [Attempts -> WorkerStates]
      BY <1>0, <1>1, <1>3 DEF TypeOK, WorkerStates
    <2>3. \A k \in Attempts : wk'[k] \in Granted => row'.attempt
      BY <1>0, <1>1, <1>3 DEF TypeOK, FenceInv, Granted
    <2> QED BY <1>0, <1>1, <1>3, <2>1, <2>2, <2>3, HandleKeeps DEF TypeOK
  <1> QED BY <1>2, <1>3 DEF HandleFence

LEMMA DeliveryFenceKeeps == ASSUME IInv, HandleDelivery PROVE IInv'
  <1> DEFINE m == Msg("delivery", 0, FALSE)
             answer == IF DeliveryAllowed(row) THEN "ok" ELSE "refused"
  <1>0. TypeOK /\ RowInv /\ FenceInv
    BY DEF IInv
  <1>1. /\ m.kind = "delivery" /\ m \in net /\ Handle(m, answer) /\ row' = MarkDelivery(row)
        /\ answer \in {"none", "ok", "refused"} /\ UNCHANGED <<tombstone, wk, attested>>
    BY DEF HandleDelivery, Handle, Msg
  <1>2. /\ row' \in Rows /\ row'.status = row.status /\ row'.reserved = row.reserved
        /\ row'.charged = row.charged /\ row'.route = row.route
        /\ row.attempt => row'.attempt
        /\ row'.delivery => row'.attempt
        /\ ~Held(row) => row' = row
    BY <1>0, <1>1 DEF MarkDelivery, TypeOK, RowInv, Rows, Held
  <1> HIDE DEF m, answer
  <1>3. RowInv'
    BY <1>0, <1>1, <1>2 DEF RowInv, ChargedWasFenced, FencedReleaseIsAttested, Held
  <1>4. (Finalized(row) => Finalized(row')) /\ (~Held(row) => ~Held(row'))
    BY <1>2 DEF Finalized, Held
  <1> QED BY <1>0, <1>1, <1>2, <1>3, <1>4, HandleKeeps DEF TypeOK, FenceInv, Finalizers

\* settle and capture
LEMMA SettlementKeeps == ASSUME IInv, NEW m \in net, HandleFinalize(m) PROVE IInv'
  <1> DEFINE cost == IF m.kind = "settle" /\ row.route # 0 THEN Cost(m.k, row.route) ELSE 0
  <1>0. TypeOK /\ RowInv /\ FenceInv /\ MessageInv
    BY DEF IInv
  <1>1. /\ m.kind \in Finalizers /\ Handle(m, "ok") /\ row' = Finalize(row, m.kind, FALSE, cost)
        /\ UNCHANGED <<tombstone, wk, attested>>
    BY DEF HandleFinalize, Handle, Finalizers
  <1>2. m.k \in Attempts /\ row.attempt
    BY <1>0, <1>1 DEF MessageInv, FenceInv
  <1>3. \A r \in Attempts : Cost(m.k, r) \in Nat \ {0}
    <2>1. Usage[m.k] \in Nat \ {0} /\ \A r \in Attempts : Rate[r] \in Nat \ {0}
      BY <1>2, UsageAssumption, RateAssumption
    <2>2. \A u, v \in Nat \ {0} : u * v \in Nat \ {0}
      BY SMT
    <2> QED BY <2>1, <2>2 DEF Cost
  <1>4. row.route # 0 => row.route \in Attempts
    BY <1>0 DEF TypeOK, Rows
  <1>5. cost \in Nat /\ (m.kind = "settle" /\ Held(row) => cost > 0)
    BY <1>0, <1>3, <1>4 DEF RowInv
  <1> HIDE DEF cost
  <1>6. m.kind \in Outcomes
    BY <1>1 DEF Outcomes, Finalizers
  <1>7. /\ RowInv' /\ row' \in Rows /\ row'.attempt = row.attempt /\ ~Held(row')
        /\ Finalized(row')
    BY <1>1, <1>2, <1>5, <1>6, FinalizeKeeps
  <1> QED BY <1>0, <1>1, <1>2, <1>7, HandleKeeps DEF TypeOK, Finalizers

LEMMA AbortHandledKeeps == ASSUME IInv, NEW m \in net, HandleAbort(m) PROVE IInv'
  <1>0. TypeOK /\ RowInv /\ FenceInv /\ MessageInv
    BY DEF IInv
  <1>1. /\ m.kind = "abort" /\ Handle(m, "ok") /\ row' = Finalize(row, "abort", m.rejected, 0)
        /\ tombstone' = TRUE /\ UNCHANGED <<wk, attested>>
    BY DEF HandleAbort, Handle
  <1>2. m.rejected \in BOOLEAN /\ (m.rejected => attested)
    BY <1>0, <1>1 DEF TypeOK, Messages, MessageInv
  <1>3. /\ RowInv' /\ row' \in Rows /\ row'.attempt = row.attempt /\ ~Held(row')
        /\ Finalized(row) => row' = row
    BY <1>1, <1>2, FinalizeKeeps DEF Outcomes, Finalizers
  <1> QED BY <1>0, <1>1, <1>3, HandleKeeps DEF TypeOK, FenceInv, Finalizers

LEMMA ControlKeeps == ASSUME IInv, Control PROVE IInv'
  BY AuthorizeKeeps, NextAttemptKeeps, ProviderFenceKeeps, DeliveryFenceKeeps, SettlementKeeps,
     AbortHandledKeeps
  DEF Control

LEMMA SweeperKeeps == ASSUME IInv, Sweeper PROVE IInv'
  <1>0. TypeOK /\ RowInv /\ FenceInv /\ ReplyInv /\ DoneIsDurable
    BY DEF IInv
  <1>1. UNCHANGED <<op, tombstone, net, pc, att, awaiting, reply, tries, started, caller, done,
                    gone, attested, wk>>
    BY DEF Sweeper, SweepSelect, SweepFinalize, relayVars, ledgerVars
  <1>2. /\ row' \in Rows /\ RowInv' /\ row'.attempt = row.attempt
        /\ Finalized(row) => row' = row
        /\ ~Held(row) => ~Held(row')
        /\ sweep' \in {"idle", "capture", "abort"} /\ (sweep' = "capture" => row'.attempt)
    <2>1. CASE SweepSelect
      BY <1>0, <1>1, <2>1
      DEF SweepSelect, ledgerVars, TypeOK, RowInv, ChargedWasFenced, FencedReleaseIsAttested, Held
    <2>2. CASE SweepFinalize
      <3>1. /\ sweep \in {"capture", "abort"} /\ row' = Finalize(row, sweep, FALSE, 0)
            /\ sweep' = "idle" /\ (sweep = "capture" => row.attempt)
        BY <1>0, <2>2 DEF SweepFinalize, TypeOK, FenceInv
      <3>2. sweep \in Outcomes /\ (sweep \in Finalizers => row.attempt) /\ sweep # "settle"
        BY <3>1 DEF Outcomes, Finalizers
      <3> QED BY <1>1, <3>1, <3>2, FinalizeKeeps
    <2> QED BY <2>1, <2>2 DEF Sweeper
  <1>3. TypeOK'
    BY <1>0, <1>1, <1>2 DEF TypeOK
  <1>4. FenceInv' /\ MessageInv' /\ RelayInv'
    BY <1>1, <1>2 DEF IInv, FenceInv, MessageInv, RelayInv, Awaits
  <1>5. ReplyInv' /\ DoneIsDurable'
    BY <1>0, <1>1, <1>2 DEF ReplyInv, DoneIsDurable
  <1> QED BY <1>2, <1>3, <1>4, <1>5 DEF IInv
----------------------------------------------------------------------------
LEMMA IInvNext == IInv /\ [Next]_vars => IInv'
  <1> SUFFICES ASSUME IInv, [Next]_vars PROVE IInv'
    OBVIOUS
  <1>1. CASE Next
    BY <1>1, RelayKeeps, ControlKeeps, SweeperKeeps, WorkerKeeps, ClientKeeps DEF Next
  <1>2. CASE UNCHANGED vars
    BY <1>2
    DEF vars, IInv, TypeOK, RowInv, FenceInv, MessageInv, RelayInv, Awaits, ReplyInv,
        DoneIsDurable, ChargedWasFenced, FencedReleaseIsAttested, Held, Finalized
  <1> QED BY <1>1, <1>2

\* The whole state of a request keeps its type: no attempt runs past the plan,
\* whatever the relay, the worker and the ledger do to each other.
THEOREM TypeCorrect == Spec => []TypeOK
  <1>1. IInv => TypeOK
    BY DEF IInv
  <1> QED BY <1>1, IInvInit, IInvNext, PTL DEF Spec

\* finalizeInferenceReservation charges nobody whose provider attempt was not
\* fenced by markInferenceProviderAttemptStarted.
THEOREM ChargeFollowsFence == Spec => []ChargedWasFenced
  <1>1. IInv => ChargedWasFenced
    BY DEF IInv, RowInv
  <1> QED BY <1>1, IInvInit, IInvNext, PTL DEF Spec

\* A fenced attempt is released for zero only on an attestation given while the
\* client was connected (AbortRpcRequest.providerRejected).
THEOREM ReleaseFollowsAttestation == Spec => []FencedReleaseIsAttested
  <1>1. IInv => FencedReleaseIsAttested
    BY DEF IInv, RowInv
  <1> QED BY <1>1, IInvInit, IInvNext, PTL DEF Spec

\* Both: whatever ended a hold was justified when it did.
THEOREM OutcomesAreJustified == Spec => []OutcomeIsJustified
  BY ChargeFollowsFence, ReleaseFollowsAttestation, PTL DEF OutcomeIsJustified

\* finalizeThenWriteDone and the non-streamed responses: a completion marker is
\* sent only once the reservation row is terminal.
THEOREM CompletionIsDurable == Spec => []DoneIsDurable
  <1>1. IInv => DoneIsDurable
    BY DEF IInv
  <1> QED BY <1>1, IInvInit, IInvNext, PTL DEF Spec

----------------------------------------------------------------------------
(* Delivery: the answer of the delivery fence is the only way to start.    *)

DeliveryInv ==
    /\ StreamedIsFenced
    /\ pc = "fence" => awaiting.kind = "delivery"
    /\ reply = "ok" /\ awaiting.kind = "delivery" => row.delivery

\* No ledger operation clears delivery_started_at, and the delivery fence
\* answers success only with it set.
LEMMA LedgerKeepsDelivery ==
    ASSUME IInv
    PROVE  /\ \A outcome, rejected, cost :
                 row.delivery => Finalize(row, outcome, rejected, cost).delivery
           /\ row.delivery => MarkAttempt(row).delivery
           /\ row.delivery \/ DeliveryAllowed(row) => MarkDelivery(row).delivery
           /\ \A route : row.delivery => UpdateRoute(row, route).delivery
           /\ row.delivery => row.status # "none"
  <1>0. row \in Rows /\ RowInv
    BY DEF IInv, TypeOK
  <1>1. ASSUME NEW outcome, NEW rejected, NEW cost, row.delivery
        PROVE  Finalize(row, outcome, rejected, cost).delivery
    <2> DEFINE charge == Charge(row, outcome, rejected, cost)
    <2> HIDE DEF charge
    <2>1. Finalize(row, outcome, rejected, cost) =
            IF ~Held(row) THEN row
            ELSE [row EXCEPT !.status = IF charge > 0 THEN "settled" ELSE "released",
                             !.charged = charge]
      BY DEF Finalize, charge
    <2> QED BY <1>0, <1>1, <2>1 DEF Rows
  <1>2. row.delivery => MarkAttempt(row).delivery
    BY <1>0 DEF MarkAttempt, Rows
  <1>3. row.delivery \/ DeliveryAllowed(row) => MarkDelivery(row).delivery
    BY <1>0 DEF MarkDelivery, DeliveryAllowed, Finalized, Rows
  <1>4. ASSUME NEW route, row.delivery PROVE UpdateRoute(row, route).delivery
    BY <1>0, <1>4 DEF UpdateRoute, Rows
  <1>5. row.delivery => row.status # "none"
    BY <1>0 DEF RowInv
  <1> QED BY <1>1, <1>2, <1>3, <1>4, <1>5

\* routes/chat.ts writes the first chunk only after markDeliveryStarted
\* answered, and by then delivery_started_at is set for good.
THEOREM StreamFollowsFence == Spec => []StreamedIsFenced
  <1>1. Init => DeliveryInv
    BY DEF Init, DeliveryInv, StreamedIsFenced
  <1>2. ASSUME IInv, DeliveryInv, [Next]_vars PROVE DeliveryInv'
    <2>1. CASE Relay
      <3>0. op \in AllOps
        BY <1>2 DEF IInv, TypeOK
      <3>1. UNCHANGED row /\ reply' = "none"
        BY <2>1, <3>0
        DEF Relay, SendAuthorize, AuthorizeOk, AuthorizeFail, RefuseRoute, AskCapable, SkipOk,
            SkipExhausted, SkipFail, DispatchFirst, WorkerOk, WorkerFail, AskNext, GiveUp, NextOk,
            NextIncapable, NextFail, SettleOk, SettleNetworkFail, SettleFail, CaptureOk,
            CaptureRetry, CapturePending, CaptureFail, AbortEnds, SendDelivery, DeliveryOk,
            StreamComplete, StreamSettleOk, StreamSettleRetry, StreamFailsOnControl,
            StreamFailsOnStream, StreamFails, StreamPartial, StreamErrorDone, StreamDestroyed,
            Abort, Call, Resume, Dispatch, Respond, AllOps
      <3>2. pc' = "fence" => SendDelivery
        BY <2>1, <3>0
        DEF Relay, SendAuthorize, AuthorizeOk, AuthorizeFail, RefuseRoute, AskCapable, SkipOk,
            SkipExhausted, SkipFail, DispatchFirst, WorkerOk, WorkerFail, AskNext, GiveUp, NextOk,
            NextIncapable, NextFail, SettleOk, SettleNetworkFail, SettleFail, CaptureOk,
            CaptureRetry, CapturePending, CaptureFail, AbortEnds, DeliveryOk, StreamComplete,
            StreamSettleOk, StreamSettleRetry, StreamFailsOnControl, StreamFailsOnStream,
            StreamFails, StreamPartial, StreamErrorDone, StreamDestroyed, Abort, Call, Resume,
            Dispatch, Respond, AllOps
      <3>3. started' => started \/ DeliveryOk
        BY <2>1
        DEF Relay, SendAuthorize, AuthorizeOk, AuthorizeFail, RefuseRoute, AskCapable, SkipOk,
            SkipExhausted, SkipFail, DispatchFirst, WorkerOk, WorkerFail, AskNext, GiveUp, NextOk,
            NextIncapable, NextFail, SettleOk, SettleNetworkFail, SettleFail, CaptureOk,
            CaptureRetry, CapturePending, CaptureFail, AbortEnds, SendDelivery,
            StreamComplete, StreamSettleOk, StreamSettleRetry, StreamFailsOnControl,
            StreamFailsOnStream, StreamFails, StreamPartial, StreamErrorDone, StreamDestroyed,
            Abort
      <3>4. DeliveryOk => row.delivery
        BY <1>2 DEF DeliveryOk, Answered, DeliveryInv
      <3>5. SendDelivery => awaiting'.kind = "delivery"
        BY DEF SendDelivery, Call, Msg
      <3> QED BY <1>2, <3>1, <3>2, <3>3, <3>4, <3>5 DEF DeliveryInv, StreamedIsFenced
    <2>2. ASSUME NEW m, NEW answer, Handle(m, answer),
                 row.delivery => row'.delivery,
                 answer = "ok" /\ m.kind = "delivery" => row'.delivery
          PROVE  DeliveryInv'
      BY <1>2, <2>2 DEF Handle, DeliveryInv, StreamedIsFenced
    <2>3. CASE HandleAuthorize
      <3>1. row.delivery => row'.delivery
        BY <1>2, <2>3, LedgerKeepsDelivery DEF HandleAuthorize
      <3> QED BY <2>2, <2>3, <3>1 DEF HandleAuthorize, Msg
    <2>4. CASE HandleDelivery
      <3>1. row.delivery => row'.delivery
        BY <1>2, <2>4, LedgerKeepsDelivery DEF HandleDelivery
      <3>2. DeliveryAllowed(row) => row'.delivery
        BY <1>2, <2>4, LedgerKeepsDelivery DEF HandleDelivery
      <3> QED BY <2>2, <2>4, <3>1, <3>2 DEF HandleDelivery
    <2>5. ASSUME NEW m \in net, HandleNext(m) PROVE DeliveryInv'
      <3>1. row.delivery => row'.delivery
        BY <1>2, <2>5, LedgerKeepsDelivery DEF HandleNext
      <3> QED BY <2>2, <2>5, <3>1 DEF HandleNext
    <2>6. ASSUME NEW m \in net, HandleFence(m) PROVE DeliveryInv'
      <3>1. row.delivery => row'.delivery
        BY <1>2, <2>6, LedgerKeepsDelivery DEF HandleFence
      <3> QED BY <2>2, <2>6, <3>1 DEF HandleFence
    <2>7. ASSUME NEW m \in net, HandleFinalize(m) PROVE DeliveryInv'
      <3>1. row.delivery => row'.delivery
        BY <1>2, <2>7, LedgerKeepsDelivery DEF HandleFinalize
      <3> QED BY <2>2, <2>7, <3>1 DEF HandleFinalize
    <2>8. ASSUME NEW m \in net, HandleAbort(m) PROVE DeliveryInv'
      <3>1. row.delivery => row'.delivery
        BY <1>2, <2>8, LedgerKeepsDelivery DEF HandleAbort
      <3> QED BY <2>2, <2>8, <3>1 DEF HandleAbort
    <2>9. CASE Sweeper
      <3>1. row.delivery => row'.delivery
        BY <1>2, <2>9, LedgerKeepsDelivery DEF Sweeper, SweepSelect, SweepFinalize, ledgerVars
      <3>2. UNCHANGED <<started, pc, awaiting, reply>>
        BY <2>9 DEF Sweeper, SweepSelect, SweepFinalize, relayVars
      <3> QED BY <1>2, <3>1, <3>2 DEF DeliveryInv, StreamedIsFenced
    <2>10. CASE \/ \E k \in Attempts : Worker(k)
                \/ ClientDisconnects \/ RelayCrash \/ UNCHANGED vars
      BY <1>2, <2>10
      DEF Worker, WorkerDispatch, ProviderAccepts, StreamEnds, WorkerFails, ClientDisconnects,
          RelayCrash, relayVars, ledgerVars, vars, DeliveryInv, StreamedIsFenced
    <2> QED BY <1>2, <2>1, <2>3, <2>4, <2>5, <2>6, <2>7, <2>8, <2>9, <2>10 DEF Next, Control
  <1>3. DeliveryInv => StreamedIsFenced
    BY DEF DeliveryInv
  <1> QED BY <1>1, <1>2, <1>3, IInvInit, IInvNext, PTL DEF Spec

\* Both: streamed output and a completion are backed by the row.
THEOREM OutputsAreBacked == Spec => []OutputIsBacked
  BY StreamFollowsFence, CompletionIsDurable, PTL DEF OutputIsBacked
----------------------------------------------------------------------------
\* finalizeInferenceReservation, the two fences and the route update leave a
\* terminal row as it is.
LEMMA LedgerKeepsTerminal ==
    ASSUME Finalized(row)
    PROVE  /\ \A outcome, rejected, cost : Finalize(row, outcome, rejected, cost) = row
           /\ MarkAttempt(row) = row /\ MarkDelivery(row) = row
           /\ \A route : UpdateRoute(row, route) = row
           /\ row.status # "none"
  BY DEF Finalized, Held, Finalize, MarkAttempt, MarkDelivery, UpdateRoute

\* No late, repeated or reordered message and no sweep changes a reservation
\* once finalizeInferenceReservation made it terminal.
THEOREM TerminalIsFrozen == Spec => TerminalRowIsFrozen
  <1>1. ASSUME Next, Finalized(row) PROVE row' = row
    <2>1. CASE Relay
      BY <2>1
      DEF Relay, SendAuthorize, AuthorizeOk, AuthorizeFail, RefuseRoute, AskCapable, SkipOk,
          SkipExhausted, SkipFail, DispatchFirst, WorkerOk, WorkerFail, AskNext, GiveUp, NextOk,
          NextIncapable, NextFail, SettleOk, SettleNetworkFail, SettleFail, CaptureOk,
          CaptureRetry, CapturePending, CaptureFail, AbortEnds, SendDelivery, DeliveryOk,
          StreamComplete, StreamSettleOk, StreamSettleRetry, StreamFailsOnControl,
          StreamFailsOnStream, StreamFails, StreamPartial, StreamErrorDone, StreamDestroyed, Abort
    <2>2. CASE Control
      <3>1. CASE HandleAuthorize
        BY <1>1, <3>1, LedgerKeepsTerminal DEF HandleAuthorize
      <3>2. CASE HandleDelivery
        BY <1>1, <3>2, LedgerKeepsTerminal DEF HandleDelivery
      <3>3. ASSUME NEW m \in net, HandleNext(m) PROVE row' = row
        BY <1>1, <3>3, LedgerKeepsTerminal DEF HandleNext
      <3>4. ASSUME NEW m \in net, HandleFence(m) PROVE row' = row
        BY <1>1, <3>4, LedgerKeepsTerminal DEF HandleFence
      <3>5. ASSUME NEW m \in net, HandleFinalize(m) PROVE row' = row
        BY <1>1, <3>5, LedgerKeepsTerminal DEF HandleFinalize
      <3>6. ASSUME NEW m \in net, HandleAbort(m) PROVE row' = row
        BY <1>1, <3>6, LedgerKeepsTerminal DEF HandleAbort
      <3> QED BY <2>2, <3>1, <3>2, <3>3, <3>4, <3>5, <3>6 DEF Control
    <2>3. CASE Sweeper
      BY <1>1, <2>3, LedgerKeepsTerminal DEF Sweeper, SweepSelect, SweepFinalize, ledgerVars
    <2>4. CASE \E k \in Attempts : Worker(k)
      BY <2>4 DEF Worker, WorkerDispatch, ProviderAccepts, StreamEnds, WorkerFails, ledgerVars
    <2>5. CASE ClientDisconnects \/ RelayCrash
      BY <2>5 DEF ClientDisconnects, RelayCrash, ledgerVars
    <2> QED BY <1>1, <2>1, <2>2, <2>3, <2>4, <2>5 DEF Next
  <1>2. [Next]_vars => [Finalized(row) => row' = row]_vars
    BY <1>1
  <1> QED BY <1>2, PTL DEF Spec, TerminalRowIsFrozen
----------------------------------------------------------------------------
(* Payment.                                                                *)

\* Where a next-attempt request may be under way, and where the relay is once it
\* sent the finalizer or the compensation that ends the request.
Asking == {"skip", "next"}
Ending == {"settle", "partial", "capture", "streamcapture", "streamabort", "abort",
           "closed", "crashed"}

\* The operations that are charged what they measured, or the ceiling.
Measured == {"stream", "embeddings"}
NoNext == \A m \in net : m.kind # "next"

\* The ledger's cursor stands at the attempt the relay is serving: nothing that
\* is still under way can move it.
RouteInv ==
    /\ row.status = "none" => row.route = 0
    /\ pc = "authorize" => awaiting.kind = "authorize" /\ (reply = "ok" => row.route = 1)
    /\ pc \in {"start", "authorize"} \cup (Planned \ Asking) => NoNext
    /\ pc \in Planned \ Asking => row.route = att
    /\ pc \in Asking =>
         /\ \A m \in net : m.kind = "next" => m = awaiting
         /\ awaiting \in net => reply # "ok" /\ row.route = awaiting.k
         /\ reply = "ok" => row.route = awaiting.k + 1

\* A settlement of a measured operation is for the attempt the row points to,
\* and the relay no longer moves on to another one.
SettleInv ==
    /\ \A m \in net : m.kind = "settle" =>
         /\ op \in Measured \cup {"json"}
         /\ op \in Measured => m.k = att /\ row.route = att /\ pc \in Ending /\ NoNext
    /\ pc \in {"settle", "partial"} /\ op \in Measured => awaiting.k = att

ChargeInv ==
    Finalized(row) =>
      /\ row.charged <= Reserved
      /\ row.status = "settled" <=> row.charged > 0
      /\ \/ row.charged \in {0, Reserved}
         \/ op = "json"
         \/ op \in Measured /\ pc \in Ending /\ row.charged = Least(Cost(att, att), Reserved)

CallerInv ==
    /\ started => /\ op = "stream"
                  /\ pc \in {"streaming", "settle", "partial", "streamcapture", "closed", "crashed"}
    /\ caller # 0 => /\ caller = att /\ row.attempt /\ ~attested
                     /\ started \/ pc \in {"closed", "crashed"}
    /\ attested => pc \in {"abort", "streamabort", "closed", "crashed"}
    /\ pc \in {"headers", "fence", "streaming", "partial", "streamcapture", "streamabort"}
         => op = "stream"
    /\ pc = "settle" => op \in Measured \cup {"json"}
    /\ pc = "capture" => op \in {"media", "e2ee"}

PaidInv == RouteInv /\ SettleInv /\ ChargeInv /\ CallerInv

\* One step per action of the relay: it never touches the row, so what is at
\* stake is the messages it sends and the attempt it stands at.
LEMMA PaidRelay == ASSUME IInv, PaidInv, Relay PROVE PaidInv'
  <1>0. /\ TypeOK /\ RowInv /\ FenceInv /\ RelayInv /\ ReplyInv
        /\ RouteInv /\ SettleInv /\ ChargeInv /\ CallerInv
    BY DEF IInv, PaidInv
  <1> USE <1>0 DEF TypeOK, AllOps, Chat, RowInv, FenceInv, RelayInv, Awaits, ReplyInv,
          Planned, Serving, Finalizers, Asking, Ending, Measured, NoNext, RouteInv,
          SettleInv, ChargeInv, CallerInv, PaidInv, Call, Resume, Abort, Dispatch, Respond,
          Answered, Attests, StreamFails, Msg, NoMsg, Finalized
  <1>1. CASE SendAuthorize
    BY <1>1 DEF SendAuthorize
  <1>2. CASE AuthorizeOk
    BY <1>2 DEF AuthorizeOk
  <1>3. CASE AuthorizeFail
    BY <1>3 DEF AuthorizeFail
  <1>4. CASE RefuseRoute
    BY <1>4 DEF RefuseRoute
  <1>5. CASE AskCapable
    BY <1>5 DEF AskCapable
  <1>6. CASE SkipOk
    BY <1>6 DEF SkipOk
  <1>7. CASE SkipExhausted
    BY <1>7 DEF SkipExhausted
  <1>8. CASE SkipFail
    BY <1>8 DEF SkipFail
  <1>9. CASE DispatchFirst
    BY <1>9 DEF DispatchFirst
  <1>10. CASE WorkerOk
    <2>1. CASE op = "stream"
      BY <1>10, <2>1 DEF WorkerOk
    <2>2. CASE op = "json"
      BY <1>10, <2>2 DEF WorkerOk
    <2>3. CASE op = "embeddings"
      BY <1>10, <2>3 DEF WorkerOk
    <2>4. CASE op = "media"
      BY <1>10, <2>4 DEF WorkerOk
    <2>5. CASE op = "e2ee"
      BY <1>10, <2>5 DEF WorkerOk
    <2> QED BY <1>0, <2>1, <2>2, <2>3, <2>4, <2>5 DEF AllOps
  <1>11. CASE WorkerFail
    BY <1>11 DEF WorkerFail
  <1>12. CASE AskNext
    BY <1>12 DEF AskNext
  <1>13. CASE GiveUp
    BY <1>13 DEF GiveUp
  <1>14. CASE NextOk
    BY <1>14 DEF NextOk
  <1>15. CASE NextIncapable
    BY <1>15 DEF NextIncapable
  <1>16. CASE NextFail
    BY <1>16 DEF NextFail
  <1>17. CASE SettleOk
    BY <1>17 DEF SettleOk
  <1>18. CASE SettleNetworkFail
    BY <1>18 DEF SettleNetworkFail
  <1>19. CASE SettleFail
    BY <1>19 DEF SettleFail
  <1>20. CASE CaptureOk
    BY <1>20 DEF CaptureOk
  <1>21. CASE CaptureRetry
    BY <1>21 DEF CaptureRetry
  <1>22. CASE CapturePending
    BY <1>22 DEF CapturePending
  <1>23. CASE CaptureFail
    BY <1>23 DEF CaptureFail
  <1>24. CASE AbortEnds
    BY <1>24 DEF AbortEnds
  <1>25. CASE SendDelivery
    BY <1>25 DEF SendDelivery
  <1>26. CASE DeliveryOk
    BY <1>26 DEF DeliveryOk
  <1>27. CASE StreamComplete
    BY <1>27 DEF StreamComplete
  <1>28. CASE StreamSettleOk
    BY <1>28 DEF StreamSettleOk
  <1>29. CASE StreamSettleRetry
    BY <1>29 DEF StreamSettleRetry
  <1>30. CASE StreamFailsOnControl
    BY <1>30 DEF StreamFailsOnControl
  <1>31. CASE StreamFailsOnStream
    BY <1>31 DEF StreamFailsOnStream
  <1>32. CASE StreamPartial
    BY <1>32 DEF StreamPartial
  <1>33. CASE StreamErrorDone
    BY <1>33 DEF StreamErrorDone
  <1>34. CASE StreamDestroyed
    BY <1>34 DEF StreamDestroyed
  <1> QED BY <1>1, <1>2, <1>3, <1>4, <1>5, <1>6, <1>7, <1>8, <1>9, <1>10, <1>11, <1>12,
         <1>13, <1>14, <1>15, <1>16, <1>17, <1>18, <1>19, <1>20, <1>21, <1>22, <1>23, <1>24,
         <1>25, <1>26, <1>27, <1>28, <1>29, <1>30, <1>31, <1>32, <1>33, <1>34 DEF Relay

\* A handler that leaves the row's money and cursor alone.
LEMMA PaidHandle ==
    ASSUME IInv, PaidInv, NEW m \in net, NEW answer, Handle(m, answer),
           row'.status = row.status, row'.charged = row.charged, row'.route = row.route,
           row.attempt => row'.attempt,
           answer = "ok" => m.kind \notin {"authorize", "next"}
    PROVE  PaidInv'
  BY DEF IInv, RelayInv, Awaits, Handle, PaidInv, RouteInv, SettleInv, ChargeInv, CallerInv, NoNext, Finalized, Asking, Planned

\* What a finalization charges: nothing, the ceiling, or what a settlement
\* measured on the serving route.
LEMMA PaidFinalize ==
    ASSUME IInv, PaidInv, NEW outcome \in Outcomes, NEW rejected \in BOOLEAN, NEW cost \in Nat,
           row' = Finalize(row, outcome, rejected, cost),
           outcome = "settle" /\ Held(row) =>
             op = "json" \/ (op \in Measured /\ pc \in Ending /\ cost = Cost(att, att)),
           UNCHANGED <<op, pc, att>>
    PROVE  /\ ChargeInv'
           /\ row'.route = row.route /\ row'.attempt = row.attempt
           /\ row'.status = "none" => row.status = "none"
  <1>0. row \in Rows /\ RowInv /\ ChargeInv
    BY DEF IInv, TypeOK, PaidInv
  <1>1. CASE ~Held(row)
    BY <1>0, <1>1 DEF Finalize, ChargeInv, Finalized
  <1>2. CASE Held(row)
    <2> DEFINE charge == Charge(row, outcome, rejected, cost)
    <2>1. row'.charged = charge /\ row'.status = (IF charge > 0 THEN "settled" ELSE "released")
      BY <1>0, <1>2, FinalizeResult
    <2>2. row.reserved = Reserved
      BY <1>0, <1>2 DEF RowInv
    <2>3. charge \in {0, Reserved} \/ (outcome = "settle" /\ charge = Least(cost, Reserved))
      BY <2>2 DEF Charge
    <2>4. charge <= Reserved /\ charge \in Nat
      BY <2>3 DEF Least
    <2>5. row'.route = row.route /\ row'.attempt = row.attempt
      BY <1>0 DEF Finalize, Rows
    <2> HIDE DEF charge
    <2>6. ChargeInv'
      BY <1>2, <2>1, <2>3, <2>4 DEF ChargeInv, Finalized
    <2> QED BY <2>1, <2>5, <2>6
  <1> QED BY <1>1, <1>2

LEMMA PaidControl == ASSUME IInv, PaidInv, Control PROVE PaidInv'
  <1>0. /\ TypeOK /\ RowInv /\ FenceInv /\ MessageInv /\ RelayInv
        /\ RouteInv /\ SettleInv /\ ChargeInv /\ CallerInv
    BY DEF IInv, PaidInv
  <1>1. CASE HandleAuthorize
    <2> DEFINE m == Msg("authorize", 0, FALSE)
    <2>1. m.kind = "authorize" /\ m \in net
      BY <1>1 DEF HandleAuthorize, Handle, Msg
    <2>2. CASE ~tombstone /\ row.status = "none" /\ row' = NewRow /\ Handle(m, "ok")
      <3>1. /\ row'.status = "reserved" /\ row'.route = 1 /\ ~row.attempt /\ row.route = 0
            /\ ~Finalized(row')
        BY <1>0, <2>2 DEF NewRow, NoRow, RowInv, RouteInv, Finalized
      <3> HIDE DEF m
      <3>2. RouteInv'
        BY <1>0, <2>1, <2>2, <3>1 DEF RouteInv, Handle, Asking, Planned, NoNext, RelayInv, Awaits
      <3>3. SettleInv' /\ CallerInv'
        BY <1>0, <2>1, <2>2, <3>1 DEF SettleInv, CallerInv, Handle, FenceInv, NoNext, Finalizers
      <3> QED BY <3>1, <3>2, <3>3 DEF PaidInv, ChargeInv
    <2>3. CASE UNCHANGED row /\ Handle(m, "refused")
      BY <2>1, <2>3, PaidHandle
    <2> QED BY <1>1, <2>2, <2>3 DEF HandleAuthorize
  <1>2. CASE HandleDelivery
    <2>1. /\ row'.status = row.status /\ row'.charged = row.charged /\ row'.route = row.route
          /\ row.attempt => row'.attempt
      BY <1>0, <1>2 DEF HandleDelivery, MarkDelivery, TypeOK, Rows
    <2> QED BY <1>2, <2>1, PaidHandle DEF HandleDelivery, Handle, Msg
  <1>3. ASSUME NEW m \in net, HandleNext(m) PROVE PaidInv'
    <2>1. CASE Held(row) /\ row.route = m.k /\ m.k < MaxAttempts
      <3>1. Handle(m, "ok") /\ row' = UpdateRoute(row, m.k + 1) /\ m.kind = "next" /\ m.k \in Attempts
        BY <1>0, <1>3, <2>1 DEF HandleNext, MessageInv
      <3>2. /\ row'.status = row.status /\ row'.attempt = row.attempt
            /\ row'.route = row.route + 1 /\ ~Finalized(row') /\ row.status # "none"
        BY <1>0, <2>1, <3>1 DEF UpdateRoute, TypeOK, Rows, Held, Finalized
      <3>3. RouteInv'
        BY <1>0, <2>1, <3>1, <3>2 DEF RouteInv, Handle, Asking, Planned, NoNext, RelayInv, Awaits
      <3>4. SettleInv'
        BY <1>0, <3>1 DEF SettleInv, Handle, NoNext, Measured
      <3>5. CallerInv' /\ ChargeInv'
        BY <1>0, <3>1, <3>2 DEF CallerInv, ChargeInv, Handle
      <3> QED BY <3>3, <3>4, <3>5 DEF PaidInv
    <2>2. CASE ~(Held(row) /\ row.route = m.k /\ m.k < MaxAttempts)
      BY <1>3, <2>2, PaidHandle DEF HandleNext
    <2> QED BY <2>1, <2>2
  <1>4. ASSUME NEW m \in net, HandleFence(m) PROVE PaidInv'
    <2>1. /\ row'.status = row.status /\ row'.charged = row.charged /\ row'.route = row.route
          /\ row.attempt => row'.attempt
      BY <1>0, <1>4 DEF HandleFence, MarkAttempt, TypeOK, Rows
    <2> QED BY <1>4, <2>1, PaidHandle DEF HandleFence
  <1>5. ASSUME NEW m \in net, HandleFinalize(m) PROVE PaidInv'
    <2> DEFINE cost == IF m.kind = "settle" /\ row.route # 0 THEN Cost(m.k, row.route) ELSE 0
    <2>1. /\ m.kind \in {"settle", "capture"} /\ Handle(m, "ok") /\ UNCHANGED <<op, pc, att>>
          /\ row' = Finalize(row, m.kind, FALSE, cost)
      BY <1>5 DEF HandleFinalize, Handle
    <2>2. m.k \in Attempts /\ row.attempt
      BY <1>0, <2>1 DEF MessageInv, FenceInv, Finalizers
    <2>3. \A u, r \in Attempts : Cost(u, r) \in Nat
      BY UsageAssumption, RateAssumption DEF Cost
    <2>4. cost \in Nat
      <3>1. row.route # 0 => row.route \in Attempts
        BY <1>0 DEF TypeOK, Rows
      <3> QED BY <2>2, <2>3, <3>1
    <2>5. m.kind = "settle" /\ Held(row) =>
            op = "json" \/ (op \in Measured /\ pc \in Ending /\ cost = Cost(att, att))
      BY <1>0, <2>2 DEF SettleInv, RowInv, Held
    <2> HIDE DEF cost
    <2>6. /\ ChargeInv'
          /\ row'.route = row.route /\ row'.attempt = row.attempt
          /\ row'.status = "none" => row.status = "none"
      BY <2>1, <2>4, <2>5, PaidFinalize DEF Outcomes
    <2>7. RouteInv' /\ SettleInv' /\ CallerInv'
      BY <1>0, <2>1, <2>6
      DEF RouteInv, SettleInv, CallerInv, Handle, Asking, Planned, NoNext, RelayInv, Awaits
    <2> QED BY <2>6, <2>7 DEF PaidInv
  <1>6. ASSUME NEW m \in net, HandleAbort(m) PROVE PaidInv'
    <2>1. /\ m.kind = "abort" /\ Handle(m, "ok") /\ UNCHANGED <<op, pc, att>>
          /\ row' = Finalize(row, "abort", m.rejected, 0) /\ m.rejected \in BOOLEAN
      BY <1>0, <1>6 DEF HandleAbort, Handle, TypeOK, Messages
    <2>2. /\ ChargeInv'
          /\ row'.route = row.route /\ row'.attempt = row.attempt
          /\ row'.status = "none" => row.status = "none"
      BY <2>1, PaidFinalize DEF Outcomes
    <2>3. RouteInv' /\ SettleInv' /\ CallerInv'
      BY <1>0, <2>1, <2>2
      DEF RouteInv, SettleInv, CallerInv, Handle, Asking, Planned, NoNext, RelayInv, Awaits
    <2> QED BY <2>2, <2>3 DEF PaidInv
  <1> QED BY <1>1, <1>2, <1>3, <1>4, <1>5, <1>6 DEF Control

LEMMA PaidOthers ==
    ASSUME IInv, PaidInv,
           Sweeper \/ (\E k \in Attempts : Worker(k)) \/ ClientDisconnects \/ RelayCrash \/ UNCHANGED vars
    PROVE  PaidInv'
  <1>0. TypeOK /\ RouteInv /\ SettleInv /\ ChargeInv /\ CallerInv
    BY DEF IInv, PaidInv
  <1>1. CASE SweepFinalize
    <2>1. /\ sweep \in {"capture", "abort"} /\ row' = Finalize(row, sweep, FALSE, 0)
          /\ UNCHANGED <<op, net, pc, att, awaiting, reply, started, caller, attested>>
      BY <1>0, <1>1 DEF SweepFinalize, relayVars, TypeOK
    <2>2. /\ ChargeInv'
          /\ row'.route = row.route /\ row'.attempt = row.attempt
          /\ row'.status = "none" => row.status = "none"
      BY <2>1, PaidFinalize DEF Outcomes
    <2>3. RouteInv' /\ SettleInv' /\ CallerInv'
      <3>1. RouteInv'
        BY <1>0, <2>1, <2>2 DEF RouteInv, NoNext
      <3>2. SettleInv'
        BY <1>0, <2>1, <2>2 DEF SettleInv, NoNext
      <3>3. CallerInv'
        BY <1>0, <2>1, <2>2 DEF CallerInv
      <3> QED BY <3>1, <3>2, <3>3
    <2> QED BY <2>2, <2>3 DEF PaidInv
  <1>2. CASE RelayCrash
    BY <1>0, <1>2
    DEF RelayCrash, PaidInv, RouteInv, SettleInv, ChargeInv, CallerInv, NoNext, Asking, Ending, Planned,
        Serving, Finalized
  <1>3. CASE SweepSelect \/ (\E k \in Attempts : Worker(k)) \/ ClientDisconnects \/ UNCHANGED vars
    <2>1. UNCHANGED <<op, row, net, pc, att, awaiting, reply, started, caller, attested>>
      BY <1>3
      DEF SweepSelect, Worker, WorkerDispatch, ProviderAccepts, StreamEnds, WorkerFails,
          ClientDisconnects, relayVars, ledgerVars, vars
    <2> QED
      BY <1>0, <2>1 DEF PaidInv, RouteInv, SettleInv, ChargeInv, CallerInv, NoNext, Finalized
  <1> QED BY <1>1, <1>2, <1>3 DEF Sweeper

\* Model output that reached the caller is paid for, whichever of settle,
\* capture, abort and sweep reaches finalizeInferenceReservation first: at the
\* measured cost of the attempt that served it, or at the ceiling, never zero.
THEOREM DeliveryIsPaid == Spec => []DeliveredIsPaid
  <1>1. Init => PaidInv
    BY DEF Init, NoRow, PaidInv, RouteInv, SettleInv, ChargeInv, CallerInv, NoNext, Asking, Planned,
           Serving, Finalized
  <1>2. IInv /\ PaidInv /\ [Next]_vars => PaidInv'
    BY PaidRelay, PaidControl, PaidOthers DEF Next
  <1>3. IInv /\ PaidInv => DeliveredIsPaid
    <2> SUFFICES ASSUME IInv, PaidInv, caller # 0, Finalized(row)
                 PROVE  row.charged \in FairCharges
      BY DEF DeliveredIsPaid
    <2>1. row.attempt /\ ~attested /\ caller = att /\ row.charged \in Nat /\ op \in AllOps
      BY DEF IInv, TypeOK, Rows, PaidInv, CallerInv
    <2>2. row.status = "settled"
      BY <2>1 DEF IInv, RowInv, FencedReleaseIsAttested, Finalized
    <2>3. row.charged > 0 /\ row.charged <= Reserved
      BY <2>2 DEF PaidInv, ChargeInv
    <2>4. \/ row.charged = Reserved
          \/ op = "json"
          \/ op \in Measured /\ row.charged = Least(Cost(att, att), Reserved)
      BY <2>3 DEF PaidInv, ChargeInv
    <2> QED BY <2>1, <2>3, <2>4 DEF FairCharges, AllOps, Measured
  <1> QED BY <1>1, <1>2, <1>3, IInvInit, IInvNext, PTL DEF Spec
============================================================================

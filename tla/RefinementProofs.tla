-------------------------- MODULE RefinementProofs --------------------------
(***************************************************************************)
(* Relay, workers, control handlers and sweeper of Inference implement the *)
(* safety part of PrepaidRequest, for every plan length, hold, usage and   *)
(* price: the initial state is an initial state of the contract, and every *)
(* step is one of its steps or leaves all it speaks of unchanged.          *)
(***************************************************************************)
EXTENDS InferenceProofs

Step == Prepaid!PrepaidNext \/ UNCHANGED Prepaid!prepaid

AtProvider == {"dispatched", "accepted", "complete", "incomplete"}
Upstream == {k \in Attempts : wk[k] \in AtProvider}
Completed == done /\ op # "media"

\* The handler ends when it tells the caller the completion.
DoneInv == done => pc \in {"closed", "crashed"}

USE MaxAttemptsAssumption, OpsAssumption, ReservedAssumption DEF Attempts
----------------------------------------------------------------------------
\* The mapping, named: what of the contract's state a step may leave alone.
LEMMA Mapped ==
    /\ Prepaid!prepaid = <<row.status, row.charged, row.attempt, row.delivery, Upstream, ~gone,
                           attested, started, Completed>>
    /\ (UNCHANGED <<row.status, row.charged, row.attempt, row.delivery, Upstream, gone, attested,
                    started, Completed>>) => Step
  BY DEF Step, Prepaid!prepaid, Upstream, AtProvider, Completed

LEMMA DoneInvInit == Init => DoneInv
  BY DEF Init, DoneInv

----------------------------------------------------------------------------
(* The relay.  Its steps leave the ledger alone; each does one of four     *)
(* things to what the contract speaks of.                                  *)

LEMMA RelayEffect ==
    ASSUME TypeOK, Relay
    PROVE  /\ UNCHANGED <<op, row, gone>> /\ pc \notin {"closed", "crashed"}
           /\ \/ /\ UNCHANGED <<done, started, wk>>
                 /\ attested' = attested \/ (attested' = TRUE /\ ~gone)
              \/ /\ UNCHANGED <<done, started, attested>>
                 /\ \E k \in Attempts \cup {att, awaiting.k + 1} : wk' = [wk EXCEPT ![k] = "fencing"]
              \/ /\ UNCHANGED <<done, wk, attested>>
                 /\ started' = TRUE
              \/ /\ UNCHANGED <<started, wk, attested>>
                 /\ done' = ~gone /\ pc' = "closed"
  <1>0. op \in AllOps /\ gone \in BOOLEAN /\ attested \in BOOLEAN
    BY DEF TypeOK
  <1>1. CASE \/ SendAuthorize \/ AuthorizeOk \/ AuthorizeFail \/ RefuseRoute
             \/ AskCapable \/ SkipOk \/ SkipExhausted \/ SkipFail
    BY <1>0, <1>1
    DEF SendAuthorize, AuthorizeOk, AuthorizeFail, RefuseRoute, AskCapable, SkipOk,
        SkipExhausted, SkipFail, Abort, Call, Resume, Msg
  <1>2. CASE DispatchFirst \/ NextOk
    BY <1>2 DEF DispatchFirst, NextOk, Dispatch
  <1>3. CASE WorkerOk
    BY <1>0, <1>3 DEF WorkerOk, Call, Resume, Msg, AllOps
  <1>4. CASE WorkerFail \/ AskNext \/ GiveUp \/ NextIncapable \/ NextFail
    BY <1>0, <1>4
    DEF WorkerFail, AskNext, GiveUp, NextIncapable, NextFail, Abort, Call, Resume, Msg, Attests
  <1>5. CASE SettleOk \/ CaptureOk \/ CapturePending \/ StreamSettleOk \/ StreamErrorDone
    BY <1>0, <1>5
    DEF SettleOk, CaptureOk, CapturePending, StreamSettleOk, StreamErrorDone, Respond, Resume
  <1>6. CASE SettleNetworkFail \/ SettleFail \/ CaptureFail \/ AbortEnds
    BY <1>0, <1>6
    DEF SettleNetworkFail, SettleFail, CaptureFail, AbortEnds, Abort, Call, Resume, Msg, Attests
  <1>7. CASE CaptureRetry \/ StreamSettleRetry
    BY <1>0, <1>7 DEF CaptureRetry, StreamSettleRetry, Call
  <1>8. CASE SendDelivery \/ StreamComplete \/ StreamPartial \/ StreamDestroyed
    BY <1>0, <1>8 DEF SendDelivery, StreamComplete, StreamPartial, StreamDestroyed, Call, Resume, Msg
  <1>9. CASE DeliveryOk
    BY <1>9 DEF DeliveryOk, Resume
  <1>10. CASE StreamFailsOnControl \/ StreamFailsOnStream
    BY <1>0, <1>10 DEF StreamFailsOnControl, StreamFailsOnStream, StreamFails, Call, Msg
  <1> QED BY <1>1, <1>2, <1>3, <1>4, <1>5, <1>6, <1>7, <1>8, <1>9, <1>10 DEF Relay

LEMMA RelayRefines ==
    ASSUME IInv, Relay, DoneInv, DoneIsDurable', StreamedIsFenced'
    PROVE  Step
  <1>0. /\ TypeOK /\ row \in Rows /\ wk \in [Attempts -> WorkerStates]
        /\ gone \in BOOLEAN /\ done \in BOOLEAN
    BY DEF IInv, TypeOK
  <1>1. UNCHANGED <<op, row, gone>> /\ ~done
    BY <1>0, RelayEffect DEF DoneInv
  <1>2. CASE /\ UNCHANGED <<done, started, wk>>
             /\ attested' = attested \/ (attested' = TRUE /\ ~gone)
    <2>1. UNCHANGED <<Upstream, Completed>>
      BY <1>1, <1>2 DEF Upstream, Completed
    <2>2. CASE attested' = attested
      BY <1>1, <1>2, <2>1, <2>2, Mapped
    <2>3. CASE attested' = TRUE /\ ~gone
      <3>1. Prepaid!Vouch
        BY <1>1, <1>2, <2>1, <2>3 DEF Prepaid!Vouch, Upstream, AtProvider, Completed
      <3> QED BY <3>1 DEF Step, Prepaid!PrepaidNext
    <2> QED BY <1>2, <2>2, <2>3
  <1>3. ASSUME UNCHANGED <<done, started, attested>>,
               NEW k, wk' = [wk EXCEPT ![k] = "fencing"]
        PROVE  Step
    <2>1. UNCHANGED Completed
      BY <1>1, <1>3 DEF Completed
    <2>2. CASE k \in Attempts
      <3>1. Upstream' = Upstream \ {k}
        BY <1>0, <1>3, <2>2 DEF Upstream, AtProvider
      <3>2. Prepaid!Rejected(k)
        BY <1>1, <1>3, <2>1, <3>1 DEF Prepaid!Rejected, Upstream, AtProvider, Completed
      <3> QED BY <2>2, <3>2 DEF Step, Prepaid!PrepaidNext
    <2>3. CASE k \notin Attempts
      <3>1. wk' = wk
        BY <1>0, <1>3, <2>3
      <3> QED BY <1>1, <1>3, <2>1, <3>1, Mapped DEF Upstream
    <2> QED BY <2>2, <2>3
  <1>4. CASE UNCHANGED <<done, wk, attested>> /\ started' = TRUE
    <2>1. UNCHANGED <<Upstream, Completed>> /\ row.delivery
      BY <1>1, <1>4 DEF Upstream, Completed, StreamedIsFenced
    <2>2. Prepaid!StreamOutput
      BY <1>1, <1>4, <2>1 DEF Prepaid!StreamOutput, Upstream, AtProvider, Completed
    <2> QED BY <2>2 DEF Step, Prepaid!PrepaidNext
  <1>5. CASE UNCHANGED <<started, wk, attested>> /\ done' = ~gone
    <2>1. UNCHANGED Upstream
      BY <1>5 DEF Upstream
    <2>2. CASE gone \/ op = "media"
      <3>1. UNCHANGED Completed
        BY <1>0, <1>1, <1>5, <2>2 DEF Completed
      <3> QED BY <1>1, <1>5, <2>1, <3>1, Mapped
    <2>3. CASE ~gone /\ op # "media"
      <3>1. Finalized(row) /\ Completed' = TRUE
        BY <1>1, <1>5, <2>3 DEF DoneIsDurable, Completed, Finalized
      <3>2. Prepaid!Complete
        BY <1>1, <1>5, <2>1, <2>3, <3>1
        DEF Prepaid!Complete, Prepaid!Ended, Finalized, Upstream, AtProvider, Completed
      <3> QED BY <3>2 DEF Step, Prepaid!PrepaidNext
    <2> QED BY <2>2, <2>3
  <1> QED BY <1>0, <1>2, <1>3, <1>4, <1>5, RelayEffect
----------------------------------------------------------------------------
(* The workers, the client and the relay process.                          *)

LEMMA WorkerRefines ==
    ASSUME IInv, NEW k \in Attempts, Worker(k)
    PROVE  Step
  <1>0. wk \in [Attempts -> WorkerStates] /\ FenceInv
    BY DEF IInv, TypeOK
  <1>1. UNCHANGED <<op, row, gone, attested, started, done, Completed>>
    BY DEF Worker, WorkerDispatch, ProviderAccepts, StreamEnds, WorkerFails, ledgerVars,
           relayVars, Completed
  <1>2. CASE WorkerDispatch(k)
    <2>1. wk[k] = "granted" /\ wk' = [wk EXCEPT ![k] = "dispatched"]
      BY <1>2 DEF WorkerDispatch
    <2>2. Upstream' = Upstream \cup {k} /\ row.attempt
      BY <1>0, <2>1 DEF Upstream, AtProvider, FenceInv, Granted
    <2>3. Prepaid!GoUpstream(k)
      BY <1>1, <2>2 DEF Prepaid!GoUpstream, Upstream, AtProvider, Completed
    <2> QED BY <2>3 DEF Step, Prepaid!PrepaidNext
  <1>3. CASE ProviderAccepts(k) \/ StreamEnds(k)
    <2>1. wk[k] \in AtProvider
          /\ \E to \in AtProvider : wk' = [wk EXCEPT ![k] = to]
      BY <1>3 DEF ProviderAccepts, StreamEnds, AtProvider
    <2>2. Upstream' = Upstream
      BY <1>0, <2>1 DEF Upstream
    <2> QED BY <1>1, <2>2, Mapped
  <1>4. CASE WorkerFails(k)
    <2>1. wk' = [wk EXCEPT ![k] = "failed"]
      BY <1>4 DEF WorkerFails
    <2>2. Upstream' = Upstream \ {k}
      BY <1>0, <2>1 DEF Upstream, AtProvider
    <2>3. Prepaid!Rejected(k)
      BY <1>1, <2>2 DEF Prepaid!Rejected, Upstream, AtProvider, Completed
    <2> QED BY <2>3 DEF Step, Prepaid!PrepaidNext
  <1> QED BY <1>2, <1>3, <1>4 DEF Worker

LEMMA ClientRefines ==
    ASSUME ClientDisconnects \/ RelayCrash
    PROVE  Step
  <1>1. CASE ClientDisconnects
    <2>1. UNCHANGED <<op, row, wk, attested, started, done, Upstream, Completed>> /\ gone' = TRUE
      BY <1>1 DEF ClientDisconnects, ledgerVars, relayVars, Upstream, Completed
    <2>2. Prepaid!Leave
      BY <2>1 DEF Prepaid!Leave, Upstream, AtProvider, Completed
    <2> QED BY <2>2 DEF Step, Prepaid!PrepaidNext
  <1>2. CASE RelayCrash
    <2>1. UNCHANGED <<row, gone, attested, started, Upstream, Completed>>
      BY <1>2 DEF RelayCrash, Upstream, Completed
    <2> QED BY <2>1, Mapped
  <1> QED BY <1>1, <1>2
----------------------------------------------------------------------------
(* The ledger.                                                             *)

\* What the control handlers and the sweeper leave alone.
Apart == UNCHANGED <<gone, attested, started, Upstream, Completed>>

\* finalizeInferenceReservation charges a fenced hold, releases one that owes
\* nothing, or finds nothing to do.
LEMMA FinalizeRefines ==
    ASSUME IInv, Apart, NEW outcome \in Outcomes, NEW rejected \in BOOLEAN, NEW cost \in Nat,
           row' = Finalize(row, outcome, rejected, cost),
           outcome \in Finalizers => row.attempt,
           outcome = "settle" /\ Held(row) => cost > 0,
           rejected => attested
    PROVE  Step
  <1>0. row \in Rows /\ RowInv
    BY DEF IInv, TypeOK
  <1>1. /\ row'.attempt = row.attempt /\ row'.delivery = row.delivery
        /\ (~Held(row) => row' = row)
    BY <1>0, FinalizeResult
  <1>2. CASE ~Held(row)
    BY <1>1, <1>2, Mapped DEF Apart
  <1>3. CASE Held(row)
    <2> DEFINE charge == Charge(row, outcome, rejected, cost)
    <2>1. /\ row'.charged = charge /\ charge \in Nat
          /\ row'.status = IF charge > 0 THEN "settled" ELSE "released"
      BY <1>0, <1>3, FinalizeResult, ChargeIsNat
    <2>2. row.reserved = Reserved /\ row.charged = 0 /\ (row.delivery => row.attempt)
      BY <1>0, <1>3 DEF RowInv
    <2>3. charge \leq Reserved
      BY <2>2 DEF Charge, Least
    <2>4. charge > 0 => row.attempt
      <3>1. CASE outcome \in Finalizers
        BY <3>1
      <3>2. CASE outcome = "abort"
        BY <2>2, <3>2 DEF Charge, CapturesCeiling
      <3> QED BY <3>1, <3>2 DEF Outcomes, Finalizers
    <2>5. charge = 0 => ~row.delivery /\ (row.attempt => attested)
      <3>1. CASE outcome = "capture"
        BY <2>2, <3>1 DEF Charge, CapturesCeiling
      <3>2. CASE outcome = "settle"
        BY <1>3, <2>2, <3>2 DEF Charge, CapturesCeiling, Least
      <3>3. CASE outcome = "abort"
        BY <2>2, <3>3 DEF Charge, CapturesCeiling
      <3> QED BY <3>1, <3>2, <3>3 DEF Outcomes
    <2> HIDE DEF charge
    <2>6. CASE charge > 0
      <3>1. Prepaid!ChargeHold
        BY <1>1, <1>3, <2>1, <2>3, <2>4, <2>6
        DEF Apart, Prepaid!ChargeHold, Held, Upstream, AtProvider, Completed
      <3> QED BY <3>1 DEF Step, Prepaid!PrepaidNext, Prepaid!EndHold
    <2>7. CASE charge = 0
      <3>1. Prepaid!ReleaseHold
        BY <1>1, <1>3, <2>1, <2>2, <2>5, <2>7
        DEF Apart, Prepaid!ReleaseHold, Held, Upstream, AtProvider, Completed
      <3> QED BY <3>1 DEF Step, Prepaid!PrepaidNext, Prepaid!EndHold
    <2> QED BY <2>1, <2>6, <2>7
  <1> QED BY <1>2, <1>3

LEMMA ControlRefines ==
    ASSUME IInv, Control
    PROVE  Step
  <1>0. /\ row \in Rows /\ RowInv /\ MessageInv /\ FenceInv /\ net \subseteq Messages
        /\ wk \in [Attempts -> WorkerStates]
    BY DEF IInv, TypeOK
  <1>1. ASSUME NEW m, NEW answer, Handle(m, answer), UNCHANGED wk PROVE Apart
    BY <1>1 DEF Handle, Apart, Upstream, Completed
  <1>2. CASE HandleAuthorize
    <2>1. Apart
      BY <1>1, <1>2 DEF HandleAuthorize
    <2>2. CASE row' = row
      BY <2>1, <2>2, Mapped DEF Apart
    <2>3. CASE row.status = "none" /\ row' = NewRow
      <3>1. ~row.attempt /\ row.charged = 0 /\ ~row.delivery
        BY <1>0, <2>3 DEF RowInv
      <3>2. Prepaid!PlaceHold
        BY <1>0, <2>1, <2>3, <3>1
        DEF Apart, NewRow, Rows, Prepaid!PlaceHold, Upstream, AtProvider, Completed
      <3> QED BY <3>2 DEF Step, Prepaid!PrepaidNext
    <2> QED BY <1>2, <2>2, <2>3 DEF HandleAuthorize
  <1>3. CASE HandleDelivery
    <2>1. Apart /\ row' = MarkDelivery(row)
      BY <1>1, <1>3 DEF HandleDelivery
    <2>2. CASE Held(row)
      <3>1. /\ row'.status = row.status /\ row'.charged = row.charged
            /\ row'.attempt = TRUE /\ row'.delivery = TRUE
        BY <1>0, <2>1, <2>2 DEF MarkDelivery, Rows
      <3>2. Prepaid!RaiseFence
        BY <2>1, <2>2, <3>1 DEF Apart, Held, Prepaid!RaiseFence, Upstream, AtProvider, Completed
      <3> QED BY <3>2 DEF Step, Prepaid!PrepaidNext
    <2>3. CASE ~Held(row)
      BY <2>1, <2>3, Mapped DEF Apart, MarkDelivery
    <2> QED BY <2>2, <2>3
  <1>4. ASSUME NEW m \in net, HandleNext(m) PROVE Step
    <2>1. Apart
      BY <1>1, <1>4 DEF HandleNext
    <2>2. row' = row \/ \E r : row' = UpdateRoute(row, r)
      BY <1>4 DEF HandleNext
    <2>3. /\ row'.status = row.status /\ row'.charged = row.charged
          /\ row'.attempt = row.attempt /\ row'.delivery = row.delivery
      BY <1>0, <2>2 DEF UpdateRoute, Rows
    <2> QED BY <2>1, <2>3, Mapped DEF Apart
  <1>5. ASSUME NEW m \in net, HandleFence(m) PROVE Step
    <2>1. UNCHANGED <<op, gone, attested, started, done>>
      BY <1>5 DEF HandleFence, Handle
    <2>2. /\ row' = row \/ row' = MarkAttempt(row)
          /\ \E to \in {"granted", "refused"} : wk' = [wk EXCEPT ![m.k] = IF @ = "fencing" THEN to ELSE @]
      BY <1>5 DEF HandleFence
    <2>3. \A k \in Attempts : wk'[k] = wk[k] \/ (wk[k] = "fencing" /\ wk'[k] \in {"granted", "refused"})
      BY <1>0, <2>2
    <2>4. Apart
      <3>1. \A k \in Attempts : wk'[k] \in AtProvider <=> wk[k] \in AtProvider
        BY <2>3 DEF AtProvider
      <3>2. Upstream' = Upstream
        BY <3>1 DEF Upstream
      <3>3. Completed' = Completed
        BY <2>1 DEF Completed
      <3> QED BY <2>1, <3>2, <3>3 DEF Apart
    <2>5. CASE row' = row
      BY <2>4, <2>5, Mapped DEF Apart
    <2>6. CASE row' = MarkAttempt(row) /\ Held(row)
      <3>1. /\ row'.status = row.status /\ row'.charged = row.charged
            /\ row'.attempt = TRUE /\ row'.delivery = row.delivery
        BY <1>0, <2>6 DEF MarkAttempt, Rows
      <3>2. Prepaid!RaiseFence
        BY <2>4, <2>6, <3>1 DEF Apart, Held, Prepaid!RaiseFence, Upstream, AtProvider, Completed
      <3> QED BY <3>2 DEF Step, Prepaid!PrepaidNext
    <2> QED BY <2>2, <2>5, <2>6 DEF MarkAttempt
  <1>6. ASSUME NEW m \in net, HandleFinalize(m) PROVE Step
    <2> DEFINE cost == IF m.kind = "settle" /\ row.route # 0 THEN Cost(m.k, row.route) ELSE 0
    <2>1. Apart /\ m.kind \in Finalizers /\ row' = Finalize(row, m.kind, FALSE, cost)
      BY <1>1, <1>6 DEF HandleFinalize, Finalizers
    <2>2. m.k \in Attempts /\ row.attempt
      BY <1>0, <2>1 DEF MessageInv, FenceInv
    <2>3. row.route \in 0 .. MaxAttempts
      BY <1>0 DEF Rows
    <2>4. row.route \in Attempts => Cost(m.k, row.route) \in Nat /\ Cost(m.k, row.route) > 0
      <3>1. ASSUME row.route \in Attempts
            PROVE  Usage[m.k] \in Nat \ {0} /\ Rate[row.route] \in Nat \ {0}
        BY <2>2, <3>1, UsageAssumption, RateAssumption
      <3>2. \A x, y \in Nat \ {0} : x * y \in Nat /\ x * y > 0
        OBVIOUS
      <3> QED BY <3>1, <3>2 DEF Cost
    <2>5. cost \in Nat /\ (m.kind = "settle" /\ Held(row) => cost > 0)
      BY <1>0, <2>3, <2>4 DEF RowInv
    <2> HIDE DEF cost
    <2>6. m.kind \in Outcomes
      BY <2>1 DEF Finalizers, Outcomes
    <2> QED BY <2>1, <2>2, <2>5, <2>6, FinalizeRefines
  <1>7. ASSUME NEW m \in net, HandleAbort(m) PROVE Step
    <2>1. Apart /\ m.kind = "abort" /\ row' = Finalize(row, "abort", m.rejected, 0)
      BY <1>1, <1>7 DEF HandleAbort
    <2>2. m.rejected \in BOOLEAN /\ (m.rejected => attested)
      BY <1>0, <2>1 DEF Messages, MessageInv
    <2> QED BY <2>1, <2>2, FinalizeRefines DEF Outcomes, Finalizers
  <1> QED BY <1>2, <1>3, <1>4, <1>5, <1>6, <1>7 DEF Control

LEMMA SweeperRefines ==
    ASSUME IInv, Sweeper
    PROVE  Step
  <1>1. Apart
    <2>1. UNCHANGED <<op, wk, gone, attested, started, done>>
      BY DEF Sweeper, SweepSelect, SweepFinalize, relayVars
    <2>2. Upstream' = Upstream
      BY <2>1 DEF Upstream
    <2>3. Completed' = Completed
      BY <2>1 DEF Completed
    <2> QED BY <2>1, <2>2, <2>3 DEF Apart
  <1>2. CASE SweepSelect
    BY <1>1, <1>2, Mapped DEF SweepSelect, ledgerVars, Apart
  <1>3. CASE SweepFinalize
    <2>1. /\ sweep \in {"capture", "abort"} /\ row' = Finalize(row, sweep, FALSE, 0)
          /\ (sweep = "capture" => row.attempt)
      BY <1>3 DEF SweepFinalize, IInv, TypeOK, FenceInv
    <2> QED BY <1>1, <2>1, FinalizeRefines DEF Outcomes, Finalizers
  <1> QED BY <1>2, <1>3 DEF Sweeper
----------------------------------------------------------------------------
LEMMA DoneInvNext ==
    ASSUME TypeOK, DoneInv, [Next]_vars
    PROVE  DoneInv'
  <1>1. CASE Relay
    BY <1>1, RelayEffect DEF DoneInv
  <1>2. CASE Control \/ Sweeper \/ (\E k \in Attempts : Worker(k)) \/ ClientDisconnects
    BY <1>2
    DEF DoneInv, Control, HandleAuthorize, HandleDelivery, HandleNext, HandleFence,
        HandleFinalize, HandleAbort, Handle, Sweeper, SweepSelect, SweepFinalize, Worker,
        WorkerDispatch, ProviderAccepts, StreamEnds, WorkerFails, ClientDisconnects, relayVars
  <1>3. CASE RelayCrash \/ UNCHANGED vars
    BY <1>3 DEF RelayCrash, vars, DoneInv
  <1> QED BY <1>1, <1>2, <1>3 DEF Next

LEMMA StepRefines ==
    ASSUME IInv, DoneInv, DoneIsDurable', StreamedIsFenced', [Next]_vars
    PROVE  [Prepaid!PrepaidNext]_(Prepaid!prepaid)
  <1>1. CASE Next
    BY <1>1, RelayRefines, ControlRefines, SweeperRefines, WorkerRefines, ClientRefines
    DEF Next, Step
  <1>2. CASE UNCHANGED vars
    BY <1>2, Mapped DEF vars, Step, Upstream, Completed
  <1> QED BY <1>1, <1>2

\* However relay, workers, control and sweeper interleave and whatever is lost,
\* late or repeated, a request keeps the safety part of its contract: hold,
\* fences, charge, release, stream and completion in their order.
THEOREM RequestIsPrepaid == Spec => Prepaid!PrepaidSafety
  <1>1. Init => Prepaid!PrepaidInit
    <2> SUFFICES ASSUME Init PROVE Prepaid!PrepaidInit
      OBVIOUS
    <2>1. Upstream = {}
      BY DEF Init, Upstream, AtProvider
    <2> QED BY <2>1 DEF Init, NoRow, Prepaid!PrepaidInit, Upstream, AtProvider
  <1>2. TypeOK /\ DoneInv /\ [Next]_vars => DoneInv'
    BY DoneInvNext
  <1>3. IInv /\ DoneInv /\ DoneIsDurable' /\ StreamedIsFenced' /\ [Next]_vars
          => [Prepaid!PrepaidNext]_(Prepaid!prepaid)
    BY StepRefines
  <1>4. Spec => []IInv
    BY IInvInit, IInvNext, PTL DEF Spec
  <1> QED BY <1>1, <1>2, <1>3, <1>4, DoneInvInit, TypeCorrect, CompletionIsDurable,
             StreamFollowsFence, PTL DEF Spec, Prepaid!PrepaidSafety
=============================================================================

---------------------------- MODULE Reservation ----------------------------
(***************************************************************************)
(* One row of billing.inference_reservations and the pure decisions the    *)
(* ledger takes about it.  Every function of metering/billing.ts reads and *)
(* writes the row inside one database transaction that holds the row lock, *)
(* so each decision below is a function of the row as it is at that        *)
(* moment, never of an earlier snapshot.  Amounts are whole micro-USD.     *)
(***************************************************************************)
EXTENDS Naturals

Outcomes == {"settle", "capture", "abort"}
Statuses == {"none", "reserved", "settled", "released"}

\* "none" stands for a request id with no row.
Finalized(row) == row.status \in {"settled", "released"}
Held(row) == row.status = "reserved"

Least(a, b) == IF a < b THEN a ELSE b

----------------------------------------------------------------------------
(* finalizeInferenceReservation                                            *)

\* A mutation: the provider-attempt fence no longer makes an abort capture.
CapturesIgnoringAttempt(row, outcome, rejected) ==
    outcome = "capture" \/ (outcome = "abort" /\ row.delivery)

\* captureAuthorizedCeiling: an abort is turned into a capture once output was
\* fenced for delivery, or once a provider attempt was fenced and the relay
\* does not attest that the provider rejected it.
CapturesCeiling(row, outcome, rejected) ==
    \/ outcome = "capture"
    \/ /\ outcome = "abort"
       /\ row.delivery \/ (row.attempt /\ ~rejected)

\* The amount a finalization takes from the hold; cost is the measured
\* provider cost and only a settle looks at it.
Charge(row, outcome, rejected, cost) ==
    IF CapturesCeiling(row, outcome, rejected) THEN row.reserved
    ELSE IF outcome = "settle" THEN Least(cost, row.reserved)
    ELSE 0

\* A mutation: the terminal status no longer guards a second finalization.
FinalizeAgain(row, outcome, rejected, cost) ==
    IF row.status = "none" THEN row
    ELSE LET charge == Charge(row, outcome, rejected, cost) IN
         [row EXCEPT !.status = IF charge > 0 THEN "settled" ELSE "released",
                     !.charged = charge]

\* The row after finalizeInferenceReservation.  A missing or an already
\* terminal row is left alone: the call answers success and changes nothing.
Finalize(row, outcome, rejected, cost) ==
    IF ~Held(row) THEN row
    ELSE LET charge == Charge(row, outcome, rejected, cost) IN
         [row EXCEPT !.status = IF charge > 0 THEN "settled" ELSE "released",
                     !.charged = charge]

----------------------------------------------------------------------------
(* markInferenceProviderAttemptStarted, markInferenceDeliveryStarted and   *)
(* updateInferenceReservationRoute                                         *)

\* The fence answers success for a held row, and for a terminal row whose
\* attempt was fenced before (a repeated acknowledgement).
AttemptAllowed(row) == Held(row) \/ (Finalized(row) /\ row.attempt)
MarkAttempt(row) == IF Held(row) THEN [row EXCEPT !.attempt = TRUE] ELSE row

\* The delivery fence: a terminal row only acknowledges a delivery fenced
\* while it was held.
DeliveryAllowed(row) == Held(row) \/ (Finalized(row) /\ row.delivery)
MarkDelivery(row) ==
    IF Held(row) THEN [row EXCEPT !.attempt = TRUE, !.delivery = TRUE] ELSE row

\* A fallback repoints a held row at the next route; the hold is unchanged.
UpdateRoute(row, route) == IF Held(row) THEN [row EXCEPT !.route = route] ELSE row
============================================================================

--------------------------- MODULE PrepaidRequest ---------------------------
(***************************************************************************)
(* What the system promises about one prepaid request, with relay, worker, *)
(* network, retries and sweeper left out: a hold is placed and ended once; *)
(* an attempt goes upstream only behind a fence, and after the fence only  *)
(* a charge ends the hold, unless the relay vouched, while the caller was  *)
(* there, that the provider rejected the request; output is streamed only  *)
(* behind a second fence, after which nothing but a charge ends the hold;  *)
(* and a completion is told to the caller only once the hold has ended.    *)
(***************************************************************************)
EXTENDS Naturals

CONSTANTS
    Amount,  \* the hold
    Tries    \* the provider attempts

VARIABLES
    hold,       \* "none", "reserved", "settled" (charged) or "released"
    charge,     \* what was taken from the hold
    fenced,     \* an attempt may be upstream
    owed,       \* output may be at the caller
    upstream,   \* the attempts that went upstream and were not rejected
    present,    \* the caller is connected
    attested,   \* a rejection was vouched for
    streamed,   \* output is at the caller
    completed   \* the completion was told

prepaid == <<hold, charge, fenced, owed, upstream, present, attested, streamed, completed>>

PrepaidInit ==
    /\ hold = "none" /\ charge = 0
    /\ fenced = FALSE /\ owed = FALSE /\ upstream = {}
    /\ present = TRUE /\ attested = FALSE
    /\ streamed = FALSE /\ completed = FALSE

Ended == hold \in {"settled", "released"}

PlaceHold ==
    /\ hold = "none"
    /\ hold' = "reserved"
    /\ UNCHANGED <<charge, fenced, owed, upstream, present, attested, streamed, completed>>

RaiseFence ==
    /\ hold = "reserved"
    /\ fenced' = TRUE /\ owed' \in {owed, TRUE}
    /\ UNCHANGED <<hold, charge, upstream, present, attested, streamed, completed>>

GoUpstream(k) ==
    /\ fenced
    /\ upstream' = upstream \cup {k}
    /\ UNCHANGED <<hold, charge, fenced, owed, present, attested, streamed, completed>>

Rejected(k) ==
    /\ upstream' = upstream \ {k}
    /\ UNCHANGED <<hold, charge, fenced, owed, present, attested, streamed, completed>>

Leave ==
    /\ present' = FALSE
    /\ UNCHANGED <<hold, charge, fenced, owed, upstream, attested, streamed, completed>>

Vouch ==
    /\ present
    /\ attested' = TRUE
    /\ UNCHANGED <<hold, charge, fenced, owed, upstream, present, streamed, completed>>

StreamOutput ==
    /\ owed
    /\ streamed' = TRUE
    /\ UNCHANGED <<hold, charge, fenced, owed, upstream, present, attested, completed>>

Complete ==
    /\ Ended /\ present
    /\ completed' = TRUE
    /\ UNCHANGED <<hold, charge, fenced, owed, upstream, present, attested, streamed>>

ChargeHold ==
    /\ hold = "reserved" /\ fenced
    /\ hold' = "settled" /\ charge' \in 1 .. Amount
    /\ UNCHANGED <<fenced, owed, upstream, present, attested, streamed, completed>>

ReleaseHold ==
    /\ hold = "reserved" /\ ~owed /\ (fenced => attested)
    /\ hold' = "released"
    /\ UNCHANGED <<charge, fenced, owed, upstream, present, attested, streamed, completed>>

EndHold == ChargeHold \/ ReleaseHold

PrepaidNext ==
    \/ PlaceHold \/ RaiseFence \/ (\E k \in Tries : GoUpstream(k) \/ Rejected(k))
    \/ Leave \/ Vouch \/ StreamOutput \/ Complete \/ EndHold

PrepaidSafety == PrepaidInit /\ [][PrepaidNext]_prepaid

\* A hold that was placed ends.
PrepaidSpec == PrepaidSafety /\ WF_prepaid(EndHold)
=============================================================================

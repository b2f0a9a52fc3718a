----------------------------- MODULE MCBilling -----------------------------
(* The sweep of Billing: requests of one account, one key and one price. *)
EXTENDS Billing

CONSTANTS a1, k1

OneAccount == [r \in Requests |-> a1]
OneKey == [r \in Requests |-> k1]
Unit == [r \in Requests |-> 1]
LimitHigh == [k \in Keys |-> 100]
============================================================================

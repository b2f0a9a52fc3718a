-------------------------- MODULE MCVeniceCircuits --------------------------
(***************************************************************************)
(* A small instance of VeniceCircuits.  Calls are alike and so are scopes, *)
(* and no property names one, so it is enough to start from one assignment *)
(* of scopes to calls for each way to split the calls between two scopes.  *)
(***************************************************************************)
EXTENDS VeniceCircuits

CONSTANTS s1, s2

SplitInit ==
    /\ Init
    /\ \E n \in 2 .. 4 : \A c \in Calls : calls[c].scope = IF c <= n THEN s1 ELSE s2

SplitSpec == SplitInit /\ [][Next]_vars /\ Fairness
============================================================================

------------------------------ MODULE MCValkey ------------------------------
(***************************************************************************)
(* The protection state in Valkey on small instances.  Its parts share no  *)
(* key and no script, so a behaviour runs one of them: interleaving two    *)
(* would only multiply their states.                                       *)
(***************************************************************************)
EXTENDS TokenBuckets, ConcurrencyLeases, Tickets, ProtectionCounters, TLC

CONSTANTS narrow, broad, wide, single

MCCapacity == [b \in Buckets |-> IF b = narrow THEN 2 ELSE 3]
MCRefill == [b \in Buckets |-> IF b = narrow THEN 1 ELSE 2]
MCTtl == [b \in Buckets |-> 2]
OfNarrow == [b \in {narrow} |-> 2]
OfBoth == [b \in {narrow, broad} |-> 1]
OfBroad == [b \in {broad} |-> 3]
MCCharges == {OfNarrow, OfBoth, OfBroad}
MCLimit == [k \in Keys |-> IF k = wide THEN 2 ELSE 1]

Symmetry == Permutations(Leases)

VARIABLE part  \* the part that runs

vars == <<part, bucketVars, leaseVars, ticketVars, counterVars>>

Init ==
    /\ part \in {"buckets", "leases", "tickets", "counters"}
    /\ BucketsInit /\ LeasesInit /\ TicketsInit /\ CountersInit

RestOfBuckets == <<store, since, spent, late>>
RestOfLeases == <<zset, expires, assoc, assocExpires, lease, granted, released>>
RestOfTickets == <<ticket, issuedAt, bound, state, published>>
RestOfCounters == <<authVars, freeVars>>

RunBuckets == part = "buckets" /\ BucketsNext /\ UNCHANGED <<part, RestOfLeases, RestOfTickets, RestOfCounters>>
RunLeases == part = "leases" /\ LeasesNext /\ UNCHANGED <<part, RestOfBuckets, RestOfTickets, RestOfCounters>>
RunTickets == part = "tickets" /\ TicketsNext /\ UNCHANGED <<part, RestOfBuckets, RestOfLeases, RestOfCounters>>
RunCounters == part = "counters" /\ CountersNext /\ UNCHANGED <<part, RestOfBuckets, RestOfLeases, RestOfTickets>>

Next == RunBuckets \/ RunLeases \/ RunTickets \/ RunCounters

Spec == Init /\ [][Next]_vars
============================================================================

------------------------------ MODULE MCLedger ------------------------------
(***************************************************************************)
(* Billing on small instances.  A behaviour keeps to one scenario, which   *)
(* fixes what the environment does: which requests arrive and how they are *)
(* funded, whether midnight passes, output is streamed, a model vanishes   *)
(* or a hold goes stale.  What the ledger does is never restricted.        *)
(***************************************************************************)
EXTENDS Billing

CONSTANTS a1, a2, limited, open, w1, w2, r1, r2, r3

MCAccountOf == [r \in Requests |-> IF r = r2 THEN a2 ELSE a1]
MCKeyOf == [r \in Requests |-> IF r \in {w1, w2} THEN limited ELSE open]
MCAmountOf == [r \in Requests |-> IF r \in {w1, r1} THEN 3 ELSE 2]
MCKeyLimit == [k \in Keys |-> IF k = limited THEN 4 ELSE 100]

\* Only the requests of rs arrive, all of them funded by f.
Arrives(rs, f) ==
    \A r \in Requests : IF r \in rs THEN row[r].status # "none" => row[r].funding = f
                                    ELSE row[r] = NoRow /\ hold[r] = NoHold

NoDailyHold == \A a \in Accounts, d \in Day : ~daily[a][d].open
InCatalog == vanished = {}
NoStream == \A r \in Requests : ~row[r].delivery
OneSweep == stale \subseteq {r1}
NoCredit == \A a \in Accounts : credited[a] = 0
OneWallet == credited[a2] = 0

Wallet == Arrives({w1, w2}, "balance") /\ OneWallet /\ NoDailyHold /\ today = 1
Daily == Arrives({r1, r3}, "balance") /\ OneWallet /\ InCatalog /\ NoStream /\ OneSweep
Trial == Arrives({r1, r3}, "trial") /\ NoDailyHold /\ today = 1 /\ InCatalog /\ NoCredit
Pool ==
    /\ Arrives({r1, r2, r3}, "trial_pool") /\ NoDailyHold
    /\ InCatalog /\ NoStream /\ OneSweep /\ NoCredit

KeepsToScenario == (Wallet \/ Daily \/ Trial \/ Pool)'
============================================================================

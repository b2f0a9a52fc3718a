---------------------------- MODULE BillingLocks ----------------------------
(***************************************************************************)
(* The row locks of the ledger's transactions (src/metering/billing.ts,    *)
(* src/rate-limit/plans.ts).  Every statement of a transaction that takes  *)
(* a row lock is one step; the locks are held until COMMIT or ROLLBACK.    *)
(* What the transactions compute is in Billing: there they are atomic, and *)
(* this module shows that the locks that make them so cannot close a cycle.*)
(*                                                                         *)
(* An account may have no row in billing.balances (WithBalance): the       *)
(* SELECT ... FOR UPDATE of reserveBalance then locks nothing, and two     *)
(* reservations of that account meet only at later rows.  The stale        *)
(* sweeper is a transaction like the others: it holds no concurrency lease.*)
(***************************************************************************)
EXTENDS Naturals, Sequences, FiniteSets

CONSTANTS
    Txns,          \* database connections, each with at most one transaction
    Accounts,      \* accounts; each has one reservation to finalize
    WithBalance    \* the accounts that have a wallet row

ASSUME LockAssumption == WithBalance \subseteq Accounts

VARIABLES
    todo,   \* todo[t]: the row locks transaction t has still to take, in order
    held    \* held[t]: the row locks it holds

lockVars == <<todo, held>>

\* A row lock: the table, the account (or reservation) of the row, the mode.
Lock(table, a, mode) == [table |-> table, of |-> a, mode |-> mode]
Update(table, a) == Lock(table, a, "update")
Shared(table) == Lock(table, "all", "share")
Global(table) == Lock(table, "all", "update")

Conflict(k, l) == k.table = l.table /\ k.of = l.of /\ "update" \in {k.mode, l.mode}

\* A SELECT ... FOR UPDATE of a wallet row that may not exist.
Balance(a) == IF a \in WithBalance THEN <<Update("balances", a)>> ELSE <<>>

\* Connected-app requests lock grant, client, account, workspace and key in
\* one statement; the key's own lock follows (already held then).
KeyLocks(a, connected) ==
    IF connected THEN <<Update("grants", a), Update("api_keys", a)>> ELSE <<Update("api_keys", a)>>

\* reserveBalance, per funding source.  billing.trial_pool_admit and the two
\* SELECTs after it take the day, then the account's user-day.
ReserveFunds(a, funding) ==
    Balance(a) \o CASE funding = "trial"      -> <<Update("trial_entitlements", a)>>
                    [] funding = "trial_pool" -> <<Global("trial_pool_days"), Update("trial_pool_user_days", a)>>
                    [] funding = "balance"    -> <<>>

ReservePlan(a, funding, connected) == ReserveFunds(a, funding) \o KeyLocks(a, connected)

\* (mutant) the settlement that updates the user-day before the day
UserDayFirst(a) == <<Update("trial_pool_user_days", a), Global("trial_pool_days")>>

\* finalizeInferenceReservation, also called by the stale sweeper.
SettlePool(a) == <<Global("trial_pool_days"), Update("trial_pool_user_days", a)>>

FinalizePlan(a, funding) ==
    <<Update("inference_reservations", a)>>
    \o (CASE funding = "trial"      -> <<Update("trial_entitlements", a)>>
          [] funding = "trial_pool" -> SettlePool(a)
          [] funding = "balance"    -> Balance(a) \o <<Update("api_keys", a)>>)
    \o <<Update("account_daily_budget_usage", a)>>

\* reconcileReservedBalance, the legacy settlement of a wallet reservation.
ReconcilePlan(a) == <<Update("inference_reservations", a)>> \o Balance(a) \o <<Update("api_keys", a)>>

\* markInferenceProviderAttemptStarted: the provider row shared, then the
\* reservation.
AttemptPlan(a) == <<Shared("providers"), Update("inference_reservations", a)>>

DailyPlan(a) == <<Update("account_daily_budget_usage", a)>>
CreditPlan(a) == Balance(a)
DeliveryPlan(a) == <<Update("inference_reservations", a)>>
DisablePlan == <<Global("providers")>>

Fundings == {"balance", "trial", "trial_pool"}

Plans ==
    {ReservePlan(a, f, c) : a \in Accounts, f \in Fundings, c \in BOOLEAN}
    \cup {FinalizePlan(a, f) : a \in Accounts, f \in Fundings}
    \cup {ReconcilePlan(a) : a \in Accounts} \cup {AttemptPlan(a) : a \in Accounts}
    \cup {DailyPlan(a) : a \in Accounts} \cup {DeliveryPlan(a) : a \in Accounts}
    \cup {CreditPlan(a) : a \in WithBalance} \cup {DisablePlan}

LocksInit ==
    /\ todo = [t \in Txns |-> <<>>]
    /\ held = [t \in Txns |-> {}]

Blocks(u, t) == u # t /\ todo[t] # <<>> /\ \E k \in held[u] : Conflict(k, Head(todo[t]))

Begin(t) ==
    /\ todo[t] = <<>> /\ held[t] = {}
    /\ \E p \in Plans : todo' = [todo EXCEPT ![t] = p]
    /\ UNCHANGED held

TakeLock(t) ==
    /\ todo[t] # <<>>
    /\ \A u \in Txns : ~Blocks(u, t)
    /\ held' = [held EXCEPT ![t] = @ \cup {Head(todo[t])}]
    /\ todo' = [todo EXCEPT ![t] = Tail(@)]

\* COMMIT at the end, or ROLLBACK of a transaction that threw; one that
\* waits for a lock can do neither.
EndTxn(t) ==
    /\ held[t] # {}
    /\ \A u \in Txns : ~Blocks(u, t)
    /\ todo' = [todo EXCEPT ![t] = <<>>]
    /\ held' = [held EXCEPT ![t] = {}]

LocksNext == \E t \in Txns : Begin(t) \/ TakeLock(t) \/ EndTxn(t)

-----------------------------------------------------------------------------
(* No set of transactions waits in a circle: in every set of them there is  *)
(* one that no member of the set blocks.  (Two settlements, a reservation   *)
(* and the sweeper meet at the pool's day and user-day rows; a fence and a  *)
(* settlement at the reservation row.)                                      *)
NoDeadlock ==
    \A D \in SUBSET Txns : D # {} => \E t \in D : \A u \in D : ~Blocks(u, t)
=============================================================================

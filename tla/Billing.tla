------------------------------ MODULE Billing ------------------------------
(***************************************************************************)
(* The prepaid ledger of metering/billing.ts and the daily budget of       *)
(* rate-limit/plans.ts.  Every action below is one database transaction:   *)
(* the code takes the row locks named in the comments before it reads, so  *)
(* a transaction is atomic for the others.  Money is whole micro-USD and a *)
(* UTC day is a number; numeric(12,6) and bigint micros hold both exactly. *)
(***************************************************************************)
EXTENDS Reservation, FiniteSets, FiniteSetsExt, Sequences

CONSTANTS
    Accounts, Requests, Keys,
    AccountOf,      \* the account a request id belongs to
    KeyOf,          \* the API key it was authorized with
    AmountOf,       \* the worst-case cost its authorization reserves
    Fundings,       \* the funding sources in use
    KeyLimit,       \* apiKeyCreditLimitUsd of a key
    Costs,          \* provider costs a usage report may amount to
    Credits,        \* top-ups an account may receive
    MaxCredited,    \* bound: credits an account receives in all
    DailyBudget,    \* dailyBudgetUsd of the plan
    Days,           \* bound: the UTC days of the run, 1 .. Days
    TrialCeiling,   \* spend_ceiling_usd of the v1 trial
    PoolBudget,     \* the trial pool's budget for one day
    Allowance,      \* the daily allowance admission commits to one account
    Replies,        \* replies_total of either trial
    TokenBudget,    \* input_token_budget of either trial
    EstTokens,      \* est_input_tokens of a request
    SweepLimit,     \* LIMIT of the sweeper's batch
    MaxVanished     \* bound: models that leave the catalog

AllFundings == {"balance", "trial", "trial_pool"}
ASSUME RequestAssumption ==
    /\ IsFiniteSet(Requests) /\ IsFiniteSet(Accounts)
    /\ AccountOf \in [Requests -> Accounts] /\ KeyOf \in [Requests -> Keys]
    /\ AmountOf \in [Requests -> Nat] /\ Fundings \subseteq AllFundings
ASSUME LimitAssumption ==
    /\ KeyLimit \in [Keys -> Nat] /\ Costs \subseteq Nat /\ Credits \subseteq Nat
    /\ {MaxCredited, DailyBudget, TrialCeiling, PoolBudget, Allowance,
        Replies, TokenBudget, EstTokens, MaxVanished} \subseteq Nat
    /\ SweepLimit \in Nat \ {0} /\ Days \in Nat \ {0}

VARIABLES
    bal,      \* billing.balances
    credited, \* total of the credit events of an account
    trial,    \* billing.trial_entitlements
    pool,     \* billing.trial_pool_days
    user,     \* billing.trial_pool_user_days
    daily,    \* billing.account_daily_budget_usage; open once the day has a row
    hold,     \* daily holds that are not on a reservation row yet
    row,      \* billing.inference_reservations
    usage,    \* metering.usage_events
    vanished, \* requests whose model left the catalog
    today,    \* the database's UTC day
    order,    \* requests in order of created_at
    stale,    \* requests whose hold is older than the sweep threshold
    batch     \* what is left of the sweeper's current batch

vars == <<bal, credited, trial, pool, user, daily, hold, row, usage, vanished,
          today, order, stale, batch>>
trialVars == <<trial, pool, user>>

Day == 1 .. Days
NoHold == [amount |-> 0, day |-> 0]
NoRow == [status |-> "none", reserved |-> 0, charged |-> 0, attempt |-> FALSE,
          delivery |-> FALSE, funding |-> "balance", poolDay |-> 0,
          dailyHeld |-> 0, dailyDay |-> 0, created |-> 0]
NoUsage == [status |-> "none", cost |-> 0]

Init ==
    /\ bal = [a \in Accounts |-> [available |-> 0, reserved |-> 0]]
    /\ credited = [a \in Accounts |-> 0]
    /\ trial = [a \in Accounts |-> [reserved |-> 0, spent |-> 0, replies |-> 0, tokens |-> 0]]
    /\ pool = [d \in Day |-> [committed |-> 0, reserved |-> 0, spent |-> 0]]
    /\ user = [d \in Day |-> [a \in Accounts |->
                 [admitted |-> FALSE, committed |-> 0, reserved |-> 0, spent |-> 0,
                  replies |-> 0, tokens |-> 0]]]
    /\ daily = [a \in Accounts |-> [d \in Day |-> [open |-> FALSE, reserved |-> 0, spent |-> 0]]]
    /\ hold = [r \in Requests |-> NoHold]
    /\ row = [r \in Requests |-> NoRow]
    /\ usage = [r \in Requests |-> NoUsage]
    /\ vanished = {} /\ today = 1 /\ order = <<>> /\ stale = {} /\ batch = <<>>

\* The total of f over the requests that satisfy p.
Total(f(_), p(_)) == SumFunction([r \in Requests |-> IF p(r) THEN f(r) ELSE 0])

\* GREATEST(0, a - b)
Minus(a, b) == IF a > b THEN a - b ELSE 0
----------------------------------------------------------------------------
(* creditBalance                                                           *)
Credit(a, amount) ==
    /\ credited[a] + amount <= MaxCredited
    /\ bal' = [bal EXCEPT ![a].available = @ + amount]
    /\ credited' = [credited EXCEPT ![a] = @ + amount]
    /\ UNCHANGED <<trialVars, daily, hold, row, usage, vanished, today, order, stale, batch>>

----------------------------------------------------------------------------
(* plans.ts: the daily hold is written in a transaction before the one     *)
(* that inserts the reservation, on the day that transaction read.         *)
ReserveDaily(r) ==
    LET a == AccountOf[r]
        used == daily[a][today]
        held == [used EXCEPT !.open = TRUE, !.reserved = @ + AmountOf[r]]
    IN
    /\ row[r].status = "none" /\ hold[r] = NoHold /\ AmountOf[r] > 0
    /\ used.spent + used.reserved + AmountOf[r] <= DailyBudget
    /\ daily' = [daily EXCEPT ![a][today] = held]
    /\ hold' = [hold EXCEPT ![r] = [amount |-> AmountOf[r], day |-> today]]
    /\ UNCHANGED <<bal, credited, trialVars, row, usage, vanished, today, order, stale, batch>>

\* reconcileDailyBudget: compensation when no reservation row follows.
ReturnDaily(r) ==
    LET a == AccountOf[r]
        d == hold[r].day
        returned == [daily[a][d] EXCEPT !.reserved = Minus(@, hold[r].amount)]
    IN
    /\ row[r].status = "none" /\ hold[r] # NoHold
    /\ daily' = [daily EXCEPT ![a][d] = returned]
    /\ hold' = [hold EXCEPT ![r] = NoHold]
    /\ UNCHANGED <<bal, credited, trialVars, row, usage, vanished, today, order, stale, batch>>

----------------------------------------------------------------------------
(* reserveBalance                                                          *)

\* What a key has already spent or may still spend: succeeded usage events,
\* held rows, and settled rows that have no usage event.
KeyAuthorized(k) ==
    LET amount(r) == (IF usage[r].status = "succeeded" THEN usage[r].cost ELSE 0)
                   + (IF Held(row[r]) THEN row[r].reserved
                      ELSE IF row[r].status = "settled" /\ usage[r] = NoUsage
                           THEN row[r].charged ELSE 0)
        mine(r) == row[r].status # "none" /\ KeyOf[r] = k
    IN Total(amount, mine)

\* A mutation: only succeeded usage events count against the limit.
KeyAdmitsSettledOnly(r) ==
    LET cost(q) == usage[q].cost
        mine(q) == KeyOf[q] = KeyOf[r]
    IN AmountOf[r] = 0 \/ Total(cost, mine) + AmountOf[r] <= KeyLimit[KeyOf[r]]

KeyAdmits(r) ==
    AmountOf[r] = 0 \/ KeyAuthorized(KeyOf[r]) + AmountOf[r] <= KeyLimit[KeyOf[r]]

\* A mutation: the wallet does not compare the amount with what is available.
WalletAdmitsAlways(r) == TRUE

\* The wallet admits under its row lock.
WalletAdmits(r) == AmountOf[r] = 0 \/ AmountOf[r] <= bal[AccountOf[r]].available

\* A mutation: the trial reserves what is left instead of refusing.
TrialAdmitsClamped(r) ==
    LET t == trial[AccountOf[r]] IN
    /\ t.replies < Replies /\ t.tokens + EstTokens <= TokenBudget
    /\ t.spent + t.reserved < TrialCeiling

\* The entitlement refuses what it cannot fund in full; it never clamps.
TrialAdmits(r) ==
    LET t == trial[AccountOf[r]]
        remaining == Minus(TrialCeiling, t.spent + t.reserved)
    IN /\ t.replies < Replies
       /\ t.tokens + EstTokens <= TokenBudget
       /\ remaining > 0 /\ AmountOf[r] <= remaining

\* billing.trial_pool_admit (external SQL function): the first funded send of a
\* day commits the whole allowance against the day's budget, or is refused.
PoolCommitted(r) ==
    LET u == user[today][AccountOf[r]] IN
    IF u.admitted THEN u.committed ELSE Allowance

PoolAdmits(r) ==
    LET u == user[today][AccountOf[r]]
        remaining == Minus(PoolCommitted(r), u.reserved + u.spent)
    IN /\ u.admitted \/ pool[today].committed + Allowance <= PoolBudget
       /\ u.replies < Replies
       /\ u.tokens + EstTokens <= TokenBudget
       /\ remaining > 0 /\ AmountOf[r] <= remaining

\* The counters a new reservation moves, by funding source.
HoldWallet(r) ==
    /\ WalletAdmits(r)
    /\ bal' = [bal EXCEPT ![AccountOf[r]].available = @ - AmountOf[r],
                          ![AccountOf[r]].reserved = @ + AmountOf[r]]
    /\ UNCHANGED trialVars

HoldTrial(r) ==
    /\ TrialAdmits(r)
    /\ trial' = [trial EXCEPT ![AccountOf[r]].reserved = @ + AmountOf[r]]
    /\ UNCHANGED <<bal, pool, user>>

HoldPool(r) ==
    LET a == AccountOf[r]
        u == user[today][a]
        p == pool[today]
        fresh == IF u.admitted THEN 0 ELSE Allowance
    IN /\ PoolAdmits(r)
       /\ pool' = [pool EXCEPT ![today] = [p EXCEPT !.committed = @ + fresh, !.reserved = @ + AmountOf[r]]]
       /\ user' = [user EXCEPT ![today][a] = [u EXCEPT !.admitted = TRUE, !.committed = PoolCommitted(r),
                                                       !.reserved = @ + AmountOf[r]]]
       /\ UNCHANGED <<bal, trial>>

\* The row records the day of the daily hold it takes over and, for the pool,
\* the day whose budget admitted it.  A repeat for a held row changes nothing
\* and one for a terminal row is refused, so neither is a step.
Reserve(r, funding) ==
    /\ row[r].status = "none"
    /\ CASE funding = "balance" -> HoldWallet(r)
         [] funding = "trial" -> HoldTrial(r)
         [] funding = "trial_pool" -> HoldPool(r)
    /\ KeyAdmits(r)
    /\ row' = [row EXCEPT ![r] =
                 [NoRow EXCEPT !.status = "reserved", !.reserved = AmountOf[r],
                               !.funding = funding, !.created = today,
                               !.poolDay = IF funding = "trial_pool" THEN today ELSE 0,
                               !.dailyHeld = hold[r].amount, !.dailyDay = hold[r].day]]
    /\ hold' = [hold EXCEPT ![r] = NoHold]
    /\ order' = Append(order, r)
    /\ UNCHANGED <<credited, daily, usage, vanished, today, stale, batch>>
----------------------------------------------------------------------------
(* finalizeInferenceReservation                                            *)

\* The fences of the row; the provider-attempt fence joins the model.
StartAttempt(r) ==
    /\ Held(row[r]) /\ r \notin vanished
    /\ row' = [row EXCEPT ![r] = MarkAttempt(@)]
    /\ UNCHANGED <<bal, credited, trialVars, daily, hold, usage, vanished, today, order, stale, batch>>

StartDelivery(r) ==
    /\ Held(row[r])
    /\ row' = [row EXCEPT ![r] = MarkDelivery(@)]
    /\ UNCHANGED <<bal, credited, trialVars, daily, hold, usage, vanished, today, order, stale, batch>>

\* A mutation: the whole hold returns to the available balance.
ReleaseWalletUncharged(r, charge) ==
    /\ bal' = [bal EXCEPT ![AccountOf[r]].reserved = @ - row[r].reserved,
                          ![AccountOf[r]].available = @ + row[r].reserved]
    /\ UNCHANGED trialVars

\* Settle the wallet: the hold leaves reserved, what is not charged returns.
ReleaseWallet(r, charge) ==
    /\ bal' = [bal EXCEPT ![AccountOf[r]].reserved = @ - row[r].reserved,
                          ![AccountOf[r]].available = @ + (row[r].reserved - charge)]
    /\ UNCHANGED trialVars

\* Settle the v1 entitlement; only a settled completion consumes a reply.
ReleaseTrial(r, charge, tokens, reply) ==
    /\ trial' = [trial EXCEPT
          ![AccountOf[r]] = [reserved |-> Minus(@.reserved, row[r].reserved),
                             spent |-> @.spent + charge,
                             replies |-> Least(Replies, @.replies + reply),
                             tokens |-> @.tokens + tokens]]
    /\ UNCHANGED <<bal, pool, user>>

\* A mutation: the pool hold is released on the day of the settlement.
PoolDayNow(r) == today

\* The day that granted the hold, never the day it settles on.
PoolDay(r) == row[r].poolDay

\* Settle the pool on both counters of the granting day.  The last reply ends
\* the allowance: billing.trial_pool_release_unused (external SQL function)
\* returns what is neither reserved nor spent to the day.
ReleasePool(r, charge, tokens, reply) ==
    LET a == AccountOf[r]
        d == PoolDay(r)
        charged == Least(row[r].reserved, charge)
        u == user[d][a]
        settled == [u EXCEPT !.reserved = Minus(@, row[r].reserved),
                             !.spent = @ + charged,
                             !.replies = Least(Replies, @ + reply),
                             !.tokens = @ + tokens]
        unused == IF settled.replies >= Replies
                  THEN Minus(settled.committed, settled.reserved + settled.spent) ELSE 0
    IN /\ user' = [user EXCEPT ![d][a] = [settled EXCEPT !.committed = @ - unused]]
       /\ pool' = [pool EXCEPT ![d] = [committed |-> @.committed - unused,
                                       reserved |-> Minus(@.reserved, row[r].reserved),
                                       spent |-> @.spent + charged]]
       /\ UNCHANGED <<bal, trial>>

\* A mutation: the daily hold is looked up by the row's creation date.
DailyDayFromCreation(r) == row[r].created

\* COALESCE(daily_budget_date, created_at): the day the hold was written to.
DailyDay(r) == IF row[r].dailyDay # 0 THEN row[r].dailyDay ELSE row[r].created

\* The UPDATE matches nothing when no hold ever opened the row of that day.
ReleaseDaily(r, charge) ==
    LET a == AccountOf[r]
        d == DailyDay(r)
        used == daily[a][d]
        released == [used EXCEPT !.reserved = Minus(@, row[r].dailyHeld), !.spent = @ + charge]
    IN daily' = IF used.open THEN [daily EXCEPT ![a][d] = released] ELSE daily

\* One finalization of a held row: money, daily budget, status and usage event
\* commit together.  tokens and reply are what a trial accounts for.
Settlement(r, outcome, rejected, cost, recordUsage) ==
    LET charge == Charge(row[r], outcome, rejected, cost)
        billable == outcome = "settle" \/ CapturesCeiling(row[r], outcome, rejected)
        tokens == IF billable THEN EstTokens ELSE 0
        reply == IF outcome = "settle" THEN 1 ELSE 0
    IN /\ CASE row[r].funding = "balance" -> ReleaseWallet(r, charge)
            [] row[r].funding = "trial" -> ReleaseTrial(r, charge, tokens, reply)
            [] row[r].funding = "trial_pool" -> ReleasePool(r, charge, tokens, reply)
       /\ ReleaseDaily(r, charge)
       /\ row' = [row EXCEPT ![r] = Finalize(@, outcome, rejected, cost)]
       /\ usage' = IF recordUsage
                   THEN [usage EXCEPT ![r] =
                          [status |-> IF billable THEN "succeeded" ELSE "failed",
                           cost |-> IF row[r].funding = "balance" THEN charge ELSE 0]]
                   ELSE usage

\* The usage event's foreign key rejects a model that left the catalog and the
\* whole transaction rolls back.
CanRecord(r, recordUsage) == recordUsage => r \notin vanished

\* The settle, capture and abort RPCs.  Pre-provider compensation is the abort
\* that records no usage event.
FinalizeRequest(r, outcome, rejected, cost, recordUsage) ==
    /\ Held(row[r])
    /\ recordUsage \/ (outcome = "abort" /\ ~row[r].attempt)
    /\ rejected => outcome = "abort"
    /\ CanRecord(r, recordUsage)
    /\ Settlement(r, outcome, rejected, cost, recordUsage)
    /\ UNCHANGED <<credited, hold, vanished, today, order, stale, batch>>

\* reconcileReservedBalance: the legacy wallet settlement.  It refuses a trial
\* row and writes no usage event.  It knows nothing of the daily budget, whose
\* hold its caller reconciles itself, so it is modelled for rows without one.
ReconcileReserved(r, cost) ==
    /\ Held(row[r]) /\ row[r].funding = "balance" /\ row[r].dailyHeld = 0
    /\ ReleaseWallet(r, Least(cost, row[r].reserved))
    /\ row' = [row EXCEPT ![r] = Finalize(@, "settle", FALSE, cost)]
    /\ UNCHANGED <<credited, daily, hold, usage, vanished, today, order, stale, batch>>
----------------------------------------------------------------------------
(* releaseStaleBalanceReservations                                         *)

\* Where the stale held rows are among the rows by age.
Due == {i \in DOMAIN order : Held(row[order[i]]) /\ order[i] \in stale}

\* The oldest of them, at most SweepLimit, each with the outcome its fences
\* call for at the time of the SELECT.
SweepSelect ==
    LET size == Least(SweepLimit, Cardinality(Due))
        pick(r) == [request |-> r,
                    outcome |-> IF row[r].attempt \/ row[r].delivery THEN "capture" ELSE "abort"]
    IN /\ batch = <<>> /\ Due # {}
       /\ \E place \in [1 .. size -> Due] :
             /\ \A i, j \in 1 .. size : i < j => place[i] < place[j]
             /\ \A i \in Due : i < place[size] => \E j \in 1 .. size : place[j] = i
             /\ batch' = [i \in 1 .. size |-> pick(order[place[i]])]
       /\ UNCHANGED <<bal, credited, trialVars, daily, hold, row, usage, vanished, today, order, stale>>

\* A mutation: one row that cannot be finalized ends the batch.
SweepRowOrStop ==
    LET r == Head(batch).request IN
    /\ batch # <<>>
    /\ IF Held(row[r]) /\ CanRecord(r, TRUE)
       THEN Settlement(r, Head(batch).outcome, FALSE, 0, TRUE) /\ batch' = Tail(batch)
       ELSE batch' = <<>> /\ UNCHANGED <<bal, trialVars, daily, row, usage>>
    /\ UNCHANGED <<credited, hold, vanished, today, order, stale>>

\* One row of the batch, in a transaction of its own.  A row that somebody
\* finalized since, and one that cannot be finalized, is passed over.
SweepRow ==
    LET r == Head(batch).request IN
    /\ batch # <<>>
    /\ batch' = Tail(batch)
    /\ IF Held(row[r]) /\ CanRecord(r, TRUE)
       THEN Settlement(r, Head(batch).outcome, FALSE, 0, TRUE)
       ELSE UNCHANGED <<bal, trialVars, daily, row, usage>>
    /\ UNCHANGED <<credited, hold, vanished, today, order, stale>>
----------------------------------------------------------------------------
(* The environment: time and the catalog.                                  *)
NextDay ==
    /\ today < Days
    /\ today' = today + 1
    /\ UNCHANGED <<bal, credited, trialVars, daily, hold, row, usage, vanished, order, stale, batch>>

GoStale(r) ==
    /\ Held(row[r]) /\ r \notin stale
    /\ stale' = stale \cup {r}
    /\ UNCHANGED <<bal, credited, trialVars, daily, hold, row, usage, vanished, today, order, batch>>

ModelVanishes(r) ==
    /\ Held(row[r]) /\ r \notin vanished
    /\ Cardinality(vanished) < MaxVanished
    /\ vanished' = vanished \cup {r}
    /\ UNCHANGED <<bal, credited, trialVars, daily, hold, row, usage, today, order, stale, batch>>
----------------------------------------------------------------------------
Next ==
    \/ \E a \in Accounts, c \in Credits : Credit(a, c)
    \/ \E r \in Requests :
          \/ ReserveDaily(r) \/ ReturnDaily(r)
          \/ \E f \in Fundings : Reserve(r, f)
          \/ StartAttempt(r) \/ StartDelivery(r)
          \/ \E o \in Outcomes, j \in BOOLEAN, c \in Costs, u \in BOOLEAN :
                FinalizeRequest(r, o, j, c, u)
          \/ \E c \in Costs : ReconcileReserved(r, c)
          \/ GoStale(r) \/ ModelVanishes(r)
    \/ SweepSelect \/ SweepRow \/ NextDay

Spec == Init /\ [][Next]_vars

\* The sweeper is a timer of the control plane.
FairSpec == Spec /\ WF_vars(SweepSelect) /\ WF_vars(SweepRow)
----------------------------------------------------------------------------
Amounts == [available : Nat, reserved : Nat]

ReservedOf(r) == row[r].reserved
ChargedOf(r) == row[r].charged

\* The wallet neither mints nor loses money: what was credited is available,
\* held by exactly the rows that are still reserved, or charged, in every order
\* of settles, captures, aborts and sweeps.
WalletBalances ==
    \A a \in Accounts :
        LET mine(r) == AccountOf[r] = a /\ row[r].funding = "balance"
            held(r) == mine(r) /\ Held(row[r])
        IN /\ bal[a] \in Amounts
           /\ bal[a].reserved = Total(ReservedOf, held)
           /\ bal[a].available + bal[a].reserved + Total(ChargedOf, mine) = credited[a]

\* The signup trial never commits more than its ceiling, and its reserved
\* counter is exactly what its held rows hold.
TrialWithinCeiling ==
    \A a \in Accounts :
        LET held(r) == AccountOf[r] = a /\ row[r].funding = "trial" /\ Held(row[r])
        IN /\ trial[a].reserved = Total(ReservedOf, held)
           /\ trial[a].reserved + trial[a].spent <= TrialCeiling

\* The pool's global cap holds on every day: what a day committed stays within
\* its budget, every account stays within its own commitment, and each hold is
\* on the day that granted it, settlements after midnight included.
PoolWithinBudget ==
    \A d \in Day :
        LET held(r) == row[r].poolDay = d /\ Held(row[r])
            committed == [a \in Accounts |-> user[d][a].committed]
        IN /\ pool[d].committed <= PoolBudget
           /\ pool[d].committed = SumFunction(committed)
           /\ pool[d].reserved = Total(ReservedOf, held)
           /\ \A a \in Accounts :
                 LET own(r) == held(r) /\ AccountOf[r] = a
                     u == user[d][a]
                 IN u.reserved = Total(ReservedOf, own) /\ u.reserved + u.spent <= u.committed

\* No daily-budget hold is stranded: the reserved counter of a day is exactly
\* what rows and pending authorizations still hold on it, across UTC midnight
\* between the hold, the reservation, its return and its settlement.
DailyHoldsAreReturned ==
    \A a \in Accounts, d \in Day :
        LET onRow(r) == AccountOf[r] = a /\ Held(row[r]) /\ row[r].dailyDay = d
            pending(r) == AccountOf[r] = a /\ hold[r].day = d
            heldByRow(r) == row[r].dailyHeld
            heldPending(r) == hold[r].amount
        IN daily[a][d].reserved = Total(heldByRow, onRow) + Total(heldPending, pending)

\* An API key never has more than its credit limit spent and in flight, for any
\* number of concurrent reservations and whichever path settled them.
KeyWithinLimit == \A k \in Keys : KeyAuthorized(k) <= KeyLimit[k]

\* No limit is overdrawn by reservations that were each below it: not a key's,
\* not the trial's, not the pool's.
LimitsHold == KeyWithinLimit /\ TrialWithinCeiling /\ PoolWithinBudget

\* Recovery is not blocked by rows that cannot be finalized: every stale hold
\* whose model is still in the catalog is finalized.
StaleHoldsAreFinalized ==
    \A r \in Requests :
        (Held(row[r]) /\ r \in stale) ~> (Finalized(row[r]) \/ r \in vanished)
============================================================================

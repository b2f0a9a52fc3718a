------------------------- MODULE ProtectionCounters -------------------------
(***************************************************************************)
(* The two expiring counters of rate-limit/limiter.ts: a subject's recent  *)
(* failed credentials, counted by INCR and, in a second command, given its *)
(* window; and an account's free tokens of a UTC day, counted by one       *)
(* script.  Time is in days for the second and in windows for the first.   *)
(***************************************************************************)
EXTENDS ValkeyClock

CONSTANTS
    Callers,       \* handlers of failed credentials of one subject
    Costs,         \* estimatedTokens of free requests
    Budget,        \* freeTierDailyTokens
    FreeTtl,       \* the 48 hours of a free-tier key, in days
    MaxCount,      \* bound: failures counted
    MaxUsed        \* bound: free tokens counted

ASSUME CounterAssumption ==
    /\ Costs \subseteq Nat \ {0} /\ Budget \in Nat \ {0} /\ FreeTtl >= 2
    /\ {FreeTtl, MaxCount, MaxUsed} \subseteq Nat

\* The expiry of a key without a TTL.
Never == MaxClock + FreeTtl + 1

VARIABLES
    failures,        \* authfail:<subject>, 0 when absent
    failuresExpire,
    pc,              \* pc[c]: "expire" between INCR and EXPIRE
    used,            \* used[d]: free:<d>:<account>, 0 when absent
    usedExpire,
    admitted         \* admitted[d]: tokens of the free requests of day d that passed

counterVars == <<clock, failures, failuresExpire, pc, used, usedExpire, admitted>>
authVars == <<failures, failuresExpire, pc>>
freeVars == <<used, usedExpire, admitted>>

Days == 0 .. MaxClock

CountersInit ==
    /\ clock = 0
    /\ failures = 0 /\ failuresExpire = Never /\ pc = [c \in Callers |-> "idle"]
    /\ used = [d \in Days |-> 0] /\ usedExpire = [d \in Days |-> Never] /\ admitted = [d \in Days |-> 0]
----------------------------------------------------------------------------
\* A mutation: the window is set at the second failure.
OpensWindowLate(count) == count = 2

OpensWindow(count) == count = 1

\* recordAuthFailure up to the answer of INCR.
CountFailure(c) ==
    /\ pc[c] = "idle" /\ failures < MaxCount
    /\ failures' = failures + 1
    /\ pc' = [pc EXCEPT ![c] = IF OpensWindow(failures + 1) THEN "expire" ELSE "idle"]
    /\ UNCHANGED <<clock, failuresExpire, freeVars>>

\* EXPIRE; nothing to do when the key is gone.
OpenWindow(c) ==
    /\ pc[c] = "expire"
    /\ pc' = [pc EXCEPT ![c] = "idle"]
    /\ failuresExpire' = IF failures > 0 THEN clock + 1 ELSE Never
    /\ UNCHANGED <<clock, failures, freeVars>>

\* The process ends, or the connection fails, before EXPIRE is sent.
CallFails(c) ==
    /\ pc[c] = "expire"
    /\ pc' = [pc EXCEPT ![c] = "idle"]
    /\ UNCHANGED <<clock, failures, failuresExpire, freeVars>>

ClearAuthFailures ==
    /\ failures > 0
    /\ failures' = 0 /\ failuresExpire' = Never
    /\ UNCHANGED <<clock, pc, freeVars>>
----------------------------------------------------------------------------
\* A mutation: the key lives until the next day only.
FreeExpiryNextDay(d, cost) == IF used[d] = 0 THEN clock + 1 ELSE usedExpire[d]

\* EXPIRE by the first request of the day.
FreeExpiry(d, cost) == IF used[d] + cost = cost THEN clock + FreeTtl ELSE usedExpire[d]

\* consumeDailyFreeTokens, drawn on day d and run on that or the next.  A refused
\* request stays counted.
ConsumeDailyFreeTokens(d, cost) ==
    /\ used[d] + cost <= MaxUsed
    /\ used' = [used EXCEPT ![d] = @ + cost]
    /\ usedExpire' = [usedExpire EXCEPT ![d] = FreeExpiry(d, cost)]
    /\ admitted' = IF used[d] + cost > Budget THEN admitted
                   ELSE [admitted EXCEPT ![d] = @ + cost]
    /\ UNCHANGED <<clock, authVars>>

\* Time passes and Valkey drops the keys it runs out for.
CountersTick ==
    /\ Advance
    /\ failures' = IF clock + 1 >= failuresExpire THEN 0 ELSE failures
    /\ failuresExpire' = IF clock + 1 >= failuresExpire THEN Never ELSE failuresExpire
    /\ used' = [d \in Days |-> IF clock + 1 >= usedExpire[d] THEN 0 ELSE used[d]]
    /\ usedExpire' = [d \in Days |-> IF clock + 1 >= usedExpire[d] THEN Never ELSE usedExpire[d]]
    /\ UNCHANGED <<pc, admitted>>

CountersNext ==
    \/ \E c \in Callers : CountFailure(c) \/ OpenWindow(c)
    \/ ClearAuthFailures
    \/ \E d \in {e \in Days : clock \in {e, e + 1}}, cost \in Costs : ConsumeDailyFreeTokens(d, cost)
    \/ CountersTick

CountersSpec == CountersInit /\ [][CountersNext]_counterVars

\* With handlers that may end between their two commands.
CountersNextWithFailures == CountersNext \/ \E c \in Callers : CallFails(c)
CountersSpecWithFailures == CountersInit /\ [][CountersNextWithFailures]_counterVars
----------------------------------------------------------------------------
\* A subject's failed-credential count is short-lived: whoever created the key
\* has given it its window or is about to, in whichever order handlers and clearings run.
CountIsShortLived ==
    failures > 0 /\ failuresExpire = Never => \E c \in Callers : pc[c] = "expire"

\* The free requests that pass on a day are within the budget, the ones that
\* were drawn before midnight and ran after it included.
FreeWithinBudget == \A d \in Days : admitted[d] <= Budget
============================================================================

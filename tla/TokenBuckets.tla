---------------------------- MODULE TokenBuckets ----------------------------
(***************************************************************************)
(* The token buckets of rate-limit/limiter.ts: the single-bucket and the   *)
(* hierarchical Lua script.  Token fractions are scaled to integers.       *)
(***************************************************************************)
EXTENDS ValkeyClock, FiniteSets

CONSTANTS
    Buckets,
    Capacity,  \* Capacity[b]: the burst
    Refill,    \* Refill[b]: tokens per tick
    Ttl,       \* Ttl[b]: ticks a bucket lives after its last write
    Charges,   \* requests: functions from some buckets to the cost in each
    MaxLate    \* bound: total lateness a window of the run may see

ASSUME BucketAssumption ==
    /\ Capacity \in [Buckets -> Nat] /\ Refill \in [Buckets -> Nat \ {0}] /\ Ttl \in [Buckets -> Nat \ {0}]
    /\ MaxLate \in Nat
ASSUME ChargeAssumption ==
    \A c \in Charges : IsFiniteSet(DOMAIN c) /\ DOMAIN c \subseteq Buckets /\ c \in [DOMAIN c -> Nat]

\* A bucket is full again by the time its key expires.
ASSUME RefillAssumption == \A b \in Buckets : Refill[b] * Ttl[b] >= Capacity[b]

VARIABLES
    store,  \* the hash of every bucket; absent once clock reaches expiresAt
    since,  \* start of the window under observation
    spent,  \* spent[b]: cost admitted by bucket b within the window
    late    \* late[b]: sum over its writes in the window of how late each ran

bucketVars == <<clock, store, since, spent, late>>

Absent == [tokens |-> 0, updatedAt |-> 0, expiresAt |-> 0]

BucketsInit ==
    /\ clock = 0 /\ since = 0
    /\ store = [b \in Buckets |-> Absent]
    /\ spent = [b \in Buckets |-> 0]
    /\ late = [b \in Buckets |-> 0]

Live(b) == clock < store[b].expiresAt
Elapsed(b, at) == IF at > store[b].updatedAt THEN at - store[b].updatedAt ELSE 0
AtMost(n, cap) == IF n < cap THEN n ELSE cap

\* A mutation: the refill is not clamped to the capacity.
RefilledUnclamped(b, at) ==
    IF Live(b) THEN store[b].tokens + Refill[b] * Elapsed(b, at) ELSE Capacity[b]

\* The tokens of bucket b at the time at.  A missing bucket is full.
Refilled(b, at) ==
    IF Live(b) THEN AtMost(store[b].tokens + Refill[b] * Elapsed(b, at), Capacity[b])
    ELSE Capacity[b]

\* HMSET tokens and updated_at, PEXPIRE.
Written(b, tokens, at) == [tokens |-> tokens, updatedAt |-> at, expiresAt |-> clock + Ttl[b]]
----------------------------------------------------------------------------
(* bucketScript: one bucket, written whether or not it admits.             *)
CheckBucket(b, cost, at) ==
    LET tokens == Refilled(b, at)
        paid == IF tokens >= cost THEN cost ELSE 0
    IN /\ late[b] + (clock - at) <= MaxLate
       /\ store' = [store EXCEPT ![b] = Written(b, tokens - paid, at)]
       /\ spent' = [spent EXCEPT ![b] = @ + paid]
       /\ late' = [late EXCEPT ![b] = @ + (clock - at)]
       /\ UNCHANGED <<clock, since>>

----------------------------------------------------------------------------
(* multiBucketScript: a hierarchy of buckets as one decision.              *)

AllCanPay(charge, at) == \A b \in DOMAIN charge : Refilled(b, at) >= charge[b]

\* Admission pays from every bucket; a refusal writes nothing and is no step.
CheckBuckets(charge, at) ==
    /\ AllCanPay(charge, at)
    /\ \A b \in DOMAIN charge : late[b] + (clock - at) <= MaxLate
    /\ store' = [b \in Buckets |->
          IF b \in DOMAIN charge THEN Written(b, Refilled(b, at) - charge[b], at) ELSE store[b]]
    /\ spent' = [b \in Buckets |->
          IF b \in DOMAIN charge THEN spent[b] + charge[b] ELSE spent[b]]
    /\ late' = [b \in Buckets |->
          IF b \in DOMAIN charge THEN late[b] + (clock - at) ELSE late[b]]
    /\ UNCHANGED <<clock, since>>

\* A mutation: the waiting time is rounded down.
WaitFloor(missing, rate) == missing \div rate

\* math.ceil(missing / rate)
Wait(missing, rate) == (missing + rate - 1) \div rate

\* retry_after_ms of a refusal: the longest wait of the buckets that cannot pay.
RetryAfter(charge, at) ==
    LET waits == {Wait(charge[b] - Refilled(b, at), Refill[b]) :
                    b \in {d \in DOMAIN charge : Refilled(d, at) < charge[d]}}
    IN CHOOSE w \in waits : \A v \in waits : v <= w
----------------------------------------------------------------------------
BucketsTick ==
    /\ Advance
    /\ UNCHANGED <<store, since, spent, late>>

\* Observe a new window from here on.
Observe ==
    /\ since' = clock
    /\ spent' = [b \in Buckets |-> 0]
    /\ late' = [b \in Buckets |-> 0]
    /\ UNCHANGED <<clock, store>>

BucketsNext ==
    \/ \E b \in Buckets, charge \in Charges, at \in Stamps :
          DOMAIN charge = {b} /\ CheckBucket(b, charge[b], at)
    \/ \E charge \in Charges, at \in Stamps : CheckBuckets(charge, at)
    \/ BucketsTick \/ Observe

BucketsSpec == BucketsInit /\ [][BucketsNext]_bucketVars
----------------------------------------------------------------------------
BucketsTypeOK ==
    /\ clock \in Nat /\ since \in 0 .. clock
    /\ store \in [Buckets -> [tokens : Nat, updatedAt : Nat, expiresAt : Nat]]
    /\ spent \in [Buckets -> Nat]
    /\ late \in [Buckets -> Nat]

\* A bucket admits in no window more than its burst plus what it refilled over
\* the window's length, idle expiry and re-creation of its key included.  Each
\* script that runs late, or behind another slot's write, may add the refill of
\* its own lateness and no more.
AdmissionBound ==
    \A b \in Buckets : spent[b] <= Capacity[b] + Refill[b] * (clock - since + late[b])

\* A caller that waits as long as the refusal says, while nobody else spends,
\* is admitted, as long as no bucket is too small for its cost.
RetryAfterSuffices ==
    \A charge \in Charges :
        (/\ \A b \in DOMAIN charge : charge[b] <= Capacity[b]
         /\ ~AllCanPay(charge, clock))
        => AllCanPay(charge, clock + RetryAfter(charge, clock))
----------------------------------------------------------------------------
(* The limits of the service: capacity, refill per day and key TTL in      *)
(* minutes of every bucket the limiter's methods create.                   *)

Policy(capacity, perMinute, ttl) == [capacity |-> capacity, perDay |-> perMinute * 1440, ttl |-> ttl]

\* Buckets whose refill is not a whole number per minute.
SlowPolicy(capacity, perDay, ttl) == [capacity |-> capacity, perDay |-> perDay, ttl |-> ttl]

ServiceLimits == {
    \* limitIngress
    Policy(1000, 1000, 5), Policy(5000, 5000, 5), Policy(20000, 20000, 5), Policy(120, 120, 5),
    Policy(600, 600, 5), Policy(10000, 10000, 5), Policy(3000, 3000, 5),
    \* limitSignup, limitPrivateUsernameSuggestion
    SlowPolicy(5, 720, 1440), Policy(30, 3, 1440), Policy(300, 30, 1440),
    Policy(20, 5, 60), Policy(100, 20, 60), Policy(1000, 200, 60),
    \* limitCredentialLookup, limitAdminLogin, limitCaptchaChallenge
    Policy(120, 120, 5), Policy(600, 600, 5), Policy(5000, 5000, 5),
    Policy(30, 10, 15), Policy(90, 30, 15), Policy(180, 60, 15),
    Policy(60, 60, 60), Policy(300, 300, 60), Policy(5000, 5000, 60),
    \* limitLogin, limitRecovery, limitRecoveryManagement
    Policy(30, 5, 60), Policy(150, 25, 60), Policy(2000, 300, 60), Policy(10, 2, 60),
    Policy(10, 1, 1440), Policy(50, 5, 1440), Policy(500, 50, 1440), SlowPolicy(4, 360, 1440),
    Policy(20, 4, 60), Policy(100, 20, 60), Policy(1000, 200, 60),
    \* limitStandardAuth
    Policy(10, 2, 1440), Policy(30, 5, 1440), Policy(150, 25, 1440), Policy(2000, 300, 1440),
    SlowPolicy(3, 360, 1440), SlowPolicy(3, 288, 1440), Policy(60, 30, 5), Policy(300, 150, 5), Policy(5000, 2500, 5),
    \* limitPurchaseCreation, limitPaymentSetup, limitPromotionRedemption
    Policy(12, 2, 1440), Policy(60, 10, 1440), Policy(300, 60, 1440), Policy(6, 1, 1440), SlowPolicy(30, 30, 2880),
    Policy(200, 20, 1440), SlowPolicy(3, 288, 1440), Policy(20, 4, 1440), Policy(100, 20, 1440),
    Policy(2000, 400, 1440), Policy(5, 1, 1440), SlowPolicy(20, 20, 2880), SlowPolicy(5, 720, 1440),
    \* limitApiKeyCreation
    SlowPolicy(5, 720, 1440), Policy(10, 2, 1440)}

\* The RPM and TPM buckets of inference: a minute's refill as burst, two minutes of TTL.
InferenceLimits == {Policy(n, n, 2) : n \in {1, 60, 300, 600, 200000}}

\* Every bucket of the service satisfies RefillAssumption.
ASSUME ServiceLimitsOutliveRefill ==
    \A l \in ServiceLimits \cup InferenceLimits : l.perDay * l.ttl >= l.capacity * 1440
============================================================================

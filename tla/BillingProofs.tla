--------------------------- MODULE BillingProofs ---------------------------
(***************************************************************************)
(* The ledger of Billing balances for any number of accounts, requests and *)
(* keys: every counter of metering/billing.ts and rate-limit/plans.ts is   *)
(* the sum of what the rows hold, whichever order the transactions take.   *)
(***************************************************************************)
EXTENDS Billing, FiniteSetTheorems, WellFoundedInduction, SequenceTheorems, TLAPS

----------------------------------------------------------------------------
(* Sums over finite sets.  SumFunction folds a recursive function that      *)
(* picks an arbitrary element, so it is characterised once: as the number   *)
(* of points under the graph, by induction over a set of natural numbers.   *)

Below == OpToRel(<, Nat)

\* A non-empty set of natural numbers has a least element.
LEMMA LeastNatural ==
    ASSUME NEW T \in SUBSET Nat, T # {}
    PROVE  \E m \in T : \A n \in T : m <= n
  <1>1. IsWellFoundedOn(Below, Nat)
    BY NatLessThanWellFounded DEF Below
  <1>2. PICK m \in T : \A n \in T : ~ (<<n, m>> \in Below)
    BY <1>1, WFMin
  <1>3. ASSUME NEW n \in T PROVE m <= n
    <2>1. n < m => <<n, m>> \in Below
      BY DEF Below, OpToRel
    <2> QED BY <1>2, <2>1
  <1> QED BY <1>3

\* Induction over the natural numbers, with the set of the numbers that qualify.
LEMMA InductionOverNat ==
    ASSUME NEW T, 0 \in T, \A n \in Nat : n \in T => n + 1 \in T
    PROVE  Nat \subseteq T
  <1> SUFFICES ASSUME Nat \ T # {} PROVE FALSE
    OBVIOUS
  <1>1. PICK m \in Nat \ T : \A n \in Nat \ T : m <= n
    BY LeastNatural
  <1>2. m # 0 /\ m - 1 \in Nat
    OBVIOUS
  <1>3. m - 1 \in T
    BY <1>1, <1>2
  <1> QED BY <1>2, <1>3

\* A sum counts points: f[x] of them over each x.
Points(f, S) == UNION {{x} \X (1 .. f[x]) : x \in S}

\* The points under a finite graph are finitely many.
LEMMA PointsFinite ==
    ASSUME NEW S, IsFiniteSet(S), NEW f, \A x \in S : f[x] \in Nat
    PROVE  IsFiniteSet(Points(f, S)) /\ Cardinality(Points(f, S)) \in Nat
  <1> DEFINE column == [x \in S |-> {x} \X (1 .. f[x])]
             columns == {column[x] : x \in S}
  <1>1. IsFiniteSet(columns)
    <2>1. column \in Surjection(S, columns)
      BY DEF Surjection
    <2> HIDE DEF column
    <2> QED BY <2>1, FS_Surjection
  <1>2. ASSUME NEW x \in S PROVE IsFiniteSet(column[x])
    <2>1. IsFiniteSet({x}) /\ IsFiniteSet(1 .. f[x])
      <3>1. f[x] \in Int /\ 1 \in Int
        OBVIOUS
      <3> QED BY <3>1, FS_Singleton, FS_Interval
    <2> QED BY <2>1, FS_Product
  <1>3. IsFiniteSet(UNION columns)
    BY <1>1, <1>2, FS_UNION
  <1>4. Points(f, S) = UNION columns
    BY DEF Points
  <1> QED BY <1>3, <1>4, FS_CardinalityType

\* The points over one element are as many as its value.
LEMMA PointsOfOne ==
    ASSUME NEW x, NEW n \in Nat
    PROVE  IsFiniteSet({x} \X (1 .. n)) /\ Cardinality({x} \X (1 .. n)) = n
  <1>1. IsFiniteSet({x}) /\ Cardinality({x}) = 1
    BY FS_Singleton
  <1>2. IsFiniteSet(1 .. n) /\ Cardinality(1 .. n) = n
    <2>1. Cardinality(1 .. n) = IF 1 > n THEN 0 ELSE n - 1 + 1
      BY FS_Interval
    <2> QED BY <2>1, FS_Interval
  <1>3. Cardinality({x} \X (1 .. n)) = Cardinality({x}) * Cardinality(1 .. n)
    BY <1>1, <1>2, FS_Product
  <1> QED BY <1>1, <1>2, <1>3, FS_Product

\* One element contributes its value to the points.
LEMMA PointsWithout ==
    ASSUME NEW S, IsFiniteSet(S), NEW f, \A x \in S : f[x] \in Nat, NEW x \in S
    PROVE  Cardinality(Points(f, S)) = f[x] + Cardinality(Points(f, S \ {x}))
  <1> DEFINE one == {x} \X (1 .. f[x])
             rest == Points(f, S \ {x})
  <1>1. Points(f, S) = one \cup rest
    BY DEF Points
  <1>2. one \cap rest = {}
    BY DEF Points
  <1>3. IsFiniteSet(rest) /\ Cardinality(rest) \in Nat
    <2>1. IsFiniteSet(S \ {x})
      BY FS_Subset
    <2> QED BY <2>1, PointsFinite
  <1>4. IsFiniteSet(one) /\ Cardinality(one) = f[x] /\ f[x] \in Nat
    BY PointsOfOne
  <1> HIDE DEF one, rest
  <1>5. Cardinality(one \cup rest) = Cardinality(one) + Cardinality(rest) - Cardinality(one \cap rest)
    BY <1>3, <1>4, FS_Union
  <1>6. Cardinality(one \cap rest) = 0
    BY <1>2, FS_EmptySet
  <1> QED BY <1>1, <1>3, <1>4, <1>5, <1>6 DEF rest

\* The fold of SumFunction counts the points, whichever elements CHOOSE picks.
LEMMA SumIsCount ==
    ASSUME NEW S, IsFiniteSet(S), NEW f, \A x \in S : f[x] \in Nat
    PROVE  SumFunctionOnSet(f, S) = Cardinality(Points(f, S))
  <1> DEFINE Equation(g) == g = [s \in SUBSET S |-> IF s = {} THEN 0
                                                  ELSE f[CHOOSE x \in s : TRUE] + g[s \ {CHOOSE x \in s : TRUE}]]
             iter == CHOOSE g : Equation(g)
             w == [s \in SUBSET S |-> Cardinality(Points(f, s))]
  <1>1. SumFunctionOnSet(f, S) = iter[S]
    BY DEF SumFunctionOnSet, FoldFunctionOnSet, MapThenFoldSet
  <1>2. ASSUME NEW s \in SUBSET S
        PROVE  w[s] = IF s = {} THEN 0 ELSE f[CHOOSE x \in s : TRUE] + w[s \ {CHOOSE x \in s : TRUE}]
    <2>1. CASE s = {}
      <3>1. Points(f, s) = {}
        BY <2>1 DEF Points
      <3> QED BY <2>1, <3>1, FS_EmptySet
    <2>2. CASE s # {}
      <3> DEFINE x == CHOOSE y \in s : TRUE
      <3>1. x \in s
        BY <2>2
      <3>2. IsFiniteSet(s) /\ \A y \in s : f[y] \in Nat
        BY FS_Subset
      <3> HIDE DEF x
      <3>3. Cardinality(Points(f, s)) = f[x] + Cardinality(Points(f, s \ {x}))
        BY <3>1, <3>2, PointsWithout
      <3>4. w[s] = f[x] + w[s \ {x}]
        BY <3>3
      <3> QED BY <2>2, <3>4 DEF x
    <2> QED BY <2>1, <2>2
  <1>3. Equation(w)
    BY <1>2
  <1> HIDE DEF w
  <1>4. Equation(iter)
    BY <1>3
  <1>i. ASSUME NEW s \in SUBSET S
        PROVE  iter[s] = IF s = {} THEN 0 ELSE f[CHOOSE x \in s : TRUE] + iter[s \ {CHOOSE x \in s : TRUE}]
    BY <1>4
  <1> HIDE DEF iter
  <1> DEFINE T == {n \in Nat : \A s \in SUBSET S : Cardinality(s) = n => iter[s] = w[s]}
  <1>5. 0 \in T
    <2>1. ASSUME NEW s \in SUBSET S, Cardinality(s) = 0 PROVE s = {}
      BY <2>1, FS_Subset, FS_EmptySet
    <2> QED BY <1>2, <1>i, <2>1
  <1>6. ASSUME NEW n \in Nat, n \in T PROVE n + 1 \in T
    <2> SUFFICES ASSUME NEW s \in SUBSET S, Cardinality(s) = n + 1 PROVE iter[s] = w[s]
      OBVIOUS
    <2>1. IsFiniteSet(s) /\ s # {}
      BY FS_Subset, FS_EmptySet
    <2> DEFINE x == CHOOSE y \in s : TRUE
    <2>2. x \in s
      BY <2>1
    <2> HIDE DEF x
    <2>3. Cardinality(s \ {x}) = n /\ s \ {x} \in SUBSET S
      <3>1. Cardinality(s \ {x}) = Cardinality(s) - 1
        BY <2>1, <2>2, FS_RemoveElement
      <3> QED BY <3>1
    <2>4. iter[s \ {x}] = w[s \ {x}]
      BY <1>6, <2>3
    <2> QED BY <1>2, <1>i, <2>1, <2>4 DEF x
  <1> HIDE DEF T
  <1>7. Cardinality(S) \in T
    <2>1. Cardinality(S) \in Nat
      BY FS_CardinalityType
    <2> QED BY <1>5, <1>6, <2>1, InductionOverNat
  <1>8. iter[S] = w[S]
    BY <1>7 DEF T
  <1> QED BY <1>1, <1>8 DEF w

-----------------------------------------------------------------------------
\* What the ledger's totals obey.
LEMMA SumIsNat ==
    ASSUME NEW S, IsFiniteSet(S), NEW f \in [S -> Nat]
    PROVE  SumFunction(f) \in Nat
  <1>1. SumFunction(f) = SumFunctionOnSet(f, S)
    BY DEF SumFunction
  <1>2. \A x \in S : f[x] \in Nat
    OBVIOUS
  <1> QED BY <1>1, <1>2, SumIsCount, PointsFinite

\* A sum of zeros is zero.
LEMMA SumOfZeros ==
    ASSUME NEW S, IsFiniteSet(S), NEW f \in [S -> Nat], \A x \in S : f[x] = 0
    PROVE  SumFunction(f) = 0
  <1>1. SumFunction(f) = Cardinality(Points(f, S))
    BY SumIsCount DEF SumFunction
  <1>2. Points(f, S) = {}
    BY DEF Points
  <1> QED BY <1>1, <1>2, FS_EmptySet

\* One term of a sum changes.
LEMMA SumChanges ==
    ASSUME NEW S, IsFiniteSet(S), NEW f \in [S -> Nat], NEW g \in [S -> Nat], NEW r \in S,
           \A x \in S \ {r} : g[x] = f[x]
    PROVE  /\ SumFunction(f) \in Nat /\ SumFunction(g) \in Nat
           /\ SumFunction(g) + f[r] = SumFunction(f) + g[r]
           /\ f[r] <= SumFunction(f)
  <1>1. /\ SumFunction(f) = Cardinality(Points(f, S)) /\ SumFunction(g) = Cardinality(Points(g, S))
        /\ SumFunction(f) \in Nat /\ SumFunction(g) \in Nat
    BY SumIsCount, SumIsNat DEF SumFunction
  <1>2. Cardinality(Points(f, S)) = f[r] + Cardinality(Points(f, S \ {r}))
    BY PointsWithout
  <1>3. Cardinality(Points(g, S)) = g[r] + Cardinality(Points(g, S \ {r}))
    BY PointsWithout
  <1>4. Points(g, S \ {r}) = Points(f, S \ {r})
    BY DEF Points
  <1>5. IsFiniteSet(S \ {r})
    BY FS_Subset
  <1>6. Cardinality(Points(f, S \ {r})) \in Nat
    BY <1>5, PointsFinite
  <1>7. f[r] \in Nat /\ g[r] \in Nat
    OBVIOUS
  <1> QED BY <1>1, <1>2, <1>3, <1>4, <1>6, <1>7

----------------------------------------------------------------------------
(* The invariant: what a row contributes to each counter, and each counter as *)
(* the sum of those contributions.                                         *)

RowRec ==
    [status : Statuses, reserved : Nat, charged : Nat, attempt : BOOLEAN, delivery : BOOLEAN,
     funding : AllFundings, poolDay : 0 .. Days, dailyHeld : Nat, dailyDay : 0 .. Days, created : 0 .. Days]
HoldRec == [amount : Nat, day : 0 .. Days]
UsageRec == [status : {"none", "succeeded", "failed"}, cost : Nat]
BatchRec == [request : Requests, outcome : {"capture", "abort"}]

\* What a row, its daily hold and its usage event say of each other.
RowRules(x, h, u) ==
    /\ h.day = 0 => h.amount = 0
    /\ x.status = "none" => x = NoRow
    /\ x.status # "none" => /\ h = NoHold /\ x.created # 0
                            /\ x.dailyDay = 0 => x.dailyHeld = 0
                            /\ x.funding = "trial_pool" <=> x.poolDay # 0
    /\ x.status \in {"none", "reserved"} => x.charged = 0 /\ u = NoUsage

RowsInv ==
    /\ row \in [Requests -> RowRec] /\ hold \in [Requests -> HoldRec] /\ usage \in [Requests -> UsageRec]
    /\ today \in Day /\ order \in Seq(Requests) /\ batch \in Seq(BatchRec)
    /\ \A r \in Requests : RowRules(row[r], hold[r], usage[r])

\* What a row x of request r contributes to each counter.
WalletHold(a, r, x) == IF AccountOf[r] = a /\ x.funding = "balance" /\ Held(x) THEN x.reserved ELSE 0
WalletCharge(a, r, x) == IF AccountOf[r] = a /\ x.funding = "balance" THEN x.charged ELSE 0
TrialHold(a, r, x) == IF AccountOf[r] = a /\ x.funding = "trial" /\ Held(x) THEN x.reserved ELSE 0
PoolHold(d, x) == IF x.poolDay = d /\ Held(x) THEN x.reserved ELSE 0
OwnHold(d, a, r, x) == IF (x.poolDay = d /\ Held(x)) /\ AccountOf[r] = a THEN x.reserved ELSE 0
DailyHold(a, d, r, x) == IF AccountOf[r] = a /\ Held(x) /\ x.dailyDay = d THEN x.dailyHeld ELSE 0
PendingHold(a, d, r, h) == IF AccountOf[r] = a /\ h.day = d THEN h.amount ELSE 0
KeyUse(k, r, x, u) ==
    IF x.status # "none" /\ KeyOf[r] = k
    THEN (IF u.status = "succeeded" THEN u.cost ELSE 0)
         + (IF Held(x) THEN x.reserved ELSE IF x.status = "settled" /\ u = NoUsage THEN x.charged ELSE 0)
    ELSE 0

WalletHolds(a, rows) == [r \in Requests |-> WalletHold(a, r, rows[r])]
WalletCharges(a, rows) == [r \in Requests |-> WalletCharge(a, r, rows[r])]
TrialHolds(a, rows) == [r \in Requests |-> TrialHold(a, r, rows[r])]
PoolHolds(d, rows) == [r \in Requests |-> PoolHold(d, rows[r])]
OwnHolds(d, a, rows) == [r \in Requests |-> OwnHold(d, a, r, rows[r])]
DailyHolds(a, d, rows) == [r \in Requests |-> DailyHold(a, d, r, rows[r])]
PendingHolds(a, d, holds) == [r \in Requests |-> PendingHold(a, d, r, holds[r])]
KeyUses(k, rows, events) == [r \in Requests |-> KeyUse(k, r, rows[r], events[r])]
Commitments(users) == [a \in Accounts |-> users[a].committed]

WalletInv ==
    /\ bal \in [Accounts -> Amounts] /\ credited \in [Accounts -> Nat]
    /\ \A a \in Accounts :
          /\ bal[a].reserved = SumFunction(WalletHolds(a, row))
          /\ bal[a].available + bal[a].reserved + SumFunction(WalletCharges(a, row)) = credited[a]

TrialRec == [reserved : Nat, spent : Nat, replies : Nat, tokens : Nat]

TrialInv ==
    /\ trial \in [Accounts -> TrialRec]
    /\ \A a \in Accounts :
          trial[a].reserved = SumFunction(TrialHolds(a, row)) /\ trial[a].reserved + trial[a].spent <= TrialCeiling

UserRec == [admitted : BOOLEAN, committed : Nat, reserved : Nat, spent : Nat, replies : Nat, tokens : Nat]
PoolRec == [committed : Nat, reserved : Nat, spent : Nat]

PoolInv ==
    /\ pool \in [Day -> PoolRec] /\ user \in [Day -> [Accounts -> UserRec]]
    /\ \A d \in Day :
          /\ pool[d].committed <= PoolBudget
          /\ pool[d].committed = SumFunction(Commitments(user[d]))
          /\ pool[d].reserved = SumFunction(PoolHolds(d, row))
          /\ \A a \in Accounts :
                /\ user[d][a].reserved = SumFunction(OwnHolds(d, a, row))
                /\ user[d][a].reserved + user[d][a].spent <= user[d][a].committed
                /\ ~user[d][a].admitted => user[d][a].committed = 0

DailyRec == [open : BOOLEAN, reserved : Nat, spent : Nat]

DailyInv ==
    /\ daily \in [Accounts -> [Day -> DailyRec]]
    /\ \A a \in Accounts, d \in Day :
          daily[a][d].reserved = SumFunction(DailyHolds(a, d, row)) + SumFunction(PendingHolds(a, d, hold))
    /\ \A r \in Requests :
          /\ row[r].dailyDay # 0 => daily[AccountOf[r]][row[r].dailyDay].open
          /\ hold[r].day # 0 => daily[AccountOf[r]][hold[r].day].open

KeyInv == \A k \in Keys : SumFunction(KeyUses(k, row, usage)) <= KeyLimit[k]

LedgerInv == RowsInv /\ WalletInv /\ TrialInv /\ PoolInv /\ DailyInv /\ KeyInv

----------------------------------------------------------------------------
(* How the sums follow a change of one row.                                *)

\* Among the rows only those of request r change.
OnlyRow(r) == \A q \in Requests \ {r} : row'[q] = row[q] /\ hold'[q] = hold[q] /\ usage'[q] = usage[q]

RowsType == row \in [Requests -> RowRec] /\ hold \in [Requests -> HoldRec] /\ usage \in [Requests -> UsageRec]

\* Contributions are amounts.
LEMMA Contributions ==
    ASSUME NEW r \in Requests, NEW x \in RowRec, NEW h \in HoldRec, NEW u \in UsageRec
    PROVE  /\ \A a : WalletHold(a, r, x) \in Nat /\ WalletCharge(a, r, x) \in Nat /\ TrialHold(a, r, x) \in Nat
           /\ \A d, a : /\ PoolHold(d, x) \in Nat /\ OwnHold(d, a, r, x) \in Nat
                        /\ DailyHold(a, d, r, x) \in Nat /\ PendingHold(a, d, r, h) \in Nat
           /\ \A k : KeyUse(k, r, x, u) \in Nat
  <1>1. x.reserved \in Nat /\ x.charged \in Nat /\ x.dailyHeld \in Nat /\ h.amount \in Nat /\ u.cost \in Nat
    BY DEF RowRec, HoldRec, UsageRec
  <1> QED BY <1>1 DEF WalletHold, WalletCharge, TrialHold, PoolHold, OwnHold, DailyHold, PendingHold, KeyUse

\* Every total changes by what the changed rows contribute.
LEMMA TotalsFollow ==
    ASSUME RowsType, RowsType', NEW r \in Requests, OnlyRow(r)
    PROVE  /\ \A a :
                 /\ SumFunction(WalletHolds(a, row)) \in Nat /\ SumFunction(WalletHolds(a, row')) \in Nat /\ WalletHold(a, r, row[r]) <= SumFunction(WalletHolds(a, row))
                 /\ SumFunction(WalletHolds(a, row')) + WalletHold(a, r, row[r]) = SumFunction(WalletHolds(a, row)) + WalletHold(a, r, row'[r])
                 /\ SumFunction(WalletCharges(a, row)) \in Nat /\ SumFunction(WalletCharges(a, row')) \in Nat /\ WalletCharge(a, r, row[r]) <= SumFunction(WalletCharges(a, row))
                 /\ SumFunction(WalletCharges(a, row')) + WalletCharge(a, r, row[r]) = SumFunction(WalletCharges(a, row)) + WalletCharge(a, r, row'[r])
                 /\ SumFunction(TrialHolds(a, row)) \in Nat /\ SumFunction(TrialHolds(a, row')) \in Nat /\ TrialHold(a, r, row[r]) <= SumFunction(TrialHolds(a, row))
                 /\ SumFunction(TrialHolds(a, row')) + TrialHold(a, r, row[r]) = SumFunction(TrialHolds(a, row)) + TrialHold(a, r, row'[r])
           /\ \A d, a :
                 /\ SumFunction(PoolHolds(d, row)) \in Nat /\ SumFunction(PoolHolds(d, row')) \in Nat /\ PoolHold(d, row[r]) <= SumFunction(PoolHolds(d, row))
                 /\ SumFunction(PoolHolds(d, row')) + PoolHold(d, row[r]) = SumFunction(PoolHolds(d, row)) + PoolHold(d, row'[r])
                 /\ SumFunction(OwnHolds(d, a, row)) \in Nat /\ SumFunction(OwnHolds(d, a, row')) \in Nat /\ OwnHold(d, a, r, row[r]) <= SumFunction(OwnHolds(d, a, row))
                 /\ SumFunction(OwnHolds(d, a, row')) + OwnHold(d, a, r, row[r]) = SumFunction(OwnHolds(d, a, row)) + OwnHold(d, a, r, row'[r])
                 /\ SumFunction(DailyHolds(a, d, row)) \in Nat /\ SumFunction(DailyHolds(a, d, row')) \in Nat /\ DailyHold(a, d, r, row[r]) <= SumFunction(DailyHolds(a, d, row))
                 /\ SumFunction(DailyHolds(a, d, row')) + DailyHold(a, d, r, row[r]) = SumFunction(DailyHolds(a, d, row)) + DailyHold(a, d, r, row'[r])
                 /\ SumFunction(PendingHolds(a, d, hold)) \in Nat /\ SumFunction(PendingHolds(a, d, hold')) \in Nat /\ PendingHold(a, d, r, hold[r]) <= SumFunction(PendingHolds(a, d, hold))
                 /\ SumFunction(PendingHolds(a, d, hold')) + PendingHold(a, d, r, hold[r]) = SumFunction(PendingHolds(a, d, hold)) + PendingHold(a, d, r, hold'[r])
           /\ \A k :
                 /\ SumFunction(KeyUses(k, row, usage)) \in Nat /\ SumFunction(KeyUses(k, row', usage')) \in Nat /\ KeyUse(k, r, row[r], usage[r]) <= SumFunction(KeyUses(k, row, usage))
                 /\ SumFunction(KeyUses(k, row', usage')) + KeyUse(k, r, row[r], usage[r]) = SumFunction(KeyUses(k, row, usage)) + KeyUse(k, r, row'[r], usage'[r])
  <1>f. IsFiniteSet(Requests)
    BY RequestAssumption
  <1>0. ASSUME NEW f \in [Requests -> Nat], NEW g \in [Requests -> Nat], \A q \in Requests \ {r} : g[q] = f[q]
        PROVE  /\ SumFunction(f) \in Nat /\ SumFunction(g) \in Nat /\ f[r] <= SumFunction(f)
               /\ SumFunction(g) + f[r] = SumFunction(f) + g[r]
    BY <1>0, <1>f, SumChanges
  <1>t. \A q \in Requests : /\ row[q] \in RowRec /\ hold[q] \in HoldRec /\ usage[q] \in UsageRec
                            /\ row'[q] \in RowRec /\ hold'[q] \in HoldRec /\ usage'[q] \in UsageRec
    BY DEF RowsType
  <1>s. \A q \in Requests \ {r} : row'[q] = row[q] /\ hold'[q] = hold[q] /\ usage'[q] = usage[q]
    BY DEF OnlyRow
  <1>1. ASSUME NEW a
        PROVE  /\ SumFunction(WalletHolds(a, row)) \in Nat /\ SumFunction(WalletHolds(a, row')) \in Nat /\ WalletHold(a, r, row[r]) <= SumFunction(WalletHolds(a, row))
               /\ SumFunction(WalletHolds(a, row')) + WalletHold(a, r, row[r]) = SumFunction(WalletHolds(a, row)) + WalletHold(a, r, row'[r])
               /\ SumFunction(WalletCharges(a, row)) \in Nat /\ SumFunction(WalletCharges(a, row')) \in Nat /\ WalletCharge(a, r, row[r]) <= SumFunction(WalletCharges(a, row))
               /\ SumFunction(WalletCharges(a, row')) + WalletCharge(a, r, row[r]) = SumFunction(WalletCharges(a, row)) + WalletCharge(a, r, row'[r])
               /\ SumFunction(TrialHolds(a, row)) \in Nat /\ SumFunction(TrialHolds(a, row')) \in Nat /\ TrialHold(a, r, row[r]) <= SumFunction(TrialHolds(a, row))
               /\ SumFunction(TrialHolds(a, row')) + TrialHold(a, r, row[r]) = SumFunction(TrialHolds(a, row)) + TrialHold(a, r, row'[r])
    <2>1. /\ SumFunction(WalletHolds(a, row)) \in Nat /\ SumFunction(WalletHolds(a, row')) \in Nat /\ WalletHold(a, r, row[r]) <= SumFunction(WalletHolds(a, row))
         /\ SumFunction(WalletHolds(a, row')) + WalletHold(a, r, row[r]) = SumFunction(WalletHolds(a, row)) + WalletHold(a, r, row'[r])
      <3>1. /\ WalletHolds(a, row) \in [Requests -> Nat] /\ WalletHolds(a, row') \in [Requests -> Nat]
            /\ \A q \in Requests \ {r} : WalletHolds(a, row')[q] = WalletHolds(a, row)[q]
            /\ WalletHolds(a, row)[r] = WalletHold(a, r, row[r]) /\ WalletHolds(a, row')[r] = WalletHold(a, r, row'[r])
        BY <1>t, <1>s, Contributions DEF WalletHolds
      <3> QED BY <1>0, <3>1
    <2>2. /\ SumFunction(WalletCharges(a, row)) \in Nat /\ SumFunction(WalletCharges(a, row')) \in Nat /\ WalletCharge(a, r, row[r]) <= SumFunction(WalletCharges(a, row))
         /\ SumFunction(WalletCharges(a, row')) + WalletCharge(a, r, row[r]) = SumFunction(WalletCharges(a, row)) + WalletCharge(a, r, row'[r])
      <3>1. /\ WalletCharges(a, row) \in [Requests -> Nat] /\ WalletCharges(a, row') \in [Requests -> Nat]
            /\ \A q \in Requests \ {r} : WalletCharges(a, row')[q] = WalletCharges(a, row)[q]
            /\ WalletCharges(a, row)[r] = WalletCharge(a, r, row[r]) /\ WalletCharges(a, row')[r] = WalletCharge(a, r, row'[r])
        BY <1>t, <1>s, Contributions DEF WalletCharges
      <3> QED BY <1>0, <3>1
    <2>3. /\ SumFunction(TrialHolds(a, row)) \in Nat /\ SumFunction(TrialHolds(a, row')) \in Nat /\ TrialHold(a, r, row[r]) <= SumFunction(TrialHolds(a, row))
         /\ SumFunction(TrialHolds(a, row')) + TrialHold(a, r, row[r]) = SumFunction(TrialHolds(a, row)) + TrialHold(a, r, row'[r])
      <3>1. /\ TrialHolds(a, row) \in [Requests -> Nat] /\ TrialHolds(a, row') \in [Requests -> Nat]
            /\ \A q \in Requests \ {r} : TrialHolds(a, row')[q] = TrialHolds(a, row)[q]
            /\ TrialHolds(a, row)[r] = TrialHold(a, r, row[r]) /\ TrialHolds(a, row')[r] = TrialHold(a, r, row'[r])
        BY <1>t, <1>s, Contributions DEF TrialHolds
      <3> QED BY <1>0, <3>1
    <2> QED BY <2>1, <2>2, <2>3
  <1>2. ASSUME NEW d, NEW a
        PROVE  /\ SumFunction(PoolHolds(d, row)) \in Nat /\ SumFunction(PoolHolds(d, row')) \in Nat /\ PoolHold(d, row[r]) <= SumFunction(PoolHolds(d, row))
               /\ SumFunction(PoolHolds(d, row')) + PoolHold(d, row[r]) = SumFunction(PoolHolds(d, row)) + PoolHold(d, row'[r])
               /\ SumFunction(OwnHolds(d, a, row)) \in Nat /\ SumFunction(OwnHolds(d, a, row')) \in Nat /\ OwnHold(d, a, r, row[r]) <= SumFunction(OwnHolds(d, a, row))
               /\ SumFunction(OwnHolds(d, a, row')) + OwnHold(d, a, r, row[r]) = SumFunction(OwnHolds(d, a, row)) + OwnHold(d, a, r, row'[r])
               /\ SumFunction(DailyHolds(a, d, row)) \in Nat /\ SumFunction(DailyHolds(a, d, row')) \in Nat /\ DailyHold(a, d, r, row[r]) <= SumFunction(DailyHolds(a, d, row))
               /\ SumFunction(DailyHolds(a, d, row')) + DailyHold(a, d, r, row[r]) = SumFunction(DailyHolds(a, d, row)) + DailyHold(a, d, r, row'[r])
               /\ SumFunction(PendingHolds(a, d, hold)) \in Nat /\ SumFunction(PendingHolds(a, d, hold')) \in Nat /\ PendingHold(a, d, r, hold[r]) <= SumFunction(PendingHolds(a, d, hold))
               /\ SumFunction(PendingHolds(a, d, hold')) + PendingHold(a, d, r, hold[r]) = SumFunction(PendingHolds(a, d, hold)) + PendingHold(a, d, r, hold'[r])
    <2>1. /\ SumFunction(PoolHolds(d, row)) \in Nat /\ SumFunction(PoolHolds(d, row')) \in Nat /\ PoolHold(d, row[r]) <= SumFunction(PoolHolds(d, row))
         /\ SumFunction(PoolHolds(d, row')) + PoolHold(d, row[r]) = SumFunction(PoolHolds(d, row)) + PoolHold(d, row'[r])
      <3>1. /\ PoolHolds(d, row) \in [Requests -> Nat] /\ PoolHolds(d, row') \in [Requests -> Nat]
            /\ \A q \in Requests \ {r} : PoolHolds(d, row')[q] = PoolHolds(d, row)[q]
            /\ PoolHolds(d, row)[r] = PoolHold(d, row[r]) /\ PoolHolds(d, row')[r] = PoolHold(d, row'[r])
        BY <1>t, <1>s, Contributions DEF PoolHolds
      <3> QED BY <1>0, <3>1
    <2>2. /\ SumFunction(OwnHolds(d, a, row)) \in Nat /\ SumFunction(OwnHolds(d, a, row')) \in Nat /\ OwnHold(d, a, r, row[r]) <= SumFunction(OwnHolds(d, a, row))
         /\ SumFunction(OwnHolds(d, a, row')) + OwnHold(d, a, r, row[r]) = SumFunction(OwnHolds(d, a, row)) + OwnHold(d, a, r, row'[r])
      <3>1. /\ OwnHolds(d, a, row) \in [Requests -> Nat] /\ OwnHolds(d, a, row') \in [Requests -> Nat]
            /\ \A q \in Requests \ {r} : OwnHolds(d, a, row')[q] = OwnHolds(d, a, row)[q]
            /\ OwnHolds(d, a, row)[r] = OwnHold(d, a, r, row[r]) /\ OwnHolds(d, a, row')[r] = OwnHold(d, a, r, row'[r])
        BY <1>t, <1>s, Contributions DEF OwnHolds
      <3> QED BY <1>0, <3>1
    <2>3. /\ SumFunction(DailyHolds(a, d, row)) \in Nat /\ SumFunction(DailyHolds(a, d, row')) \in Nat /\ DailyHold(a, d, r, row[r]) <= SumFunction(DailyHolds(a, d, row))
         /\ SumFunction(DailyHolds(a, d, row')) + DailyHold(a, d, r, row[r]) = SumFunction(DailyHolds(a, d, row)) + DailyHold(a, d, r, row'[r])
      <3>1. /\ DailyHolds(a, d, row) \in [Requests -> Nat] /\ DailyHolds(a, d, row') \in [Requests -> Nat]
            /\ \A q \in Requests \ {r} : DailyHolds(a, d, row')[q] = DailyHolds(a, d, row)[q]
            /\ DailyHolds(a, d, row)[r] = DailyHold(a, d, r, row[r]) /\ DailyHolds(a, d, row')[r] = DailyHold(a, d, r, row'[r])
        BY <1>t, <1>s, Contributions DEF DailyHolds
      <3> QED BY <1>0, <3>1
    <2>4. /\ SumFunction(PendingHolds(a, d, hold)) \in Nat /\ SumFunction(PendingHolds(a, d, hold')) \in Nat /\ PendingHold(a, d, r, hold[r]) <= SumFunction(PendingHolds(a, d, hold))
         /\ SumFunction(PendingHolds(a, d, hold')) + PendingHold(a, d, r, hold[r]) = SumFunction(PendingHolds(a, d, hold)) + PendingHold(a, d, r, hold'[r])
      <3>1. /\ PendingHolds(a, d, hold) \in [Requests -> Nat] /\ PendingHolds(a, d, hold') \in [Requests -> Nat]
            /\ \A q \in Requests \ {r} : PendingHolds(a, d, hold')[q] = PendingHolds(a, d, hold)[q]
            /\ PendingHolds(a, d, hold)[r] = PendingHold(a, d, r, hold[r]) /\ PendingHolds(a, d, hold')[r] = PendingHold(a, d, r, hold'[r])
        BY <1>t, <1>s, Contributions DEF PendingHolds
      <3> QED BY <1>0, <3>1
    <2> QED BY <2>1, <2>2, <2>3, <2>4
  <1>3. ASSUME NEW k
        PROVE  /\ SumFunction(KeyUses(k, row, usage)) \in Nat /\ SumFunction(KeyUses(k, row', usage')) \in Nat /\ KeyUse(k, r, row[r], usage[r]) <= SumFunction(KeyUses(k, row, usage))
               /\ SumFunction(KeyUses(k, row', usage')) + KeyUse(k, r, row[r], usage[r]) = SumFunction(KeyUses(k, row, usage)) + KeyUse(k, r, row'[r], usage'[r])
    <2>1. /\ SumFunction(KeyUses(k, row, usage)) \in Nat /\ SumFunction(KeyUses(k, row', usage')) \in Nat /\ KeyUse(k, r, row[r], usage[r]) <= SumFunction(KeyUses(k, row, usage))
         /\ SumFunction(KeyUses(k, row', usage')) + KeyUse(k, r, row[r], usage[r]) = SumFunction(KeyUses(k, row, usage)) + KeyUse(k, r, row'[r], usage'[r])
      <3>1. /\ KeyUses(k, row, usage) \in [Requests -> Nat] /\ KeyUses(k, row', usage') \in [Requests -> Nat]
            /\ \A q \in Requests \ {r} : KeyUses(k, row', usage')[q] = KeyUses(k, row, usage)[q]
            /\ KeyUses(k, row, usage)[r] = KeyUse(k, r, row[r], usage[r]) /\ KeyUses(k, row', usage')[r] = KeyUse(k, r, row'[r], usage'[r])
        BY <1>t, <1>s, Contributions DEF KeyUses
      <3> QED BY <1>0, <3>1
    <2> QED BY <2>1
  <1> QED BY <1>1, <1>2, <1>3

----------------------------------------------------------------------------
(* A counter moves with the row of one request.                            *)

\* A counter that equals a sum, or two, and changes as its terms do, equals it again.
LEMMA Carried ==
    ASSUME NEW x \in Nat, NEW y \in Nat, NEW s \in Nat, NEW t \in Nat, NEW o \in Nat, NEW n \in Nat,
           x = s, y + o = x + n, t + o = s + n
    PROVE  y = t
  OBVIOUS

\* The same for a counter that is the total of two sums.
LEMMA CarriedTwice ==
    ASSUME NEW x \in Nat, NEW y \in Nat, NEW s \in Nat, NEW t \in Nat, NEW o \in Nat, NEW n \in Nat,
           NEW ss \in Nat, NEW tt \in Nat, NEW oo \in Nat, NEW nn \in Nat,
           x = s + ss, y + o + oo = x + n + nn, t + o = s + n, tt + oo = ss + nn
    PROVE  y = t + tt
  OBVIOUS

\* The wallet of one account moves with the row of one request.
LEMMA WalletStep ==
    ASSUME RowsType, RowsType', NEW r \in Requests, OnlyRow(r), WalletInv, NEW a \in Accounts, AccountOf[r] = a,
           bal' \in [Accounts -> Amounts], credited' = credited, \A b \in Accounts \ {a} : bal'[b] = bal[b],
           bal'[a].reserved + WalletHold(a, r, row[r]) = bal[a].reserved + WalletHold(a, r, row'[r]),
           bal'[a].available + bal'[a].reserved + WalletCharge(a, r, row'[r])
             = bal[a].available + bal[a].reserved + WalletCharge(a, r, row[r])
    PROVE  WalletInv'
  <1>1. ASSUME NEW b \in Accounts
        PROVE  /\ bal'[b].reserved = SumFunction(WalletHolds(b, row'))
               /\ bal'[b].available + bal'[b].reserved + SumFunction(WalletCharges(b, row')) = credited[b]
    <2>1. /\ SumFunction(WalletHolds(b, row)) \in Nat /\ SumFunction(WalletHolds(b, row')) \in Nat
          /\ SumFunction(WalletHolds(b, row')) + WalletHold(b, r, row[r]) = SumFunction(WalletHolds(b, row)) + WalletHold(b, r, row'[r])
          /\ SumFunction(WalletCharges(b, row)) \in Nat /\ SumFunction(WalletCharges(b, row')) \in Nat
          /\ SumFunction(WalletCharges(b, row')) + WalletCharge(b, r, row[r]) = SumFunction(WalletCharges(b, row)) + WalletCharge(b, r, row'[r])
      BY TotalsFollow
    <2>2. /\ bal[b].reserved = SumFunction(WalletHolds(b, row))
          /\ bal[b].available + bal[b].reserved + SumFunction(WalletCharges(b, row)) = credited[b]
          /\ credited[b] \in Nat
      BY DEF WalletInv
    <2>3. /\ bal[b].available \in Nat /\ bal[b].reserved \in Nat /\ bal'[b].available \in Nat /\ bal'[b].reserved \in Nat
      BY DEF WalletInv, Amounts
    <2>4. row[r] \in RowRec /\ row'[r] \in RowRec /\ hold[r] \in HoldRec /\ usage[r] \in UsageRec
      BY DEF RowsType
    <2>5. /\ WalletHold(b, r, row[r]) \in Nat /\ WalletHold(b, r, row'[r]) \in Nat
          /\ WalletCharge(b, r, row[r]) \in Nat /\ WalletCharge(b, r, row'[r]) \in Nat
      BY <2>4, Contributions
    <2>6. CASE b = a
      BY <2>1, <2>2, <2>3, <2>5, <2>6
    <2>7. CASE b # a
      <3>1. /\ WalletHold(b, r, row[r]) = 0 /\ WalletHold(b, r, row'[r]) = 0
            /\ WalletCharge(b, r, row[r]) = 0 /\ WalletCharge(b, r, row'[r]) = 0
        BY <2>7 DEF WalletHold, WalletCharge
      <3> QED BY <2>1, <2>2, <2>3, <2>7, <3>1
    <2> QED BY <2>6, <2>7
  <1> QED BY <1>1 DEF WalletInv

\* The entitlement of one account moves with the row of one request.
LEMMA TrialStep ==
    ASSUME RowsType, RowsType', NEW r \in Requests, OnlyRow(r), TrialInv, NEW a \in Accounts, AccountOf[r] = a,
           trial' \in [Accounts -> TrialRec], \A b \in Accounts \ {a} : trial'[b] = trial[b],
           trial'[a].reserved + TrialHold(a, r, row[r]) = trial[a].reserved + TrialHold(a, r, row'[r]),
           trial'[a].reserved + trial'[a].spent <= TrialCeiling
    PROVE  TrialInv'
  <1>1. ASSUME NEW b \in Accounts
        PROVE  trial'[b].reserved = SumFunction(TrialHolds(b, row')) /\ trial'[b].reserved + trial'[b].spent <= TrialCeiling
    <2>1. /\ SumFunction(TrialHolds(b, row)) \in Nat /\ SumFunction(TrialHolds(b, row')) \in Nat
          /\ SumFunction(TrialHolds(b, row')) + TrialHold(b, r, row[r]) = SumFunction(TrialHolds(b, row)) + TrialHold(b, r, row'[r])
      BY TotalsFollow
    <2>2. trial[b].reserved = SumFunction(TrialHolds(b, row)) /\ trial[b].reserved + trial[b].spent <= TrialCeiling
      BY DEF TrialInv
    <2>3. trial[b].reserved \in Nat /\ trial'[b].reserved \in Nat
      BY DEF TrialInv, TrialRec
    <2>4. row[r] \in RowRec /\ row'[r] \in RowRec /\ hold[r] \in HoldRec /\ usage[r] \in UsageRec
      BY DEF RowsType
    <2>5. TrialHold(b, r, row[r]) \in Nat /\ TrialHold(b, r, row'[r]) \in Nat
      BY <2>4, Contributions
    <2>6. CASE b = a
      BY <2>1, <2>2, <2>3, <2>5, <2>6
    <2>7. CASE b # a
      <3>1. TrialHold(b, r, row[r]) = 0 /\ TrialHold(b, r, row'[r]) = 0
        BY <2>7 DEF TrialHold
      <3> QED BY <2>1, <2>2, <2>3, <2>7, <3>1
    <2> QED BY <2>6, <2>7
  <1> QED BY <1>1 DEF TrialInv

DailyMoves(r, a, e) ==
    /\ daily[a][e].open => daily'[a][e].open
    /\ daily'[a][e].reserved + DailyHold(a, e, r, row[r]) + PendingHold(a, e, r, hold[r])
         = daily[a][e].reserved + DailyHold(a, e, r, row'[r]) + PendingHold(a, e, r, hold'[r])

\* The daily counters of one account move with the row and the hold of one request.
LEMMA DailyStep ==
    ASSUME RowsType, RowsType', NEW r \in Requests, OnlyRow(r), DailyInv, NEW a \in Accounts, AccountOf[r] = a,
           daily' \in [Accounts -> [Day -> DailyRec]], \A b \in Accounts \ {a} : daily'[b] = daily[b],
           \A e \in Day : DailyMoves(r, a, e),
           row'[r].dailyDay # 0 => daily'[a][row'[r].dailyDay].open,
           hold'[r].day # 0 => daily'[a][hold'[r].day].open
    PROVE  DailyInv'
  <1>1. ASSUME NEW b \in Accounts, NEW e \in Day
        PROVE  daily'[b][e].reserved = SumFunction(DailyHolds(b, e, row')) + SumFunction(PendingHolds(b, e, hold'))
    <2>1. /\ SumFunction(DailyHolds(b, e, row)) \in Nat /\ SumFunction(DailyHolds(b, e, row')) \in Nat
          /\ SumFunction(DailyHolds(b, e, row')) + DailyHold(b, e, r, row[r]) = SumFunction(DailyHolds(b, e, row)) + DailyHold(b, e, r, row'[r])
          /\ SumFunction(PendingHolds(b, e, hold)) \in Nat /\ SumFunction(PendingHolds(b, e, hold')) \in Nat
          /\ SumFunction(PendingHolds(b, e, hold')) + PendingHold(b, e, r, hold[r]) = SumFunction(PendingHolds(b, e, hold)) + PendingHold(b, e, r, hold'[r])
      BY TotalsFollow
    <2>2. daily[b][e].reserved = SumFunction(DailyHolds(b, e, row)) + SumFunction(PendingHolds(b, e, hold))
      BY DEF DailyInv
    <2>3. daily[b][e] \in DailyRec /\ daily'[b][e] \in DailyRec
      BY DEF DailyInv
    <2>3a. daily[b][e].reserved \in Nat /\ daily'[b][e].reserved \in Nat
      BY <2>3 DEF DailyRec
    <2>4. row[r] \in RowRec /\ row'[r] \in RowRec /\ hold[r] \in HoldRec /\ hold'[r] \in HoldRec /\ usage[r] \in UsageRec
      BY DEF RowsType
    <2>5. /\ DailyHold(b, e, r, row[r]) \in Nat /\ DailyHold(b, e, r, row'[r]) \in Nat
          /\ PendingHold(b, e, r, hold[r]) \in Nat /\ PendingHold(b, e, r, hold'[r]) \in Nat
      <3>1. DailyHold(b, e, r, row[r]) \in Nat /\ PendingHold(b, e, r, hold[r]) \in Nat
        BY <2>4, Contributions
      <3>2. DailyHold(b, e, r, row'[r]) \in Nat /\ PendingHold(b, e, r, hold'[r]) \in Nat
        BY <2>4, Contributions
      <3> QED BY <3>1, <3>2
    <2>6. CASE b = a
      <3>1. daily'[b][e].reserved + DailyHold(b, e, r, row[r]) + PendingHold(b, e, r, hold[r])
              = daily[b][e].reserved + DailyHold(b, e, r, row'[r]) + PendingHold(b, e, r, hold'[r])
        BY <2>6 DEF DailyMoves
      <3> DEFINE x == daily[b][e].reserved
                 y == daily'[b][e].reserved
                 s == SumFunction(DailyHolds(b, e, row))
                 t == SumFunction(DailyHolds(b, e, row'))
                 ss == SumFunction(PendingHolds(b, e, hold))
                 tt == SumFunction(PendingHolds(b, e, hold'))
                 o == DailyHold(b, e, r, row[r])
                 n == DailyHold(b, e, r, row'[r])
                 oo == PendingHold(b, e, r, hold[r])
                 nn == PendingHold(b, e, r, hold'[r])
      <3>2. /\ x \in Nat /\ y \in Nat /\ s \in Nat /\ t \in Nat /\ o \in Nat /\ n \in Nat
            /\ ss \in Nat /\ tt \in Nat /\ oo \in Nat /\ nn \in Nat
            /\ x = s + ss /\ y + o + oo = x + n + nn /\ t + o = s + n /\ tt + oo = ss + nn
        BY <3>1, <2>1, <2>2, <2>3a, <2>5
      <3> HIDE DEF x, y, s, t, o, n, ss, tt, oo, nn
      <3>3. y = t + tt
        BY <3>2, CarriedTwice
      <3> QED BY <3>3 DEF y, t, tt
    <2>7. CASE b # a
      <3>1. /\ DailyHold(b, e, r, row[r]) = 0 /\ DailyHold(b, e, r, row'[r]) = 0
            /\ PendingHold(b, e, r, hold[r]) = 0 /\ PendingHold(b, e, r, hold'[r]) = 0
        BY <2>7 DEF DailyHold, PendingHold
      <3> QED BY <2>1, <2>2, <2>3a, <2>7, <3>1
    <2> QED BY <2>6, <2>7
  <1>2. ASSUME NEW q \in Requests
        PROVE  /\ row'[q].dailyDay # 0 => daily'[AccountOf[q]][row'[q].dailyDay].open
               /\ hold'[q].day # 0 => daily'[AccountOf[q]][hold'[q].day].open
    <2>1. CASE q = r
      BY <2>1
    <2>2. CASE q # r
      <3>1. row'[q] = row[q] /\ hold'[q] = hold[q]
        BY <2>2 DEF OnlyRow
      <3>2. row[q] \in RowRec /\ hold[q] \in HoldRec /\ AccountOf[q] \in Accounts
        BY RequestAssumption DEF RowsType
      <3>3. row[q].dailyDay # 0 => row[q].dailyDay \in Day
        BY <3>2, LimitAssumption DEF RowRec, Day
      <3>4. hold[q].day # 0 => hold[q].day \in Day
        BY <3>2, LimitAssumption DEF HoldRec, Day
      <3>5. \A b \in Accounts, e \in Day : daily[b][e].open => daily'[b][e].open
        BY DEF DailyMoves
      <3> QED BY <3>1, <3>2, <3>3, <3>4, <3>5 DEF DailyInv
    <2> QED BY <2>1, <2>2
  <1> QED BY <1>1, <1>2 DEF DailyInv

\* The use of one key moves with the row and the usage event of one request.
LEMMA KeyStep ==
    ASSUME RowsType, RowsType', NEW r \in Requests, OnlyRow(r), KeyInv, NEW k \in Keys, KeyOf[r] = k,
           \/ KeyUse(k, r, row'[r], usage'[r]) <= KeyUse(k, r, row[r], usage[r])
           \/ SumFunction(KeyUses(k, row, usage)) + KeyUse(k, r, row'[r], usage'[r])
                <= KeyLimit[k] + KeyUse(k, r, row[r], usage[r])
    PROVE  KeyInv'
  <1>1. ASSUME NEW n \in Keys
        PROVE  SumFunction(KeyUses(n, row', usage')) <= KeyLimit[n]
    <2>1. /\ SumFunction(KeyUses(n, row, usage)) \in Nat /\ SumFunction(KeyUses(n, row', usage')) \in Nat
          /\ SumFunction(KeyUses(n, row', usage')) + KeyUse(n, r, row[r], usage[r])
               = SumFunction(KeyUses(n, row, usage)) + KeyUse(n, r, row'[r], usage'[r])
      BY TotalsFollow
    <2>2. SumFunction(KeyUses(n, row, usage)) <= KeyLimit[n] /\ KeyLimit[n] \in Nat
      BY LimitAssumption DEF KeyInv
    <2>3. /\ row[r] \in RowRec /\ row'[r] \in RowRec /\ hold[r] \in HoldRec
          /\ usage[r] \in UsageRec /\ usage'[r] \in UsageRec
      BY DEF RowsType
    <2>4. KeyUse(n, r, row[r], usage[r]) \in Nat /\ KeyUse(n, r, row'[r], usage'[r]) \in Nat
      BY <2>3, Contributions
    <2>5. CASE n = k
      BY <2>1, <2>2, <2>4, <2>5
    <2>6. CASE n # k
      <3>1. KeyUse(n, r, row[r], usage[r]) = 0 /\ KeyUse(n, r, row'[r], usage'[r]) = 0
        BY <2>6 DEF KeyUse
      <3> QED BY <2>1, <2>2, <2>6, <3>1
    <2> QED BY <2>5, <2>6
  <1> QED BY <1>1 DEF KeyInv

PoolMoves(r, a, e) ==
    /\ \A b \in Accounts \ {a} : user'[e][b] = user[e][b]
    /\ pool'[e].reserved + PoolHold(e, row[r]) = pool[e].reserved + PoolHold(e, row'[r])
    /\ user'[e][a].reserved + PoolHold(e, row[r]) = user[e][a].reserved + PoolHold(e, row'[r])
    /\ user'[e][a].reserved + user'[e][a].spent <= user'[e][a].committed
    /\ ~user'[e][a].admitted => user'[e][a].committed = 0
    /\ pool'[e].committed + user[e][a].committed = pool[e].committed + user'[e][a].committed
    /\ pool'[e].committed <= PoolBudget

\* The pool's counters of every day move with the row of one request.
LEMMA PoolStep ==
    ASSUME RowsType, RowsType', NEW r \in Requests, OnlyRow(r), PoolInv, NEW a \in Accounts, AccountOf[r] = a,
           pool' \in [Day -> PoolRec], user' \in [Day -> [Accounts -> UserRec]],
           \A e \in Day : PoolMoves(r, a, e)
    PROVE  PoolInv'
  <1>1. ASSUME NEW e \in Day
        PROVE  /\ pool'[e].committed = SumFunction(Commitments(user'[e]))
               /\ pool'[e].reserved = SumFunction(PoolHolds(e, row'))
               /\ \A b \in Accounts :
                     /\ user'[e][b].reserved = SumFunction(OwnHolds(e, b, row'))
                     /\ user'[e][b].reserved + user'[e][b].spent <= user'[e][b].committed
                     /\ ~user'[e][b].admitted => user'[e][b].committed = 0
    <2>1. row[r] \in RowRec /\ row'[r] \in RowRec /\ hold[r] \in HoldRec /\ usage[r] \in UsageRec
      BY DEF RowsType
    <2>2. PoolHold(e, row[r]) \in Nat /\ PoolHold(e, row'[r]) \in Nat
      BY <2>1, Contributions
    <2>3. pool[e] \in PoolRec /\ pool'[e] \in PoolRec
      BY DEF PoolInv
    <2>4. /\ pool[e].reserved \in Nat /\ pool'[e].reserved \in Nat
          /\ pool[e].committed \in Nat /\ pool'[e].committed \in Nat
      BY <2>3 DEF PoolRec
    <2>5. \A b \in Accounts : user[e][b] \in UserRec /\ user'[e][b] \in UserRec
      BY DEF PoolInv
    <2>6. \A b \in Accounts : /\ user[e][b].reserved \in Nat /\ user'[e][b].reserved \in Nat
                              /\ user[e][b].committed \in Nat /\ user'[e][b].committed \in Nat
      BY <2>5 DEF UserRec
    <2>7. pool'[e].committed = SumFunction(Commitments(user'[e]))
      <3>1. /\ Commitments(user[e]) \in [Accounts -> Nat] /\ Commitments(user'[e]) \in [Accounts -> Nat]
            /\ \A b \in Accounts \ {a} : Commitments(user'[e])[b] = Commitments(user[e])[b]
            /\ Commitments(user[e])[a] = user[e][a].committed /\ Commitments(user'[e])[a] = user'[e][a].committed
        BY <2>6 DEF Commitments, PoolMoves
      <3>2. IsFiniteSet(Accounts)
        BY RequestAssumption
      <3>3. /\ SumFunction(Commitments(user[e])) \in Nat /\ SumFunction(Commitments(user'[e])) \in Nat
            /\ SumFunction(Commitments(user'[e])) + Commitments(user[e])[a]
                 = SumFunction(Commitments(user[e])) + Commitments(user'[e])[a]
        <4> DEFINE f == Commitments(user[e])
                   g == Commitments(user'[e])
        <4> HIDE DEF f, g
        <4>1. f \in [Accounts -> Nat] /\ g \in [Accounts -> Nat] /\ \A b \in Accounts \ {a} : g[b] = f[b]
          BY <3>1 DEF f, g
        <4>2. SumFunction(f) \in Nat /\ SumFunction(g) \in Nat /\ SumFunction(g) + f[a] = SumFunction(f) + g[a]
          BY <4>1, <3>2, SumChanges
        <4> QED BY <4>2 DEF f, g
      <3>4. pool[e].committed = SumFunction(Commitments(user[e]))
        BY DEF PoolInv
      <3>5. pool'[e].committed + user[e][a].committed = pool[e].committed + user'[e][a].committed
        BY DEF PoolMoves
      <3>6. /\ SumFunction(Commitments(user'[e])) + user[e][a].committed
                 = SumFunction(Commitments(user[e])) + user'[e][a].committed
            /\ user[e][a].committed \in Nat /\ user'[e][a].committed \in Nat
        BY <3>1, <3>3, <2>6
      <3> QED BY <3>3, <3>4, <3>5, <3>6, <2>4
    <2>8. pool'[e].reserved = SumFunction(PoolHolds(e, row'))
      <3>1. /\ SumFunction(PoolHolds(e, row)) \in Nat /\ SumFunction(PoolHolds(e, row')) \in Nat
            /\ SumFunction(PoolHolds(e, row')) + PoolHold(e, row[r]) = SumFunction(PoolHolds(e, row)) + PoolHold(e, row'[r])
        BY TotalsFollow
      <3>2. pool[e].reserved = SumFunction(PoolHolds(e, row))
        BY DEF PoolInv
      <3>3. pool'[e].reserved + PoolHold(e, row[r]) = pool[e].reserved + PoolHold(e, row'[r])
        BY DEF PoolMoves
      <3> DEFINE x == pool[e].reserved
                 y == pool'[e].reserved
                 s == SumFunction(PoolHolds(e, row))
                 t == SumFunction(PoolHolds(e, row'))
                 o == PoolHold(e, row[r])
                 n == PoolHold(e, row'[r])
      <3>4. /\ x \in Nat /\ y \in Nat /\ s \in Nat /\ t \in Nat /\ o \in Nat /\ n \in Nat
            /\ x = s /\ y + o = x + n /\ t + o = s + n
        BY <3>1, <3>2, <3>3, <2>2, <2>4
      <3> HIDE DEF x, y, s, t, o, n
      <3>5. y = t
        BY <3>4, Carried
      <3> QED BY <3>5 DEF y, t
    <2>9. ASSUME NEW b \in Accounts
          PROVE  /\ user'[e][b].reserved = SumFunction(OwnHolds(e, b, row'))
                 /\ user'[e][b].reserved + user'[e][b].spent <= user'[e][b].committed
                 /\ ~user'[e][b].admitted => user'[e][b].committed = 0
      <3>1. /\ SumFunction(OwnHolds(e, b, row)) \in Nat /\ SumFunction(OwnHolds(e, b, row')) \in Nat
            /\ SumFunction(OwnHolds(e, b, row')) + OwnHold(e, b, r, row[r]) = SumFunction(OwnHolds(e, b, row)) + OwnHold(e, b, r, row'[r])
        BY TotalsFollow
      <3>2. /\ user[e][b].reserved = SumFunction(OwnHolds(e, b, row))
            /\ user[e][b].reserved + user[e][b].spent <= user[e][b].committed
            /\ ~user[e][b].admitted => user[e][b].committed = 0
        BY DEF PoolInv
      <3>3. CASE b = a
        <4>1. OwnHold(e, b, r, row[r]) = PoolHold(e, row[r]) /\ OwnHold(e, b, r, row'[r]) = PoolHold(e, row'[r])
          BY <3>3 DEF OwnHold, PoolHold
        <4>2. /\ user'[e][b].reserved + PoolHold(e, row[r]) = user[e][b].reserved + PoolHold(e, row'[r])
              /\ user'[e][b].reserved + user'[e][b].spent <= user'[e][b].committed
              /\ ~user'[e][b].admitted => user'[e][b].committed = 0
          BY <3>3 DEF PoolMoves
        <4>3. user[e][b].reserved \in Nat /\ user'[e][b].reserved \in Nat
          BY <2>6
        <4> QED BY <3>1, <3>2, <4>1, <4>2, <4>3, <2>2
      <3>4. CASE b # a
        <4>1. OwnHold(e, b, r, row[r]) = 0 /\ OwnHold(e, b, r, row'[r]) = 0
          BY <3>4 DEF OwnHold
        <4>2. user'[e][b] = user[e][b]
          BY <3>4 DEF PoolMoves
        <4> QED BY <3>1, <3>2, <4>1, <4>2, <2>6
      <3> QED BY <3>3, <3>4
    <2> QED BY <2>7, <2>8, <2>9
  <1>2. \A e \in Day : pool'[e].committed <= PoolBudget
    BY DEF PoolMoves
  <1> QED BY <1>1, <1>2 DEF PoolInv

----------------------------------------------------------------------------
(* A finalization, counter by counter.                                     *)

\* Row y is row x after a finalization that charged the amount.
SettledTo(x, y, charge) ==
    /\ x \in RowRec /\ y \in RowRec /\ Held(x) /\ ~Held(y) /\ x.charged = 0
    /\ y.status # "none" /\ y.status # "reserved" /\ (y.status = "settled" <=> charge > 0)
    /\ charge \in Nat /\ charge <= x.reserved /\ y.charged = charge
    /\ y.reserved = x.reserved /\ y.funding = x.funding /\ y.poolDay = x.poolDay
    /\ y.dailyHeld = x.dailyHeld /\ y.dailyDay = x.dailyDay /\ y.created = x.created

\* finalizeInferenceReservation leaves a held row settled or released, charged
\* at most what it reserved, and changes nothing else of it.
LEMMA SettledRow ==
    ASSUME NEW x \in RowRec, Held(x), x.charged = 0, NEW o \in Outcomes, NEW j \in BOOLEAN, NEW c \in Nat
    PROVE  SettledTo(x, Finalize(x, o, j, c), Charge(x, o, j, c))
  <1> DEFINE charge == Charge(x, o, j, c)
             y == [x EXCEPT !.status = IF charge > 0 THEN "settled" ELSE "released", !.charged = charge]
  <1>1. Finalize(x, o, j, c) = y
    BY DEF Finalize
  <1>2. x.reserved \in Nat
    BY DEF RowRec
  <1>3. charge \in Nat /\ charge <= x.reserved
    BY <1>2 DEF Charge, Least
  <1>4. y \in RowRec
    <2> HIDE DEF charge
    <2> QED BY <1>3 DEF RowRec, Statuses
  <1>5. /\ y.status = (IF charge > 0 THEN "settled" ELSE "released") /\ y.charged = charge
        /\ y.reserved = x.reserved /\ y.funding = x.funding /\ y.poolDay = x.poolDay
        /\ y.dailyHeld = x.dailyHeld /\ y.dailyDay = x.dailyDay /\ y.created = x.created
    <2> HIDE DEF charge
    <2> QED BY DEF RowRec
  <1> HIDE DEF charge, y
  <1>6. ~Held(y) /\ y.status # "none" /\ y.status # "reserved" /\ (y.status = "settled" <=> charge > 0)
    BY <1>5 DEF Held
  <1>7. SettledTo(x, y, charge)
    BY <1>3, <1>4, <1>5, <1>6 DEF SettledTo
  <1> QED BY <1>1, <1>7 DEF charge

\* The two amounts of one wallet are written.
LEMMA WalletWritten ==
    ASSUME bal \in [Accounts -> Amounts], NEW a \in Accounts, NEW n \in Nat, NEW m \in Nat,
           \/ bal' = [bal EXCEPT ![a].reserved = n, ![a].available = m]
           \/ bal' = [bal EXCEPT ![a].available = m, ![a].reserved = n]
    PROVE  /\ bal' \in [Accounts -> Amounts] /\ bal'[a].reserved = n /\ bal'[a].available = m
           /\ \A b \in Accounts \ {a} : bal'[b] = bal[b]
  <1>1. bal' \in [Accounts -> Amounts]
    BY DEF Amounts
  <1>2. bal'[a].reserved = n /\ bal'[a].available = m
    BY DEF Amounts
  <1> QED BY <1>1, <1>2

\* A finalization of a wallet row moves the wallet with it.
LEMMA SettledWallet ==
    ASSUME RowsType, RowsType', NEW r \in Requests, OnlyRow(r), WalletInv, NEW charge,
           SettledTo(row[r], row'[r], charge), row[r].funding = "balance", ReleaseWallet(r, charge), credited' = credited
    PROVE  WalletInv'
  <1> DEFINE a == AccountOf[r]
             x == row[r]
  <1>1. a \in Accounts
    BY RequestAssumption
  <1>2. x.reserved \in Nat /\ charge \in Nat /\ charge <= x.reserved
    BY DEF SettledTo, RowRec
  <1>3. /\ WalletHold(a, r, x) = x.reserved /\ WalletHold(a, r, row'[r]) = 0
        /\ WalletCharge(a, r, x) = 0 /\ WalletCharge(a, r, row'[r]) = charge
    BY DEF SettledTo, WalletHold, WalletCharge
  <1>4. bal[a].reserved >= x.reserved
    <2>1. WalletHold(a, r, row[r]) <= SumFunction(WalletHolds(a, row))
      BY TotalsFollow
    <2>2. bal[a].reserved = SumFunction(WalletHolds(a, row))
      BY <1>1 DEF WalletInv
    <2> QED BY <2>1, <2>2, <1>3
  <1>5. bal \in [Accounts -> Amounts] /\ bal[a].available \in Nat /\ bal[a].reserved \in Nat
    BY <1>1 DEF WalletInv, Amounts
  <1> DEFINE n == bal[a].reserved - x.reserved
             m == bal[a].available + (x.reserved - charge)
  <1>6. n \in Nat /\ m \in Nat /\ n + x.reserved = bal[a].reserved
        /\ m + n + charge = bal[a].available + bal[a].reserved
    BY <1>2, <1>4, <1>5
  <1>7. bal' = [bal EXCEPT ![a].reserved = n, ![a].available = m]
    BY <1>1, <1>5 DEF ReleaseWallet, Amounts
  <1> HIDE DEF n, m
  <1>8. /\ bal' \in [Accounts -> Amounts] /\ bal'[a].reserved = n /\ bal'[a].available = m
        /\ \A b \in Accounts \ {a} : bal'[b] = bal[b]
    <2> HIDE DEF a
    <2> QED BY <1>1, <1>5, <1>6, <1>7, WalletWritten
  <1>10. /\ bal'[a].reserved + WalletHold(a, r, row[r]) = bal[a].reserved + WalletHold(a, r, row'[r])
         /\ bal'[a].available + bal'[a].reserved + WalletCharge(a, r, row'[r])
              = bal[a].available + bal[a].reserved + WalletCharge(a, r, row[r])
    BY <1>2, <1>3, <1>5, <1>6, <1>8
  <1> HIDE DEF a
  <1>11. AccountOf[r] = a
    BY DEF a
  <1> QED BY <1>1, <1>8, <1>10, <1>11, WalletStep

\* What leaves the wallet's contributions alone leaves the wallet in balance.
LEMMA WalletIdle ==
    ASSUME RowsType, RowsType', NEW r \in Requests, OnlyRow(r), WalletInv, bal' = bal, credited' = credited,
           \A a : /\ WalletHold(a, r, row'[r]) = WalletHold(a, r, row[r])
                  /\ WalletCharge(a, r, row'[r]) = WalletCharge(a, r, row[r])
    PROVE  WalletInv'
  <1> DEFINE a == AccountOf[r]
  <1>1. a \in Accounts /\ AccountOf[r] = a
    BY RequestAssumption
  <1>2. bal' \in [Accounts -> Amounts] /\ \A n \in Accounts \ {a} : bal'[n] = bal[n]
    BY DEF WalletInv
  <1>3. /\ bal'[a].reserved + WalletHold(a, r, row[r]) = bal[a].reserved + WalletHold(a, r, row'[r])
        /\ bal'[a].available + bal'[a].reserved + WalletCharge(a, r, row'[r])
              = bal[a].available + bal[a].reserved + WalletCharge(a, r, row[r])
    OBVIOUS
  <1> HIDE DEF a
  <1> QED BY <1>1, <1>2, <1>3, WalletStep

\* The same for the entitlement,
LEMMA TrialIdle ==
    ASSUME RowsType, RowsType', NEW r \in Requests, OnlyRow(r), TrialInv, trial' = trial,
           \A a : TrialHold(a, r, row'[r]) = TrialHold(a, r, row[r])
    PROVE  TrialInv'
  <1> DEFINE a == AccountOf[r]
  <1>1. a \in Accounts /\ AccountOf[r] = a
    BY RequestAssumption
  <1>2. trial' \in [Accounts -> TrialRec] /\ \A n \in Accounts \ {a} : trial'[n] = trial[n]
    BY DEF TrialInv
  <1>3. /\ trial'[a].reserved + TrialHold(a, r, row[r]) = trial[a].reserved + TrialHold(a, r, row'[r])
        /\ trial'[a].reserved + trial'[a].spent <= TrialCeiling
    BY <1>1 DEF TrialInv
  <1> HIDE DEF a
  <1> QED BY <1>1, <1>2, <1>3, TrialStep

\* for the pool,
LEMMA PoolIdle ==
    ASSUME RowsType, RowsType', NEW r \in Requests, OnlyRow(r), PoolInv, pool' = pool, user' = user,
           \A d \in Day : PoolHold(d, row'[r]) = PoolHold(d, row[r])
    PROVE  PoolInv'
  <1> DEFINE a == AccountOf[r]
  <1>1. a \in Accounts /\ AccountOf[r] = a
    BY RequestAssumption
  <1>2. pool' \in [Day -> PoolRec] /\ user' \in [Day -> [Accounts -> UserRec]]
    BY DEF PoolInv
  <1>3. \A e \in Day : PoolMoves(r, a, e)
    BY <1>1 DEF PoolInv, PoolMoves
  <1> HIDE DEF a
  <1> QED BY <1>1, <1>2, <1>3, PoolStep

\* and for the daily counters, when a hold moves from one record to another.
LEMMA DailyIdle ==
    ASSUME RowsType, RowsType', NEW r \in Requests, OnlyRow(r), DailyInv, daily' = daily,
           row'[r].dailyDay \in {0, row[r].dailyDay, hold[r].day}, hold'[r].day \in {0, hold[r].day},
           \A a, d : DailyHold(a, d, r, row'[r]) + PendingHold(a, d, r, hold'[r])
                       = DailyHold(a, d, r, row[r]) + PendingHold(a, d, r, hold[r])
    PROVE  DailyInv'
  <1> DEFINE a == AccountOf[r]
  <1>1. a \in Accounts /\ AccountOf[r] = a
    BY RequestAssumption
  <1>2. daily' \in [Accounts -> [Day -> DailyRec]] /\ \A n \in Accounts \ {a} : daily'[n] = daily[n]
    BY DEF DailyInv
  <1>3. /\ row[r] \in RowRec /\ row'[r] \in RowRec /\ hold[r] \in HoldRec /\ hold'[r] \in HoldRec /\ usage[r] \in UsageRec
    BY DEF RowsType
  <1>4. ASSUME NEW e \in Day PROVE DailyMoves(r, a, e)
    <2>1. daily[a][e] \in DailyRec
      BY <1>1 DEF DailyInv
    <2>2. daily[a][e].reserved \in Nat
      BY <2>1 DEF DailyRec
    <2>3. DailyHold(a, e, r, row[r]) \in Nat /\ PendingHold(a, e, r, hold[r]) \in Nat
      BY <1>3, Contributions
    <2>4. DailyHold(a, e, r, row'[r]) \in Nat /\ PendingHold(a, e, r, hold'[r]) \in Nat
      BY <1>3, Contributions
    <2>5. DailyHold(a, e, r, row'[r]) + PendingHold(a, e, r, hold'[r])
                       = DailyHold(a, e, r, row[r]) + PendingHold(a, e, r, hold[r])
      OBVIOUS
    <2> QED BY <2>2, <2>3, <2>4, <2>5 DEF DailyMoves
  <1>5. /\ row'[r].dailyDay # 0 => daily'[a][row'[r].dailyDay].open
        /\ hold'[r].day # 0 => daily'[a][hold'[r].day].open
    BY DEF DailyInv
  <1> HIDE DEF a
  <1> QED BY <1>1, <1>2, <1>4, <1>5, DailyStep

\* GREATEST(0, x - y) is the difference when y is at most x.
LEMMA MinusOf ==
    ASSUME NEW x \in Nat, NEW y \in Nat, y <= x
    PROVE  Minus(x, y) \in Nat /\ Minus(x, y) + y = x
  BY DEF Minus

\* The lesser of two amounts.
LEMMA LeastOf ==
    ASSUME NEW x \in Nat, NEW y \in Nat
    PROVE  Least(x, y) \in Nat /\ Least(x, y) <= x /\ Least(x, y) <= y
  BY DEF Least

\* A finalization of a trial row moves the entitlement with it.
LEMMA SettledTrial ==
    ASSUME RowsType, RowsType', NEW r \in Requests, OnlyRow(r), TrialInv, NEW charge, NEW tokens \in Nat, NEW reply \in Nat,
           SettledTo(row[r], row'[r], charge), row[r].funding = "trial", ReleaseTrial(r, charge, tokens, reply)
    PROVE  TrialInv'
  <1> DEFINE a == AccountOf[r]
             x == row[r]
  <1>1. a \in Accounts
    BY RequestAssumption
  <1>2. x.reserved \in Nat /\ charge \in Nat /\ charge <= x.reserved
    BY DEF SettledTo, RowRec
  <1>3. TrialHold(a, r, x) = x.reserved /\ TrialHold(a, r, row'[r]) = 0
    BY DEF SettledTo, TrialHold
  <1>4. trial[a].reserved >= x.reserved
    <2>1. TrialHold(a, r, row[r]) <= SumFunction(TrialHolds(a, row))
      BY TotalsFollow
    <2>2. trial[a].reserved = SumFunction(TrialHolds(a, row))
      BY <1>1 DEF TrialInv
    <2> QED BY <2>1, <2>2, <1>3
  <1>5. /\ trial \in [Accounts -> TrialRec] /\ trial[a] \in TrialRec
        /\ trial[a].reserved + trial[a].spent <= TrialCeiling
    BY <1>1 DEF TrialInv
  <1>6. trial[a].reserved \in Nat /\ trial[a].spent \in Nat /\ trial[a].replies \in Nat /\ trial[a].tokens \in Nat
    BY <1>5 DEF TrialRec
  <1> DEFINE n == Minus(trial[a].reserved, x.reserved)
             t == [reserved |-> n, spent |-> trial[a].spent + charge,
                   replies |-> Least(Replies, trial[a].replies + reply), tokens |-> trial[a].tokens + tokens]
  <1>7. n \in Nat /\ n + x.reserved = trial[a].reserved
    BY <1>2, <1>4, <1>6, MinusOf
  <1>8. trial' = [trial EXCEPT ![a] = t]
    BY <1>1, <1>5 DEF ReleaseTrial
  <1>9. t \in TrialRec
    <2>1. Replies \in Nat
      BY LimitAssumption
    <2>2. Least(Replies, trial[a].replies + reply) \in Nat
      <3>1. trial[a].replies + reply \in Nat
        BY <1>6
      <3> QED BY <2>1, <3>1, LeastOf
    <2> HIDE DEF n
    <2> QED BY <2>2, <1>2, <1>6, <1>7 DEF TrialRec
  <1>10. t.reserved = n /\ t.spent = trial[a].spent + charge
    OBVIOUS
  <1> HIDE DEF t, n
  <1>11. trial' \in [Accounts -> TrialRec] /\ trial'[a] = t /\ \A b \in Accounts \ {a} : trial'[b] = trial[b]
    <2> HIDE DEF a
    <2> QED BY <1>1, <1>5, <1>8, <1>9
  <1>12. trial'[a].reserved + TrialHold(a, r, row[r]) = trial[a].reserved + TrialHold(a, r, row'[r])
    BY <1>3, <1>6, <1>7, <1>10, <1>11
  <1>13. trial'[a].reserved + trial'[a].spent <= TrialCeiling
    <2>1. TrialCeiling \in Nat
      BY LimitAssumption
    <2> QED BY <2>1, <1>2, <1>5, <1>6, <1>7, <1>10, <1>11
  <1>14. AccountOf[r] = a
    OBVIOUS
  <1> HIDE DEF a
  <1> QED BY <1>1, <1>11, <1>12, <1>13, <1>14, TrialStep

\* A finalization moves the daily counter its hold was written to.
LEMMA SettledDaily ==
    ASSUME RowsInv, RowsType, RowsType', NEW r \in Requests, OnlyRow(r), DailyInv, NEW charge,
           SettledTo(row[r], row'[r], charge), ReleaseDaily(r, charge), hold' = hold
    PROVE  DailyInv'
  <1> DEFINE a == AccountOf[r]
             x == row[r]
             d == DailyDay(r)
             v == daily[a][d]
             n == Minus(v.reserved, x.dailyHeld)
  <1>1. a \in Accounts /\ Days \in Nat \ {0}
    BY RequestAssumption, LimitAssumption
  <1>2. x \in RowRec /\ x.dailyHeld \in Nat /\ charge \in Nat /\ x.dailyDay \in 0 .. Days /\ x.created \in 0 .. Days
    BY DEF SettledTo, RowRec
  <1>3. x.created # 0 /\ (x.dailyDay = 0 => x.dailyHeld = 0)
    BY DEF SettledTo, Held, RowsInv, RowRules
  <1>4. d \in Day
    BY <1>1, <1>2, <1>3 DEF DailyDay, Day
  <1>5. daily \in [Accounts -> [Day -> DailyRec]] /\ v \in DailyRec
    BY <1>1, <1>4 DEF DailyInv
  <1>6. v.reserved \in Nat /\ v.spent \in Nat /\ v.open \in BOOLEAN
    BY <1>5 DEF DailyRec
  <1>7. \A e \in Day : DailyHold(a, e, r, row'[r]) = 0
    BY DEF SettledTo, DailyHold
  <1>8. \A e \in Day : DailyHold(a, e, r, x) = IF e = x.dailyDay THEN x.dailyHeld ELSE 0
    BY DEF SettledTo, DailyHold
  <1>9. v.reserved >= x.dailyHeld
    <2>1. CASE x.dailyDay = 0
      BY <2>1, <1>3, <1>6
    <2>2. CASE x.dailyDay # 0
      <3>1. d = x.dailyDay
        BY <2>2 DEF DailyDay
      <3>2. DailyHold(a, d, r, x) = x.dailyHeld
        BY <1>4, <1>8, <3>1
      <3>3. /\ DailyHold(a, d, r, row[r]) <= SumFunction(DailyHolds(a, d, row))
            /\ SumFunction(DailyHolds(a, d, row)) \in Nat /\ SumFunction(PendingHolds(a, d, hold)) \in Nat
        BY TotalsFollow
      <3>4. v.reserved = SumFunction(DailyHolds(a, d, row)) + SumFunction(PendingHolds(a, d, hold))
        BY <1>1, <1>4 DEF DailyInv
      <3> HIDE DEF v, d, a, x
      <3> QED BY <3>2, <3>3, <3>4, <1>2 DEF x
    <2> QED BY <2>1, <2>2
  <1>10. n \in Nat /\ n + x.dailyHeld = v.reserved
    <2> HIDE DEF v, x
    <2> QED BY <1>2, <1>6, <1>9, MinusOf
  <1> DEFINE released == [v EXCEPT !.reserved = Minus(@, x.dailyHeld), !.spent = @ + charge]
  <1>11. daily' = IF v.open THEN [daily EXCEPT ![a][d] = released] ELSE daily
    BY DEF ReleaseDaily
  <1>11a. released \in DailyRec /\ released.reserved = n /\ released.open = v.open
    <2> HIDE DEF v, x
    <2>1. v.spent + charge \in Nat
      BY <1>2, <1>6
    <2> QED BY <2>1, <1>5, <1>10 DEF DailyRec
  <1> HIDE DEF released, n
  <1> DEFINE w == IF v.open THEN released ELSE v
  <1>12. w \in DailyRec /\ (v.open => w.open /\ w.reserved = n) /\ (~v.open => w = v)
    BY <1>5, <1>11a
  <1>13. x.dailyDay # 0 => v.open
    <2>1. x.dailyDay # 0 => daily[a][x.dailyDay].open
      BY DEF DailyInv
    <2> QED BY <2>1 DEF DailyDay
  <1>14. /\ w.reserved + x.dailyHeld = v.reserved
         /\ v.open => w.open
    BY <1>2, <1>3, <1>6, <1>10, <1>12, <1>13
  <1> HIDE DEF w
  <1>15. /\ daily' \in [Accounts -> [Day -> DailyRec]] /\ \A b \in Accounts \ {a} : daily'[b] = daily[b]
         /\ daily'[a][d] = w /\ \A e \in Day \ {d} : daily'[a][e] = daily[a][e]
    <2> HIDE DEF a, d
    <2>1. daily' = IF v.open THEN [daily EXCEPT ![a][d] = w] ELSE daily
      BY <1>11, <1>12 DEF w
    <2>2. CASE v.open
      <3>1. daily' = [daily EXCEPT ![a][d] = w]
        BY <2>1, <2>2
      <3> HIDE DEF v
      <3> QED BY <3>1, <1>1, <1>4, <1>5, <1>12
    <2>3. CASE ~v.open
      <3>1. daily' = daily /\ w = v
        BY <2>1, <2>3, <1>12
      <3> QED BY <3>1, <1>1, <1>4, <1>5
    <2> QED BY <2>2, <2>3
  <1>16. ASSUME NEW e \in Day PROVE DailyMoves(r, a, e)
    <2>1. e = x.dailyDay => e = d
      BY <1>1 DEF DailyDay, Day
    <2>2. daily[a][e] \in DailyRec /\ daily'[a][e] \in DailyRec
      BY <1>1, <1>5, <1>15
    <2>3. daily[a][e].reserved \in Nat /\ daily'[a][e].reserved \in Nat
      BY <2>2 DEF DailyRec
    <2>4. row[r] \in RowRec /\ hold[r] \in HoldRec /\ usage[r] \in UsageRec /\ hold'[r] = hold[r]
      BY DEF RowsType
    <2>5. PendingHold(a, e, r, hold[r]) \in Nat
      BY <2>4, Contributions
    <2>6. e = d /\ x.dailyDay # 0 => e = x.dailyDay
      BY DEF DailyDay
    <2>7. daily'[a][e].reserved + DailyHold(a, e, r, x) = daily[a][e].reserved
      <3>1. CASE e = d
        <4>1. DailyHold(a, e, r, x) = x.dailyHeld
          BY <3>1, <2>6, <1>8, <1>3, <1>2
        <4>2. daily'[a][e] = w /\ daily[a][e] = v
          BY <3>1, <1>15
        <4> HIDE DEF v, a, x
        <4> QED BY <4>1, <4>2, <1>14
      <3>2. CASE e # d
        <4>1. DailyHold(a, e, r, x) = 0 /\ daily'[a][e] = daily[a][e]
          BY <3>2, <2>1, <1>8, <1>15
        <4> QED BY <4>1, <2>3
      <3> QED BY <3>1, <3>2
    <2>8. daily[a][e].open => daily'[a][e].open
      <3>1. CASE e = d
        BY <3>1, <1>14, <1>15
      <3>2. CASE e # d
        BY <3>2, <1>15
      <3> QED BY <3>1, <3>2
    <2>9. DailyHold(a, e, r, row[r]) \in Nat
      BY <2>4, Contributions
    <2> DEFINE y == daily'[a][e].reserved
               z == daily[a][e].reserved
               o == DailyHold(a, e, r, row[r])
               p == PendingHold(a, e, r, hold[r])
    <2>10. y \in Nat /\ z \in Nat /\ o \in Nat /\ p \in Nat /\ y + o = z
      BY <2>3, <2>5, <2>7, <2>9
    <2> HIDE DEF y, z, o, p
    <2>11. y + o + p = z + 0 + p
      BY <2>10
    <2> QED BY <2>11, <2>8, <2>4, <1>7 DEF DailyMoves, y, z, o, p
  <1>17. /\ row'[r].dailyDay # 0 => daily'[a][row'[r].dailyDay].open
         /\ hold'[r].day # 0 => daily'[a][hold'[r].day].open
    <2>1. row'[r].dailyDay = x.dailyDay /\ hold'[r] = hold[r]
      BY DEF SettledTo
    <2>2. x.dailyDay # 0 => x.dailyDay \in Day
      BY <1>2, <1>1 DEF Day
    <2>3. hold[r].day # 0 => hold[r].day \in Day
      <3>1. hold[r] \in HoldRec
        BY DEF RowsType
      <3> QED BY <3>1, <1>1 DEF HoldRec, Day
    <2>4. /\ x.dailyDay # 0 => daily[a][x.dailyDay].open
          /\ hold[r].day # 0 => daily[a][hold[r].day].open
      BY DEF DailyInv
    <2>5. \A e \in Day : daily[a][e].open => daily'[a][e].open
      BY <1>16 DEF DailyMoves
    <2> QED BY <2>1, <2>2, <2>3, <2>4, <2>5
  <1>18. AccountOf[r] = a
    OBVIOUS
  <1> HIDE DEF a
  <1> QED BY <1>1, <1>15, <1>16, <1>17, <1>18, DailyStep

\* A finalization of a pool row moves both counters of the day that granted it.
LEMMA SettledPool ==
    ASSUME RowsInv, RowsType, RowsType', NEW r \in Requests, OnlyRow(r), PoolInv, NEW charge, NEW tokens \in Nat, NEW reply \in Nat,
           SettledTo(row[r], row'[r], charge), row[r].funding = "trial_pool", ReleasePool(r, charge, tokens, reply)
    PROVE  PoolInv'
  <1> DEFINE a == AccountOf[r]
             x == row[r]
             d == PoolDay(r)
             u == user[d][a]
             p == pool[d]
             charged == Least(x.reserved, charge)
             settled == [u EXCEPT !.reserved = Minus(@, x.reserved),
                                  !.spent = @ + charged,
                                  !.replies = Least(Replies, @ + reply),
                                  !.tokens = @ + tokens]
             unused == IF settled.replies >= Replies
                       THEN Minus(settled.committed, settled.reserved + settled.spent) ELSE 0
             v == [settled EXCEPT !.committed = @ - unused]
             q == [committed |-> p.committed - unused, reserved |-> Minus(p.reserved, x.reserved), spent |-> p.spent + charged]
  <1>1. a \in Accounts /\ Days \in Nat \ {0} /\ Replies \in Nat
    BY RequestAssumption, LimitAssumption
  <1>2. x.reserved \in Nat /\ charge \in Nat /\ charge <= x.reserved /\ x.poolDay \in 0 .. Days
    BY DEF SettledTo, RowRec
  <1>3. d = x.poolDay /\ d \in Day
    BY <1>1, <1>2 DEF SettledTo, Held, RowsInv, RowRules, PoolDay, Day
  <1>4. /\ PoolHold(d, x) = x.reserved /\ \A e \in Day \ {d} : PoolHold(e, x) = 0
        /\ \A e \in Day : PoolHold(e, row'[r]) = 0
    BY <1>3 DEF SettledTo, PoolHold
  <1>5. user \in [Day -> [Accounts -> UserRec]] /\ pool \in [Day -> PoolRec] /\ u \in UserRec /\ p \in PoolRec
    BY <1>1, <1>3 DEF PoolInv
  <1>6. /\ u.committed \in Nat /\ u.reserved \in Nat /\ u.spent \in Nat /\ u.replies \in Nat /\ u.tokens \in Nat
        /\ p.committed \in Nat /\ p.reserved \in Nat /\ p.spent \in Nat
    BY <1>5 DEF UserRec, PoolRec
  <1>7. /\ p.committed <= PoolBudget /\ p.committed = SumFunction(Commitments(user[d]))
        /\ p.reserved = SumFunction(PoolHolds(d, row)) /\ u.reserved = SumFunction(OwnHolds(d, a, row))
        /\ u.reserved + u.spent <= u.committed /\ (~u.admitted => u.committed = 0)
    BY <1>1, <1>3 DEF PoolInv
  <1>8. p.reserved >= x.reserved /\ u.reserved >= x.reserved
    <2>1. PoolHold(d, row[r]) <= SumFunction(PoolHolds(d, row)) /\ OwnHold(d, a, r, row[r]) <= SumFunction(OwnHolds(d, a, row))
      BY TotalsFollow
    <2>2. OwnHold(d, a, r, row[r]) = PoolHold(d, row[r])
      BY DEF OwnHold, PoolHold
    <2> HIDE DEF p, u, d, a
    <2> QED BY <2>1, <2>2, <1>4, <1>7
  <1>9. p.committed >= u.committed
    <2> DEFINE f == Commitments(user[d])
    <2>1. f \in [Accounts -> Nat] /\ f[a] = u.committed
      <3>1. \A b \in Accounts : user[d][b] \in UserRec
        BY <1>3, <1>5
      <3>2. \A b \in Accounts : user[d][b].committed \in Nat
        BY <3>1 DEF UserRec
      <3> QED BY <1>1, <3>2 DEF Commitments
    <2> HIDE DEF f
    <2>2. IsFiniteSet(Accounts)
      BY RequestAssumption
    <2>3. f[a] <= SumFunction(f)
      BY <2>1, <2>2, <1>1, SumChanges
    <2> QED BY <2>1, <2>3, <1>7 DEF f
  <1>10. user' = [user EXCEPT ![d][a] = v] /\ pool' = [pool EXCEPT ![d] = q]
    <2>1. user' = [user EXCEPT ![d][a] = v]
      BY DEF ReleasePool
    <2>2. pool' = [pool EXCEPT ![d] = q]
      BY DEF ReleasePool
    <2> QED BY <2>1, <2>2
  <1> DEFINE n == Minus(u.reserved, x.reserved)
  <1>11. n \in Nat /\ n + x.reserved = u.reserved /\ Minus(p.reserved, x.reserved) \in Nat
         /\ Minus(p.reserved, x.reserved) + x.reserved = p.reserved
    <2> HIDE DEF u, p, x
    <2> QED BY <1>2, <1>6, <1>8, MinusOf
  <1>12. charged = charge
    BY <1>2 DEF Least
  <1>13. Least(Replies, u.replies + reply) \in Nat
    <2>1. u.replies + reply \in Nat
      BY <1>6
    <2> QED BY <2>1, <1>1, LeastOf
  <1>14. /\ settled \in UserRec /\ settled.admitted = u.admitted /\ settled.committed = u.committed
         /\ settled.reserved = n /\ settled.spent = u.spent + charge
    <2> DEFINE m == u.spent + charged
               s == Least(Replies, u.replies + reply)
               t == u.tokens + tokens
    <2>1. n \in Nat /\ m \in Nat /\ s \in Nat /\ t \in Nat /\ m = u.spent + charge
      BY <1>2, <1>6, <1>11, <1>12, <1>13
    <2>2. settled = [u EXCEPT !.reserved = n, !.spent = m, !.replies = s, !.tokens = t]
      OBVIOUS
    <2> HIDE DEF u, n, m, s, t, settled
    <2>3. settled \in UserRec
      BY <2>1, <2>2, <1>5 DEF UserRec
    <2>4. settled.admitted = u.admitted /\ settled.committed = u.committed
      BY <2>2, <1>5 DEF UserRec
    <2>5. settled.reserved = n /\ settled.spent = m
      BY <2>2, <1>5 DEF UserRec
    <2> QED BY <2>1, <2>3, <2>4, <2>5
  <1> HIDE DEF settled
  <1>15. unused \in Nat /\ unused <= u.committed /\ n + u.spent + charge <= u.committed - unused
    <2>1. n + u.spent + charge <= u.committed
      BY <1>2, <1>6, <1>7, <1>11
    <2> HIDE DEF n, u
    <2>2. settled.reserved + settled.spent \in Nat /\ settled.reserved + settled.spent <= settled.committed
          /\ settled.committed \in Nat /\ settled.reserved + settled.spent = n + u.spent + charge
      BY <2>1, <1>14, <1>2, <1>6, <1>11
    <2> QED BY <2>1, <2>2, <1>14, <1>6, <1>11, <1>2 DEF Minus
  <1> HIDE DEF unused
  <1>16. v \in UserRec /\ v.admitted = u.admitted /\ v.committed = u.committed - unused /\ v.reserved = n /\ v.spent = u.spent + charge
    <2>1. settled.committed - unused \in Nat
      BY <1>6, <1>14, <1>15
    <2> HIDE DEF n, u
    <2> QED BY <2>1, <1>14 DEF UserRec
  <1>17. q \in PoolRec
    <2>1. p.committed - unused \in Nat /\ p.spent + charged \in Nat
      BY <1>2, <1>6, <1>9, <1>12, <1>15
    <2> HIDE DEF p, x
    <2> QED BY <2>1, <1>11 DEF PoolRec
  <1>18. q.committed = p.committed - unused /\ q.reserved + x.reserved = p.reserved
    <2> HIDE DEF p, x
    <2> QED BY <1>11
  <1> HIDE DEF v, q
  <1>19. /\ user' \in [Day -> [Accounts -> UserRec]] /\ user'[d][a] = v
         /\ \A b \in Accounts \ {a} : user'[d][b] = user[d][b]
         /\ \A e \in Day \ {d} : user'[e] = user[e]
    <2> HIDE DEF d, a, u
    <2> QED BY <1>1, <1>3, <1>5, <1>10, <1>16
  <1>20. pool' \in [Day -> PoolRec] /\ pool'[d] = q /\ \A e \in Day \ {d} : pool'[e] = pool[e]
    <2> HIDE DEF d, p
    <2> QED BY <1>3, <1>5, <1>10, <1>17
  <1> HIDE DEF n
  <1>21. PoolMoves(r, a, d)
    <2>1. pool'[d].reserved + PoolHold(d, row[r]) = pool[d].reserved + PoolHold(d, row'[r])
      BY <1>3, <1>4, <1>6, <1>18, <1>20
    <2>2. user'[d][a].reserved + PoolHold(d, row[r]) = user[d][a].reserved + PoolHold(d, row'[r])
      BY <1>3, <1>4, <1>6, <1>11, <1>16, <1>19
    <2>3. user'[d][a].reserved + user'[d][a].spent <= user'[d][a].committed
      BY <1>2, <1>6, <1>11, <1>15, <1>16, <1>19
    <2>4. ~user'[d][a].admitted => user'[d][a].committed = 0
      BY <1>6, <1>7, <1>15, <1>16, <1>19
    <2>5. pool'[d].committed + user[d][a].committed = pool[d].committed + user'[d][a].committed
      BY <1>6, <1>15, <1>16, <1>18, <1>19, <1>20
    <2>6. pool'[d].committed <= PoolBudget
      <3>1. PoolBudget \in Nat
        BY LimitAssumption
      <3> QED BY <3>1, <1>6, <1>7, <1>15, <1>18, <1>20
    <2> QED BY <1>19, <2>1, <2>2, <2>3, <2>4, <2>5, <2>6 DEF PoolMoves
  <1>22. ASSUME NEW e \in Day, e # d PROVE PoolMoves(r, a, e)
    <2>1. user'[e] = user[e] /\ pool'[e] = pool[e] /\ PoolHold(e, row[r]) = 0 /\ PoolHold(e, row'[r]) = 0
      BY <1>22, <1>4, <1>19, <1>20
    <2> HIDE DEF d
    <2> QED BY <2>1, <1>1 DEF PoolMoves, PoolInv
  <1>23. AccountOf[r] = a
    OBVIOUS
  <1>24. \A e \in Day : PoolMoves(r, a, e)
    BY <1>21, <1>22
  <1> HIDE DEF a, d
  <1> QED BY <1>1, <1>19, <1>20, <1>23, <1>24, PoolStep

\* A finalization never makes a key's use grow.
LEMMA SettledKey ==
    ASSUME RowsInv, RowsType, RowsType', NEW r \in Requests, OnlyRow(r), KeyInv, NEW charge,
           SettledTo(row[r], row'[r], charge),
           \/ usage'[r] = usage[r]
           \/ usage'[r].cost <= charge /\ usage'[r] # NoUsage
    PROVE  KeyInv'
  <1> DEFINE k == KeyOf[r]
  <1>1. k \in Keys /\ KeyOf[r] = k
    BY RequestAssumption
  <1>2. row[r].reserved \in Nat /\ charge \in Nat /\ charge <= row[r].reserved
    BY DEF SettledTo, RowRec
  <1>3. usage[r] = NoUsage
    BY DEF SettledTo, Held, RowsInv, RowRules
  <1>4. KeyUse(k, r, row[r], usage[r]) = row[r].reserved
    BY <1>1, <1>2, <1>3 DEF KeyUse, NoUsage, SettledTo, Held
  <1>5. usage'[r].cost \in Nat
    BY DEF RowsType, UsageRec
  <1>6. KeyUse(k, r, row'[r], usage'[r]) <= charge
    <2>1. CASE usage'[r] = usage[r]
      BY <2>1, <1>1, <1>2, <1>3 DEF KeyUse, NoUsage, SettledTo
    <2>2. CASE usage'[r].cost <= charge /\ usage'[r] # NoUsage
      BY <2>2, <1>1, <1>2, <1>5 DEF KeyUse, SettledTo
    <2> QED BY <2>1, <2>2
  <1>7. KeyUse(k, r, row'[r], usage'[r]) \in Nat
    <2>1. row'[r] \in RowRec /\ usage'[r] \in UsageRec /\ hold[r] \in HoldRec
      BY DEF RowsType
    <2> QED BY <2>1, Contributions
  <1>8. KeyUse(k, r, row'[r], usage'[r]) <= KeyUse(k, r, row[r], usage[r])
    BY <1>2, <1>4, <1>6, <1>7
  <1> HIDE DEF k
  <1> QED BY <1>1, <1>8, KeyStep

\* What leaves the use of the key alone leaves its limit kept.
LEMMA KeyIdle ==
    ASSUME RowsType, RowsType', NEW r \in Requests, OnlyRow(r), KeyInv,
           KeyUse(KeyOf[r], r, row'[r], usage'[r]) = KeyUse(KeyOf[r], r, row[r], usage[r])
    PROVE  KeyInv'
  <1> DEFINE k == KeyOf[r]
  <1>1. k \in Keys /\ KeyOf[r] = k
    BY RequestAssumption
  <1>2. row[r] \in RowRec /\ usage[r] \in UsageRec /\ hold[r] \in HoldRec
    BY DEF RowsType
  <1>3. KeyUse(k, r, row[r], usage[r]) \in Nat
    BY <1>2, Contributions
  <1>4. KeyUse(k, r, row'[r], usage'[r]) <= KeyUse(k, r, row[r], usage[r])
    BY <1>3
  <1> HIDE DEF k
  <1> QED BY <1>1, <1>4, KeyStep

----------------------------------------------------------------------------
(* A finalization as a whole, and the actions that finalize.               *)

\* The types alone, which the lemmas on sums need.
LEMMA RowsAreTyped ==
    ASSUME RowsInv
    PROVE  RowsType
  BY DEF RowsInv, RowsType

\* The rows after the row, the hold and the usage event of one request were written.
Written(r, w, h, u) ==
    /\ row' = [row EXCEPT ![r] = w] /\ hold' = [hold EXCEPT ![r] = h] /\ usage' = [usage EXCEPT ![r] = u]

\* The rows keep their rules when one request is written with values that obey them.
LEMMA RowsWritten ==
    ASSUME RowsInv, NEW r \in Requests, NEW w \in RowRec, NEW h \in HoldRec, NEW u \in UsageRec, Written(r, w, h, u),
           RowRules(w, h, u), today' = today, order' \in Seq(Requests), batch' \in Seq(BatchRec)
    PROVE  /\ RowsInv' /\ RowsType /\ RowsType' /\ OnlyRow(r)
           /\ row'[r] = w /\ hold'[r] = h /\ usage'[r] = u
  <1>1. /\ row'[r] = w /\ hold'[r] = h /\ usage'[r] = u
        /\ \A q \in Requests \ {r} : row'[q] = row[q] /\ hold'[q] = hold[q] /\ usage'[q] = usage[q]
        /\ row' \in [Requests -> RowRec] /\ hold' \in [Requests -> HoldRec] /\ usage' \in [Requests -> UsageRec]
    BY DEF Written, RowsInv
  <1>2. ASSUME NEW q \in Requests PROVE RowRules(row'[q], hold'[q], usage'[q])
    <2>1. RowRules(row[q], hold[q], usage[q])
      BY DEF RowsInv
    <2> QED BY <1>1, <2>1
  <1>3. today \in Day
    BY DEF RowsInv
  <1> QED BY <1>1, <1>2, <1>3 DEF RowsInv, RowsType, OnlyRow

\* A transaction that settles one row keeps the ledger.
LEMMA SettlementKeeps ==
    ASSUME LedgerInv, NEW r \in Requests, Held(row[r]), NEW o \in Outcomes, NEW j \in BOOLEAN, NEW c \in Nat, NEW u \in BOOLEAN,
           Settlement(r, o, j, c, u), credited' = credited, hold' = hold, today' = today, order' = order, batch' \in Seq(BatchRec)
    PROVE  LedgerInv'
  <1> DEFINE x == row[r]
             y == Finalize(x, o, j, c)
             charge == Charge(x, o, j, c)
             billable == o = "settle" \/ CapturesCeiling(x, o, j)
             event == [status |-> IF billable THEN "succeeded" ELSE "failed", cost |-> IF x.funding = "balance" THEN charge ELSE 0]
             w == IF u THEN event ELSE usage[r]
             tokens == IF billable THEN EstTokens ELSE 0
             reply == IF o = "settle" THEN 1 ELSE 0
  <1>1. /\ RowsInv /\ WalletInv /\ TrialInv /\ PoolInv /\ DailyInv /\ KeyInv
    BY DEF LedgerInv
  <1>2. /\ x \in RowRec /\ hold[r] \in HoldRec /\ usage[r] \in UsageRec /\ RowRules(x, hold[r], usage[r]) /\ x.charged = 0
    BY <1>1 DEF RowsInv, RowRules, Held
  <1>3. SettledTo(x, y, charge)
    BY <1>2, SettledRow
  <1>4. charge \in Nat /\ tokens \in Nat /\ reply \in Nat
    BY <1>3, LimitAssumption DEF SettledTo
  <1>5. /\ CASE x.funding = "balance" -> ReleaseWallet(r, charge)
             [] x.funding = "trial" -> ReleaseTrial(r, charge, tokens, reply)
             [] x.funding = "trial_pool" -> ReleasePool(r, charge, tokens, reply)
        /\ ReleaseDaily(r, charge)
        /\ row' = [row EXCEPT ![r] = Finalize(@, o, j, c)]
        /\ usage' = IF u THEN [usage EXCEPT ![r] = event] ELSE usage
    BY DEF Settlement
  <1> HIDE DEF y, charge, billable, tokens, reply
  <1>6. event \in UsageRec /\ event # NoUsage /\ event.cost <= charge
    BY <1>4 DEF UsageRec, NoUsage
  <1> HIDE DEF event
  <1>7. w \in UsageRec /\ (w = usage[r] \/ (w.cost <= charge /\ w # NoUsage))
    BY <1>2, <1>6
  <1>8. Written(r, y, hold[r], w)
    <2>1. row' = [row EXCEPT ![r] = y]
      BY <1>5 DEF y
    <2>2. hold' = [hold EXCEPT ![r] = hold[r]]
      BY <1>1 DEF RowsInv
    <2>3. usage' = [usage EXCEPT ![r] = w]
      BY <1>1, <1>5 DEF RowsInv
    <2> QED BY <2>1, <2>2, <2>3 DEF Written
  <1> HIDE DEF w
  <1>9. y \in RowRec /\ RowRules(y, hold[r], w)
    <2> HIDE DEF x
    <2>1. x.status = "reserved"
      BY <1>3 DEF SettledTo, Held
    <2>2. hold[r] = NoHold /\ x.created # 0 /\ (x.dailyDay = 0 => x.dailyHeld = 0) /\ (x.funding = "trial_pool" <=> x.poolDay # 0)
          /\ (hold[r].day = 0 => hold[r].amount = 0)
      <3>1. RowRules(x, hold[r], usage[r])
        BY <1>2
      <3>2. x.status # "none"
        BY <2>1
      <3>3. hold[r] = NoHold /\ x.created # 0
        BY <3>1, <3>2 DEF RowRules
      <3>4. x.dailyDay = 0 => x.dailyHeld = 0
        BY <3>1, <3>2 DEF RowRules
      <3>5. x.funding = "trial_pool" <=> x.poolDay # 0
        BY <3>1, <3>2 DEF RowRules
      <3>6. hold[r].day = 0 => hold[r].amount = 0
        BY <3>1 DEF RowRules
      <3> QED BY <3>3, <3>4, <3>5, <3>6
    <2>3. y.status # "none" /\ y.status # "reserved"
      BY <1>3 DEF SettledTo
    <2> QED BY <1>3, <2>2, <2>3 DEF SettledTo, RowRules
  <1>10. /\ RowsInv' /\ RowsType /\ RowsType' /\ OnlyRow(r) /\ row'[r] = y /\ hold'[r] = hold[r] /\ usage'[r] = w
    <2>1. order' \in Seq(Requests)
      BY <1>1 DEF RowsInv
    <2> QED BY <1>1, <1>2, <1>7, <1>8, <1>9, <2>1, RowsWritten
  <1>11. SettledTo(row[r], row'[r], charge)
    BY <1>3, <1>10
  <1>10a. row[r].funding # "trial_pool" => row[r].poolDay = 0 /\ \A d \in Day : d # 0
    <2>1. row[r].funding # "trial_pool" => row[r].poolDay = 0
      BY <1>2 DEF RowRules, Held
    <2>2. \A d \in Day : d # 0
      BY LimitAssumption DEF Day
    <2> QED BY <2>1, <2>2
  <1> HIDE DEF x
  <1>12. DailyInv'
    BY <1>1, <1>5, <1>10, <1>11, SettledDaily
  <1>13. KeyInv'
    BY <1>1, <1>7, <1>10, <1>11, SettledKey
  <1>14. row[r].funding \in AllFundings
    BY <1>2 DEF RowRec, x
  <1>15. WalletInv' /\ TrialInv' /\ PoolInv'
    <2>1. CASE row[r].funding = "balance"
      <3>1. ReleaseWallet(r, charge)
        BY <2>1, <1>5 DEF x
      <3>2. trial' = trial /\ pool' = pool /\ user' = user
        BY <3>1 DEF ReleaseWallet, trialVars
      <3>3. WalletInv'
        BY <2>1, <3>1, <1>1, <1>10, <1>11, SettledWallet
      <3>4. TrialInv'
        <4>1. \A a : TrialHold(a, r, row'[r]) = TrialHold(a, r, row[r])
          BY <2>1, <1>11 DEF SettledTo, TrialHold
        <4> QED BY <4>1, <3>2, <1>1, <1>10, TrialIdle
      <3>5. PoolInv'
        <4>1. \A d \in Day : PoolHold(d, row'[r]) = PoolHold(d, row[r])
          BY <2>1, <1>10a, <1>11 DEF SettledTo, PoolHold
        <4> QED BY <4>1, <3>2, <1>1, <1>10, PoolIdle
      <3> QED BY <3>3, <3>4, <3>5
    <2>2. CASE row[r].funding = "trial"
      <3>1. ReleaseTrial(r, charge, tokens, reply)
        BY <2>2, <1>5 DEF x
      <3>2. bal' = bal /\ pool' = pool /\ user' = user
        BY <3>1 DEF ReleaseTrial
      <3>3. WalletInv'
        <4>1. \A a : /\ WalletHold(a, r, row'[r]) = WalletHold(a, r, row[r])
                     /\ WalletCharge(a, r, row'[r]) = WalletCharge(a, r, row[r])
          BY <2>2, <1>11 DEF SettledTo, WalletHold, WalletCharge
        <4> QED BY <4>1, <3>2, <1>1, <1>10, WalletIdle
      <3>4. TrialInv'
        BY <2>2, <3>1, <1>1, <1>4, <1>10, <1>11, SettledTrial
      <3>5. PoolInv'
        <4>1. \A d \in Day : PoolHold(d, row'[r]) = PoolHold(d, row[r])
          BY <2>2, <1>10a, <1>11 DEF SettledTo, PoolHold
        <4> QED BY <4>1, <3>2, <1>1, <1>10, PoolIdle
      <3> QED BY <3>3, <3>4, <3>5
    <2>3. CASE row[r].funding = "trial_pool"
      <3>1. ReleasePool(r, charge, tokens, reply)
        BY <2>3, <1>5 DEF x
      <3>2. bal' = bal /\ trial' = trial
        BY <3>1 DEF ReleasePool
      <3>3. WalletInv'
        <4>1. \A a : /\ WalletHold(a, r, row'[r]) = WalletHold(a, r, row[r])
                     /\ WalletCharge(a, r, row'[r]) = WalletCharge(a, r, row[r])
          BY <2>3, <1>11 DEF SettledTo, WalletHold, WalletCharge
        <4> QED BY <4>1, <3>2, <1>1, <1>10, WalletIdle
      <3>4. TrialInv'
        <4>1. \A a : TrialHold(a, r, row'[r]) = TrialHold(a, r, row[r])
          BY <2>3, <1>11 DEF SettledTo, TrialHold
        <4> QED BY <4>1, <3>2, <1>1, <1>10, TrialIdle
      <3>5. PoolInv'
        BY <2>3, <3>1, <1>1, <1>4, <1>10, <1>11, SettledPool
      <3> QED BY <3>3, <3>4, <3>5
    <2> QED BY <1>14, <2>1, <2>2, <2>3 DEF AllFundings
  <1> QED BY <1>10, <1>12, <1>13, <1>15 DEF LedgerInv

\* What touches no money keeps the ledger.
LEMMA Quiet ==
    ASSUME LedgerInv, bal' = bal, credited' = credited, trial' = trial, pool' = pool, user' = user, daily' = daily,
           hold' = hold, row' = row, usage' = usage, today' \in Day, order' \in Seq(Requests), batch' \in Seq(BatchRec)
    PROVE  LedgerInv'
  <1>1. RowsInv'
    BY DEF LedgerInv, RowsInv
  <1>2. WalletInv' /\ TrialInv'
    BY DEF LedgerInv, WalletInv, TrialInv
  <1>3. PoolInv'
    BY DEF LedgerInv, PoolInv
  <1>4. DailyInv' /\ KeyInv'
    BY DEF LedgerInv, DailyInv, KeyInv
  <1> QED BY <1>1, <1>2, <1>3, <1>4 DEF LedgerInv

\* What the invariant says of one request, in one place.
LEMMA LedgerRows ==
    ASSUME LedgerInv
    PROVE  /\ RowsInv /\ RowsType /\ WalletInv /\ TrialInv /\ PoolInv /\ DailyInv /\ KeyInv
           /\ today \in Day /\ today # 0 /\ order \in Seq(Requests) /\ batch \in Seq(BatchRec)
           /\ \A r \in Requests : /\ row[r] \in RowRec /\ hold[r] \in HoldRec /\ usage[r] \in UsageRec
                                  /\ RowRules(row[r], hold[r], usage[r]) /\ AccountOf[r] \in Accounts /\ KeyOf[r] \in Keys
                                  /\ AmountOf[r] \in Nat
  <1>1. /\ RowsInv /\ RowsType /\ WalletInv /\ TrialInv /\ PoolInv /\ DailyInv /\ KeyInv
    BY RowsAreTyped DEF LedgerInv
  <1>2. today \in Day /\ today # 0
    BY <1>1, LimitAssumption DEF RowsInv, Day
  <1> QED BY <1>1, <1>2, RequestAssumption DEF RowsInv

\* The settle, capture and abort RPCs.
LEMMA FinalizeRequestKeeps ==
    ASSUME LedgerInv, NEW r \in Requests, NEW o \in Outcomes, NEW j \in BOOLEAN, NEW c \in Costs, NEW u \in BOOLEAN,
           FinalizeRequest(r, o, j, c, u)
    PROVE  LedgerInv'
  <1>1. c \in Nat
    BY LimitAssumption
  <1>2. /\ Held(row[r]) /\ Settlement(r, o, j, c, u)
        /\ credited' = credited /\ hold' = hold /\ today' = today /\ order' = order /\ batch' = batch
    BY DEF FinalizeRequest
  <1> QED BY <1>1, <1>2, LedgerRows, SettlementKeeps

\* One row of the sweep: settled, or passed over.
LEMMA SweepRowKeeps ==
    ASSUME LedgerInv, SweepRow
    PROVE  LedgerInv'
  <1> DEFINE r == Head(batch).request
             o == Head(batch).outcome
  <1>1. batch \in Seq(BatchRec) /\ batch # <<>>
    BY LedgerRows DEF SweepRow
  <1>2. Head(batch) \in BatchRec /\ Tail(batch) \in Seq(BatchRec)
    BY <1>1
  <1>3. r \in Requests /\ o \in Outcomes
    BY <1>2 DEF BatchRec, Outcomes
  <1>4. /\ batch' = Tail(batch) /\ credited' = credited /\ hold' = hold /\ today' = today /\ order' = order
        /\ IF Held(row[r]) /\ CanRecord(r, TRUE) THEN Settlement(r, o, FALSE, 0, TRUE)
           ELSE bal' = bal /\ trial' = trial /\ pool' = pool /\ user' = user /\ daily' = daily /\ row' = row /\ usage' = usage
    BY DEF SweepRow, trialVars
  <1> HIDE DEF r, o
  <1>5. CASE Held(row[r]) /\ CanRecord(r, TRUE)
    <2>1. Settlement(r, o, FALSE, 0, TRUE)
      BY <1>4, <1>5
    <2>2. 0 \in Nat /\ FALSE \in BOOLEAN /\ TRUE \in BOOLEAN
      OBVIOUS
    <2> QED BY <2>1, <2>2, <1>2, <1>3, <1>4, <1>5, SettlementKeeps
  <1>6. CASE ~(Held(row[r]) /\ CanRecord(r, TRUE))
    BY <1>2, <1>4, <1>6, LedgerRows, Quiet
  <1> QED BY <1>5, <1>6

\* A wallet row is settled without a usage event.
LEMMA ReconcileKeeps ==
    ASSUME LedgerInv, NEW r \in Requests, NEW c \in Costs, ReconcileReserved(r, c)
    PROVE  LedgerInv'
  <1> DEFINE x == row[r]
             y == Finalize(x, "settle", FALSE, c)
             charge == Charge(x, "settle", FALSE, c)
  <1>1. /\ RowsInv /\ RowsType /\ WalletInv /\ TrialInv /\ PoolInv /\ DailyInv /\ KeyInv
        /\ order \in Seq(Requests) /\ batch \in Seq(BatchRec)
        /\ x \in RowRec /\ hold[r] \in HoldRec /\ usage[r] \in UsageRec /\ RowRules(x, hold[r], usage[r])
    BY LedgerRows
  <1>2. Held(x) /\ x.funding = "balance" /\ x.dailyHeld = 0
    BY DEF ReconcileReserved
  <1>3. x.charged = 0
    BY <1>1, <1>2 DEF RowRules, Held
  <1>4. SettledTo(x, y, charge)
    <2>1. c \in Nat /\ "settle" \in Outcomes /\ FALSE \in BOOLEAN
      BY LimitAssumption DEF Outcomes
    <2> HIDE DEF x
    <2> QED BY <2>1, <1>1, <1>2, <1>3, SettledRow
  <1>5. charge = Least(c, x.reserved)
    BY DEF Charge, CapturesCeiling
  <1>6. /\ ReleaseWallet(r, charge) /\ row' = [row EXCEPT ![r] = y]
        /\ credited' = credited /\ daily' = daily /\ hold' = hold /\ usage' = usage /\ today' = today
        /\ order' = order /\ batch' = batch
    BY <1>5 DEF ReconcileReserved
  <1> HIDE DEF y, charge
  <1>7. Written(r, y, hold[r], usage[r])
    BY <1>1, <1>6 DEF Written, RowsInv
  <1>8. y \in RowRec /\ RowRules(y, hold[r], usage[r])
    <2> HIDE DEF x
    <2>1. x.status # "none" /\ y.status # "none" /\ y.status # "reserved"
      BY <1>2, <1>4 DEF SettledTo, Held
    <2>2. /\ hold[r] = NoHold /\ x.created # 0 /\ (x.dailyDay = 0 => x.dailyHeld = 0)
          /\ (x.funding = "trial_pool" <=> x.poolDay # 0) /\ (hold[r].day = 0 => hold[r].amount = 0)
      BY <2>1, <1>1 DEF RowRules
    <2> QED BY <2>1, <2>2, <1>4 DEF SettledTo, RowRules
  <1>9. /\ RowsInv' /\ RowsType /\ RowsType' /\ OnlyRow(r) /\ row'[r] = y /\ hold'[r] = hold[r] /\ usage'[r] = usage[r]
    BY <1>1, <1>6, <1>7, <1>8, RowsWritten
  <1>10. SettledTo(row[r], row'[r], charge)
    BY <1>4, <1>9
  <1>11. WalletInv'
    BY <1>1, <1>2, <1>6, <1>9, <1>10, SettledWallet
  <1>12. trial' = trial /\ pool' = pool /\ user' = user
    BY <1>6 DEF ReleaseWallet, trialVars
  <1>13. TrialInv'
    <2>1. \A a : TrialHold(a, r, row'[r]) = TrialHold(a, r, row[r])
      BY <1>2, <1>10 DEF SettledTo, TrialHold
    <2> QED BY <2>1, <1>1, <1>9, <1>12, TrialIdle
  <1>14. PoolInv'
    <2>1. row[r].poolDay = 0
      BY <1>1, <1>2 DEF RowRules, Held
    <2>2. \A d \in Day : d # 0
      BY LimitAssumption DEF Day
    <2>3. \A d \in Day : PoolHold(d, row'[r]) = PoolHold(d, row[r])
      BY <2>1, <2>2, <1>10 DEF SettledTo, PoolHold
    <2> QED BY <2>3, <1>1, <1>9, <1>12, PoolIdle
  <1>15. DailyInv'
    <2>1. row[r].dailyHeld = 0 /\ row'[r].dailyHeld = 0 /\ row'[r].dailyDay = row[r].dailyDay
      BY <1>2, <1>10 DEF SettledTo
    <2>2. \A a, d : DailyHold(a, d, r, row'[r]) = 0 /\ DailyHold(a, d, r, row[r]) = 0
      BY <2>1 DEF DailyHold
    <2>3. \A a, d : DailyHold(a, d, r, row'[r]) + PendingHold(a, d, r, hold'[r])
                       = DailyHold(a, d, r, row[r]) + PendingHold(a, d, r, hold[r])
      BY <2>2, <1>9
    <2> QED BY <2>1, <2>3, <1>1, <1>6, <1>9, DailyIdle
  <1>16. KeyInv'
    BY <1>1, <1>9, <1>10, SettledKey
  <1> QED BY <1>9, <1>11, <1>13, <1>14, <1>15, <1>16 DEF LedgerInv

----------------------------------------------------------------------------
(* The fences, a top-up, the sweep of the batch, the environment.          *)

\* Rows that differ in their fences only.
SameMoney(x, y) ==
    /\ y.status = x.status /\ y.reserved = x.reserved /\ y.charged = x.charged /\ y.funding = x.funding
    /\ y.poolDay = x.poolDay /\ y.dailyHeld = x.dailyHeld /\ y.dailyDay = x.dailyDay /\ y.created = x.created

\* A fence changes no amount.
LEMMA FencesKeep ==
    ASSUME LedgerInv, NEW r \in Requests, NEW y \in RowRec, Held(row[r]), SameMoney(row[r], y),
           row' = [row EXCEPT ![r] = y], bal' = bal, credited' = credited, trial' = trial, pool' = pool, user' = user,
           daily' = daily, hold' = hold, usage' = usage, today' = today, order' = order, batch' = batch
    PROVE  LedgerInv'
  <1>1. /\ RowsInv /\ RowsType /\ WalletInv /\ TrialInv /\ PoolInv /\ DailyInv /\ KeyInv
        /\ order \in Seq(Requests) /\ batch \in Seq(BatchRec)
        /\ row[r] \in RowRec /\ hold[r] \in HoldRec /\ usage[r] \in UsageRec /\ RowRules(row[r], hold[r], usage[r])
    BY LedgerRows
  <1>2. Written(r, y, hold[r], usage[r])
    BY <1>1 DEF Written, RowsInv
  <1>3. RowRules(y, hold[r], usage[r])
    <2> DEFINE x == row[r]
    <2>1. RowRules(x, hold[r], usage[r]) /\ x.status = "reserved" /\ SameMoney(x, y)
      BY <1>1 DEF Held
    <2> HIDE DEF x
    <2> QED BY <2>1 DEF RowRules, SameMoney
  <1>4. /\ RowsInv' /\ RowsType' /\ OnlyRow(r) /\ row'[r] = y /\ hold'[r] = hold[r] /\ usage'[r] = usage[r]
    BY <1>1, <1>2, <1>3, RowsWritten
  <1>5. SameMoney(row[r], row'[r])
    BY <1>4
  <1>6. \A a : /\ WalletHold(a, r, row'[r]) = WalletHold(a, r, row[r])
               /\ WalletCharge(a, r, row'[r]) = WalletCharge(a, r, row[r])
               /\ TrialHold(a, r, row'[r]) = TrialHold(a, r, row[r])
    BY <1>5 DEF SameMoney, WalletHold, WalletCharge, TrialHold, Held
  <1>7. \A d : PoolHold(d, row'[r]) = PoolHold(d, row[r])
    BY <1>5 DEF SameMoney, PoolHold, Held
  <1>8. \A a, d : DailyHold(a, d, r, row'[r]) + PendingHold(a, d, r, hold'[r])
                       = DailyHold(a, d, r, row[r]) + PendingHold(a, d, r, hold[r])
    <2>1. \A a, d : DailyHold(a, d, r, row'[r]) = DailyHold(a, d, r, row[r])
      BY <1>5 DEF SameMoney, DailyHold, Held
    <2> QED BY <2>1, <1>4
  <1>9. KeyUse(KeyOf[r], r, row'[r], usage'[r]) = KeyUse(KeyOf[r], r, row[r], usage[r])
    BY <1>4, <1>5 DEF SameMoney, KeyUse, Held
  <1>10. WalletInv' /\ TrialInv' /\ PoolInv' /\ KeyInv'
    BY <1>1, <1>4, <1>6, <1>7, <1>9, WalletIdle, TrialIdle, PoolIdle, KeyIdle
  <1>11. DailyInv'
    <2>1. row'[r].dailyDay = row[r].dailyDay
      BY <1>5 DEF SameMoney
    <2> QED BY <2>1, <1>1, <1>4, <1>8, DailyIdle
  <1> QED BY <1>4, <1>10, <1>11 DEF LedgerInv

\* markInferenceProviderAttemptStarted and markInferenceDeliveryStarted.
LEMMA StartKeeps ==
    ASSUME LedgerInv, NEW r \in Requests, StartAttempt(r) \/ StartDelivery(r)
    PROVE  LedgerInv'
  <1> DEFINE x == row[r]
  <1>1. x \in RowRec /\ row \in [Requests -> RowRec] /\ Held(x)
    BY LedgerRows DEF StartAttempt, StartDelivery, RowsType
  <1>2. /\ bal' = bal /\ credited' = credited /\ trial' = trial /\ pool' = pool /\ user' = user
        /\ daily' = daily /\ hold' = hold /\ usage' = usage /\ today' = today /\ order' = order /\ batch' = batch
    BY DEF StartAttempt, StartDelivery, trialVars
  <1>3. CASE StartAttempt(r)
    <2> DEFINE y == [x EXCEPT !.attempt = TRUE]
    <2>1. row' = [row EXCEPT ![r] = y]
      BY <1>1, <1>3 DEF StartAttempt, MarkAttempt
    <2>2. y \in RowRec /\ SameMoney(x, y)
      <3> HIDE DEF x
      <3> QED BY <1>1 DEF RowRec, SameMoney
    <2> HIDE DEF y
    <2> QED BY <1>1, <1>2, <2>1, <2>2, FencesKeep
  <1>4. CASE StartDelivery(r)
    <2> DEFINE y == [x EXCEPT !.attempt = TRUE, !.delivery = TRUE]
    <2>1. row' = [row EXCEPT ![r] = y]
      BY <1>1, <1>4 DEF StartDelivery, MarkDelivery
    <2>2. y \in RowRec /\ SameMoney(x, y)
      <3> HIDE DEF x
      <3> QED BY <1>1 DEF RowRec, SameMoney
    <2> HIDE DEF y
    <2> QED BY <1>1, <1>2, <2>1, <2>2, FencesKeep
  <1> QED BY <1>3, <1>4

\* A top-up reaches the wallet and the credit log together.
LEMMA CreditKeeps ==
    ASSUME LedgerInv, NEW a \in Accounts, NEW c \in Credits, Credit(a, c)
    PROVE  LedgerInv'
  <1>1. /\ RowsInv /\ WalletInv /\ TrialInv /\ PoolInv /\ DailyInv /\ KeyInv
    BY DEF LedgerInv
  <1>2. /\ trial' = trial /\ pool' = pool /\ user' = user /\ daily' = daily /\ hold' = hold /\ row' = row
        /\ usage' = usage /\ today' = today /\ order' = order /\ batch' = batch
    BY DEF Credit, trialVars
  <1>3. RowsInv' /\ TrialInv' /\ PoolInv'
    BY <1>1, <1>2 DEF RowsInv, TrialInv, PoolInv
  <1>4. DailyInv' /\ KeyInv'
    BY <1>1, <1>2 DEF DailyInv, KeyInv
  <1>5. WalletInv'
    <2>1. c \in Nat
      BY LimitAssumption
    <2>2. bal \in [Accounts -> Amounts] /\ credited \in [Accounts -> Nat]
      BY <1>1 DEF WalletInv
    <2>3. bal[a].available \in Nat /\ bal[a].reserved \in Nat /\ credited[a] \in Nat
      BY <2>2 DEF Amounts
    <2> DEFINE m == bal[a].available + c
    <2>4. bal' = [bal EXCEPT ![a].available = m] /\ credited' = [credited EXCEPT ![a] = credited[a] + c]
      BY <2>2 DEF Credit, Amounts
    <2>5. m \in Nat
      BY <2>1, <2>3
    <2> HIDE DEF m
    <2>6. bal' \in [Accounts -> Amounts]
      BY <2>2, <2>4, <2>5 DEF Amounts
    <2>7. bal'[a].available = m /\ bal'[a].reserved = bal[a].reserved
      BY <2>2, <2>4 DEF Amounts
    <2>8. \A b \in Accounts \ {a} : bal'[b] = bal[b] /\ credited'[b] = credited[b]
      BY <2>2, <2>4
    <2>9. credited' \in [Accounts -> Nat] /\ credited'[a] = credited[a] + c
      BY <2>1, <2>2, <2>3, <2>4
    <2>10. ASSUME NEW b \in Accounts
           PROVE  /\ bal'[b].reserved = SumFunction(WalletHolds(b, row'))
                  /\ bal'[b].available + bal'[b].reserved + SumFunction(WalletCharges(b, row')) = credited'[b]
      <3>1. /\ bal[b].reserved = SumFunction(WalletHolds(b, row))
            /\ bal[b].available + bal[b].reserved + SumFunction(WalletCharges(b, row)) = credited[b]
        BY <1>1 DEF WalletInv
      <3>2. SumFunction(WalletCharges(b, row)) \in Nat
        <4>1. WalletCharges(b, row) \in [Requests -> Nat]
          <5>1. \A q \in Requests : WalletCharge(b, q, row[q]) \in Nat
            BY LedgerRows, Contributions
          <5> QED BY <5>1 DEF WalletCharges
        <4> QED BY <4>1, SumIsNat, RequestAssumption
      <3>3. CASE b = a
        BY <3>1, <3>2, <3>3, <1>2, <2>1, <2>3, <2>7, <2>9 DEF m
      <3>4. CASE b # a
        BY <3>1, <3>4, <1>2, <2>8
      <3> QED BY <3>3, <3>4
    <2> QED BY <2>6, <2>9, <2>10 DEF WalletInv
  <1> QED BY <1>3, <1>4, <1>5 DEF LedgerInv

\* The sweeper's SELECT reads rows and fills the batch.
LEMMA SweepSelectKeeps ==
    ASSUME LedgerInv, SweepSelect
    PROVE  LedgerInv'
  <1> DEFINE size == Least(SweepLimit, Cardinality(Due))
             pick(q) == [request |-> q, outcome |-> IF row[q].attempt \/ row[q].delivery THEN "capture" ELSE "abort"]
  <1>1. order \in Seq(Requests) /\ Due \subseteq DOMAIN order
    BY LedgerRows DEF Due
  <1>2. PICK place \in [1 .. size -> Due] : batch' = [i \in 1 .. size |-> pick(order[place[i]])]
    BY DEF SweepSelect
  <1>3. size \in Nat
    <2>1. IsFiniteSet(Due)
      <3>1. DOMAIN order = 1 .. Len(order) /\ Len(order) \in Nat
        BY <1>1
      <3>2. IsFiniteSet(1 .. Len(order))
        <4>1. 1 \in Int /\ Len(order) \in Int
          BY <3>1
        <4> QED BY <4>1, FS_Interval
      <3> QED BY <1>1, <3>1, <3>2, FS_Subset
    <2>2. Cardinality(Due) \in Nat
      BY <2>1, FS_CardinalityType
    <2> QED BY <2>2, LeastOf, LimitAssumption
  <1>4. \A i \in 1 .. size : pick(order[place[i]]) \in BatchRec
    <2>1. ASSUME NEW i \in 1 .. size PROVE order[place[i]] \in Requests
      <3>1. place[i] \in DOMAIN order
        BY <1>1, <1>2
      <3> QED BY <1>1, <3>1
    <2> QED BY <2>1 DEF BatchRec
  <1> HIDE DEF size, pick
  <1>5. batch' \in Seq(BatchRec)
    BY <1>2, <1>3, <1>4
  <1>6. /\ bal' = bal /\ credited' = credited /\ trial' = trial /\ pool' = pool /\ user' = user /\ daily' = daily
        /\ hold' = hold /\ row' = row /\ usage' = usage /\ today' = today /\ order' = order
    BY DEF SweepSelect, trialVars
  <1> QED BY <1>1, <1>5, <1>6, LedgerRows, Quiet

\* Midnight, age and a vanished model move no money.
LEMMA EnvironmentKeeps ==
    ASSUME LedgerInv, NextDay \/ \E r \in Requests : GoStale(r) \/ ModelVanishes(r)
    PROVE  LedgerInv'
  <1>1. /\ bal' = bal /\ credited' = credited /\ trial' = trial /\ pool' = pool /\ user' = user /\ daily' = daily
        /\ hold' = hold /\ row' = row /\ usage' = usage /\ order' = order /\ batch' = batch
    BY DEF NextDay, GoStale, ModelVanishes, trialVars
  <1>2. today' \in Day
    BY LedgerRows, LimitAssumption DEF NextDay, GoStale, ModelVanishes, Day
  <1> QED BY <1>1, <1>2, LedgerRows, Quiet

----------------------------------------------------------------------------
(* The daily hold before there is a row.                                   *)

\* One day of one account's daily usage is written.
LEMMA DailyWritten ==
    ASSUME daily \in [Accounts -> [Day -> DailyRec]], NEW a \in Accounts, NEW d \in Day, NEW w \in DailyRec,
           daily' = [daily EXCEPT ![a][d] = w]
    PROVE  /\ daily' \in [Accounts -> [Day -> DailyRec]] /\ daily'[a][d] = w
           /\ \A b \in Accounts \ {a} : daily'[b] = daily[b]
           /\ \A e \in Day \ {d} : daily'[a][e] = daily[a][e]
  OBVIOUS

\* A request's daily hold is written or returned while it has no row yet.
LEMMA PendingKeeps ==
    ASSUME LedgerInv, NEW r \in Requests, row[r].status = "none", NEW h \in HoldRec, h.day = 0 => h.amount = 0,
           hold' = [hold EXCEPT ![r] = h], row' = row, usage' = usage, bal' = bal, credited' = credited, trial' = trial,
           pool' = pool, user' = user, today' = today, order' = order, batch' = batch,
           daily' \in [Accounts -> [Day -> DailyRec]], \A b \in Accounts \ {AccountOf[r]} : daily'[b] = daily[b],
           h.day # 0 => daily'[AccountOf[r]][h.day].open,
           \A e \in Day : /\ daily[AccountOf[r]][e].open => daily'[AccountOf[r]][e].open
                          /\ daily'[AccountOf[r]][e].reserved + (IF e = hold[r].day THEN hold[r].amount ELSE 0)
                               = daily[AccountOf[r]][e].reserved + (IF e = h.day THEN h.amount ELSE 0)
    PROVE  LedgerInv'
  <1> DEFINE a == AccountOf[r]
  <1>1. /\ RowsInv /\ RowsType /\ WalletInv /\ TrialInv /\ PoolInv /\ DailyInv /\ KeyInv
        /\ order \in Seq(Requests) /\ batch \in Seq(BatchRec) /\ a \in Accounts
        /\ row[r] \in RowRec /\ hold[r] \in HoldRec /\ usage[r] \in UsageRec /\ RowRules(row[r], hold[r], usage[r])
    BY LedgerRows
  <1>2. Written(r, row[r], h, usage[r])
    BY <1>1 DEF Written, RowsInv
  <1>3. RowRules(row[r], h, usage[r]) /\ row[r] = NoRow
    BY <1>1 DEF RowRules
  <1>4. /\ RowsInv' /\ RowsType' /\ OnlyRow(r) /\ row'[r] = row[r] /\ hold'[r] = h /\ usage'[r] = usage[r]
    BY <1>1, <1>2, <1>3, RowsWritten
  <1>5. WalletInv' /\ TrialInv' /\ PoolInv' /\ KeyInv'
    BY <1>1, <1>4, WalletIdle, TrialIdle, PoolIdle, KeyIdle
  <1>6. \A e \in Day : DailyHold(a, e, r, row[r]) = 0
    BY <1>3 DEF DailyHold, NoRow, Held
  <1>7. /\ \A e : PendingHold(a, e, r, hold[r]) = IF e = hold[r].day THEN hold[r].amount ELSE 0
        /\ \A e : PendingHold(a, e, r, h) = IF e = h.day THEN h.amount ELSE 0
    BY DEF PendingHold
  <1>8. ASSUME NEW e \in Day PROVE DailyMoves(r, a, e)
    <2>1. daily[a][e] \in DailyRec /\ daily'[a][e] \in DailyRec
      BY <1>1 DEF DailyInv
    <2>2. daily[a][e].reserved \in Nat /\ daily'[a][e].reserved \in Nat
      BY <2>1 DEF DailyRec
    <2>3. PendingHold(a, e, r, hold[r]) \in Nat
      BY <1>1, Contributions
    <2>4. PendingHold(a, e, r, h) \in Nat
      BY <1>1, Contributions
    <2>5. /\ daily[a][e].open => daily'[a][e].open
          /\ daily'[a][e].reserved + PendingHold(a, e, r, hold[r]) = daily[a][e].reserved + PendingHold(a, e, r, h)
      BY <1>7
    <2> DEFINE y == daily'[a][e].reserved
               z == daily[a][e].reserved
               p == PendingHold(a, e, r, hold[r])
               q == PendingHold(a, e, r, h)
    <2>6. y \in Nat /\ z \in Nat /\ p \in Nat /\ q \in Nat /\ y + p = z + q
      BY <2>2, <2>3, <2>4, <2>5
    <2> HIDE DEF y, z, p, q
    <2>7. y + 0 + p = z + 0 + q
      BY <2>6
    <2>8. y + DailyHold(a, e, r, row[r]) + p = z + DailyHold(a, e, r, row'[r]) + q
      BY <2>7, <1>4, <1>6
    <2> QED BY <2>5, <2>8, <1>4 DEF DailyMoves, y, z, p, q
  <1>9. row'[r].dailyDay = 0
    BY <1>3, <1>4 DEF NoRow
  <1>10. AccountOf[r] = a /\ (h.day # 0 => daily'[a][h.day].open) /\ \A b \in Accounts \ {a} : daily'[b] = daily[b]
    OBVIOUS
  <1> HIDE DEF a
  <1>11. DailyInv'
    BY <1>1, <1>4, <1>8, <1>9, <1>10, DailyStep
  <1> QED BY <1>4, <1>5, <1>11 DEF LedgerInv

\* plans.ts writes a daily hold.
LEMMA ReserveDailyKeeps ==
    ASSUME LedgerInv, NEW r \in Requests, ReserveDaily(r)
    PROVE  LedgerInv'
  <1> DEFINE a == AccountOf[r]
             n == daily[a][today].reserved + AmountOf[r]
             h == [amount |-> AmountOf[r], day |-> today]
  <1>1. /\ a \in Accounts /\ AmountOf[r] \in Nat /\ today \in Day /\ today # 0 /\ hold[r] = NoHold /\ row[r].status = "none"
        /\ daily \in [Accounts -> [Day -> DailyRec]]
    BY LedgerRows DEF ReserveDaily, DailyInv
  <1>2. daily[a][today] \in DailyRec /\ today \in 0 .. Days
    BY <1>1, LimitAssumption DEF Day
  <1>3. daily[a][today].reserved \in Nat /\ n \in Nat
    BY <1>1, <1>2 DEF DailyRec
  <1>4. h \in HoldRec
    BY <1>1, <1>2 DEF HoldRec
  <1> DEFINE used == daily[a][today]
             w == [used EXCEPT !.open = TRUE, !.reserved = @ + AmountOf[r]]
  <1>5. daily' = [daily EXCEPT ![a][today] = w]
    BY DEF ReserveDaily
  <1>5a. w \in DailyRec /\ w.open /\ w.reserved = n
    <2>1. used \in DailyRec /\ used.reserved + AmountOf[r] \in Nat /\ n = used.reserved + AmountOf[r]
      BY <1>2, <1>3
    <2> HIDE DEF used, n
    <2> QED BY <2>1 DEF DailyRec
  <1>6. /\ hold' = [hold EXCEPT ![r] = h] /\ row' = row /\ usage' = usage /\ bal' = bal /\ credited' = credited
        /\ trial' = trial /\ pool' = pool /\ user' = user /\ today' = today /\ order' = order /\ batch' = batch
    BY DEF ReserveDaily, trialVars
  <1>7. h.amount = AmountOf[r] /\ h.day = today /\ hold[r].amount = 0 /\ hold[r].day = 0
    BY <1>1 DEF NoHold
  <1> HIDE DEF w
  <1>8a. /\ daily' \in [Accounts -> [Day -> DailyRec]] /\ daily'[a][today] = w
         /\ \A b \in Accounts \ {a} : daily'[b] = daily[b]
         /\ \A e \in Day \ {today} : daily'[a][e] = daily[a][e]
    <2> HIDE DEF a
    <2> QED BY <1>1, <1>5, <1>5a, DailyWritten
  <1> HIDE DEF n, h
  <1>8. /\ daily' \in [Accounts -> [Day -> DailyRec]] /\ daily'[a][today].reserved = n
        /\ daily'[a][today].open
        /\ \A b \in Accounts \ {a} : daily'[b] = daily[b]
        /\ \A e \in Day \ {today} : daily'[a][e] = daily[a][e]
    BY <1>5a, <1>8a
  <1>9. ASSUME NEW e \in Day
        PROVE  /\ daily[a][e].open => daily'[a][e].open
               /\ daily'[a][e].reserved + (IF e = hold[r].day THEN hold[r].amount ELSE 0)
                    = daily[a][e].reserved + (IF e = h.day THEN h.amount ELSE 0)
    <2>1. daily[a][e] \in DailyRec
      BY <1>1
    <2>2. daily[a][e].reserved \in Nat
      BY <2>1 DEF DailyRec
    <2>3. CASE e = today
      BY <2>3, <1>1, <1>3, <1>7, <1>8 DEF n
    <2>4. CASE e # today
      BY <2>2, <2>4, <1>7, <1>8
    <2> QED BY <2>3, <2>4
  <1> QED BY <1>1, <1>4, <1>6, <1>7, <1>8, <1>9, PendingKeeps

\* reconcileDailyBudget returns a daily hold no row took over.
LEMMA ReturnDailyKeeps ==
    ASSUME LedgerInv, NEW r \in Requests, ReturnDaily(r)
    PROVE  LedgerInv'
  <1> DEFINE a == AccountOf[r]
             d == hold[r].day
             n == Minus(daily[a][d].reserved, hold[r].amount)
  <1>1. /\ a \in Accounts /\ hold[r] # NoHold /\ hold[r] \in HoldRec /\ row[r].status = "none" /\ RowsType /\ RowsType
        /\ daily \in [Accounts -> [Day -> DailyRec]] /\ RowRules(row[r], hold[r], usage[r]) /\ DailyInv
    BY LedgerRows DEF ReturnDaily, DailyInv
  <1>2. d \in Day /\ hold[r].amount \in Nat
    <2>1. hold[r] = [amount |-> hold[r].amount, day |-> hold[r].day] /\ hold[r].day \in 0 .. Days /\ hold[r].amount \in Nat
      BY <1>1 DEF HoldRec
    <2>2. hold[r].day # 0
      BY <2>1, <1>1 DEF RowRules, NoHold
    <2> QED BY <2>1, <2>2, LimitAssumption DEF Day
  <1>3. daily[a][d] \in DailyRec
    BY <1>1, <1>2
  <1>4. daily[a][d].reserved \in Nat
    BY <1>3 DEF DailyRec
  <1>5. hold[r].amount <= daily[a][d].reserved
    <2>1. IsFiniteSet(Requests) /\ \A q \in Requests : row[q] \in RowRec /\ hold[q] \in HoldRec /\ usage[q] \in UsageRec
      BY RequestAssumption, <1>1 DEF RowsType
    <2> DEFINE f == PendingHolds(a, d, hold)
               g == DailyHolds(a, d, row)
    <2>2. f \in [Requests -> Nat] /\ g \in [Requests -> Nat]
      BY <2>1, Contributions DEF PendingHolds, DailyHolds
    <2>3. f[r] = hold[r].amount
      BY DEF PendingHolds, PendingHold
    <2>4. daily[a][d].reserved = SumFunction(g) + SumFunction(f)
      BY <1>1, <1>2 DEF DailyInv
    <2> HIDE DEF f, g
    <2>5. f[r] <= SumFunction(f) /\ SumFunction(f) \in Nat /\ SumFunction(g) \in Nat
      BY <2>1, <2>2, SumChanges, SumIsNat
    <2> QED BY <2>3, <2>4, <2>5, <1>2
  <1>6. n \in Nat /\ n + hold[r].amount = daily[a][d].reserved
    BY <1>2, <1>4, <1>5, MinusOf
  <1> DEFINE used == daily[a][d]
             w == [used EXCEPT !.reserved = Minus(@, hold[r].amount)]
  <1>7. daily' = [daily EXCEPT ![a][d] = w]
    BY DEF ReturnDaily
  <1>7a. w \in DailyRec /\ w.open = used.open /\ w.reserved = n
    <2>1. used \in DailyRec /\ Minus(used.reserved, hold[r].amount) \in Nat /\ n = Minus(used.reserved, hold[r].amount)
      BY <1>3, <1>6
    <2> HIDE DEF used, n
    <2> QED BY <2>1 DEF DailyRec
  <1>8. /\ hold' = [hold EXCEPT ![r] = NoHold] /\ row' = row /\ usage' = usage /\ bal' = bal /\ credited' = credited
        /\ trial' = trial /\ pool' = pool /\ user' = user /\ today' = today /\ order' = order /\ batch' = batch
    BY DEF ReturnDaily, trialVars
  <1> HIDE DEF w
  <1>9a. /\ daily' \in [Accounts -> [Day -> DailyRec]] /\ daily'[a][d] = w
         /\ \A b \in Accounts \ {a} : daily'[b] = daily[b]
         /\ \A e \in Day \ {d} : daily'[a][e] = daily[a][e]
    <2> HIDE DEF a, d
    <2> QED BY <1>1, <1>2, <1>7, <1>7a, DailyWritten
  <1> HIDE DEF n
  <1>9. /\ daily' \in [Accounts -> [Day -> DailyRec]] /\ daily'[a][d].reserved = n
        /\ daily[a][d].open => daily'[a][d].open
        /\ \A b \in Accounts \ {a} : daily'[b] = daily[b]
        /\ \A e \in Day \ {d} : daily'[a][e] = daily[a][e]
    BY <1>7a, <1>9a
  <1>10. NoHold \in HoldRec /\ NoHold.day = 0 /\ NoHold.amount = 0
    BY LimitAssumption DEF NoHold, HoldRec
  <1>11. ASSUME NEW e \in Day
        PROVE  /\ daily[a][e].open => daily'[a][e].open
               /\ daily'[a][e].reserved + (IF e = hold[r].day THEN hold[r].amount ELSE 0)
                    = daily[a][e].reserved + (IF e = NoHold.day THEN NoHold.amount ELSE 0)
    <2>1. daily[a][e] \in DailyRec
      BY <1>1
    <2>2. daily[a][e].reserved \in Nat
      BY <2>1 DEF DailyRec
    <2>3. CASE e = d
      BY <2>2, <2>3, <1>6, <1>9, <1>10
    <2>4. CASE e # d
      BY <2>2, <2>4, <1>9, <1>10
    <2> QED BY <2>3, <2>4
  <1> QED BY <1>1, <1>8, <1>9, <1>10, <1>11, PendingKeeps

----------------------------------------------------------------------------
(* A reservation, by what funds it.                                        *)

\* The row a reservation inserts.
NewRow(r, funding) ==
    [NoRow EXCEPT !.status = "reserved", !.reserved = AmountOf[r],
                  !.funding = funding, !.created = today,
                  !.poolDay = IF funding = "trial_pool" THEN today ELSE 0,
                  !.dailyHeld = hold[r].amount, !.dailyDay = hold[r].day]

\* The fields of the row reserveBalance inserts.
LEMMA NewRowIs ==
    ASSUME NEW r, NEW funding
    PROVE  LET w == NewRow(r, funding) IN
           /\ w.status = "reserved" /\ w.reserved = AmountOf[r] /\ w.charged = 0 /\ w.funding = funding
           /\ w.created = today /\ w.poolDay = (IF funding = "trial_pool" THEN today ELSE 0)
           /\ w.dailyHeld = hold[r].amount /\ w.dailyDay = hold[r].day
  BY DEF NewRow, NoRow

\* What every reservation does, whichever counters fund it.
Inserts(r, w) ==
    /\ RowsInv' /\ RowsType /\ RowsType' /\ OnlyRow(r) /\ row'[r] = w /\ row[r] = NoRow
    /\ w.status = "reserved" /\ w.reserved = AmountOf[r] /\ w.charged = 0
    /\ w.poolDay = (IF w.funding = "trial_pool" THEN today ELSE 0)

\* An inserted row takes its daily hold over and fits under its key's limit.
LEMMA ReserveRow ==
    ASSUME LedgerInv, NEW r \in Requests, NEW f \in Fundings, Reserve(r, f)
    PROVE  /\ Inserts(r, NewRow(r, f)) /\ DailyInv' /\ KeyInv' /\ NewRow(r, f).funding = f
  <1> DEFINE w == NewRow(r, f)
  <1>1. /\ RowsInv /\ RowsType /\ DailyInv /\ KeyInv /\ order \in Seq(Requests) /\ batch \in Seq(BatchRec)
        /\ hold[r] \in HoldRec /\ usage[r] \in UsageRec /\ RowRules(row[r], hold[r], usage[r])
        /\ today \in Day /\ today # 0 /\ KeyOf[r] \in Keys /\ AmountOf[r] \in Nat
    BY LedgerRows
  <1>2. /\ row[r].status = "none" /\ KeyAdmits(r) /\ row' = [row EXCEPT ![r] = w] /\ hold' = [hold EXCEPT ![r] = NoHold]
        /\ order' = Append(order, r) /\ daily' = daily /\ usage' = usage /\ today' = today /\ batch' = batch
    BY DEF Reserve, NewRow
  <1>3. row[r] = NoRow /\ usage[r] = NoUsage /\ (hold[r].day = 0 => hold[r].amount = 0)
    BY <1>1, <1>2 DEF RowRules
  <1>4. /\ w.status = "reserved" /\ w.reserved = AmountOf[r] /\ w.charged = 0 /\ w.funding = f
        /\ w.created = today /\ w.poolDay = (IF f = "trial_pool" THEN today ELSE 0)
        /\ w.dailyHeld = hold[r].amount /\ w.dailyDay = hold[r].day
    BY NewRowIs
  <1>5. w \in RowRec
    <2>1. f \in AllFundings /\ today \in 0 .. Days /\ hold[r].amount \in Nat /\ hold[r].day \in 0 .. Days /\ 0 \in 0 .. Days
      BY <1>1, RequestAssumption, LimitAssumption DEF HoldRec, Day
    <2> QED BY <1>1, <2>1 DEF NewRow, NoRow, RowRec, Statuses
  <1> HIDE DEF w
  <1>6. NoHold \in HoldRec /\ NoHold.amount = 0 /\ NoHold.day = 0
    BY LimitAssumption DEF NoHold, HoldRec
  <1>7. RowRules(w, NoHold, usage[r])
    BY <1>1, <1>3, <1>4, <1>6 DEF RowRules
  <1>8. Written(r, w, NoHold, usage[r])
    BY <1>1, <1>2 DEF Written, RowsInv
  <1>9. order' \in Seq(Requests)
    BY <1>1, <1>2
  <1>10. /\ RowsInv' /\ RowsType /\ RowsType' /\ OnlyRow(r) /\ row'[r] = w /\ hold'[r] = NoHold /\ usage'[r] = usage[r]
    BY <1>1, <1>2, <1>5, <1>6, <1>7, <1>8, <1>9, RowsWritten
  <1>11. DailyInv'
    <2>1. \A a, d : DailyHold(a, d, r, row[r]) = 0 /\ PendingHold(a, d, r, hold'[r]) = 0
      BY <1>3, <1>6, <1>10 DEF DailyHold, PendingHold, NoRow, Held
    <2>2. \A a, d : DailyHold(a, d, r, row'[r]) = PendingHold(a, d, r, hold[r])
      BY <1>4, <1>10 DEF DailyHold, PendingHold, Held
    <2>3. hold[r].amount \in Nat
      BY <1>1 DEF HoldRec
    <2>4. \A a, d : PendingHold(a, d, r, hold[r]) \in Nat
      BY <2>3 DEF PendingHold
    <2>5. \A a, d : DailyHold(a, d, r, row'[r]) + PendingHold(a, d, r, hold'[r])
                       = DailyHold(a, d, r, row[r]) + PendingHold(a, d, r, hold[r])
      BY <2>1, <2>2, <2>4
    <2> QED BY <2>5, <1>1, <1>2, <1>4, <1>6, <1>10, DailyIdle
  <1>12. KeyInv'
    <2> DEFINE k == KeyOf[r]
    <2>1. k \in Keys /\ KeyLimit[k] \in Nat
      BY <1>1, LimitAssumption
    <2>2. KeyUse(k, r, row[r], usage[r]) = 0
      BY <1>3 DEF KeyUse, NoRow
    <2>3. KeyUse(k, r, row'[r], usage'[r]) = AmountOf[r]
      BY <1>1, <1>3, <1>4, <1>10 DEF KeyUse, NoUsage, Held
    <2>4. KeyAuthorized(k) = SumFunction(KeyUses(k, row, usage))
      BY DEF KeyAuthorized, Total, KeyUses, KeyUse
    <2>5. AmountOf[r] = 0 \/ SumFunction(KeyUses(k, row, usage)) + AmountOf[r] <= KeyLimit[k]
      BY <1>2, <2>4 DEF KeyAdmits
    <2>6. \/ KeyUse(k, r, row'[r], usage'[r]) <= KeyUse(k, r, row[r], usage[r])
          \/ SumFunction(KeyUses(k, row, usage)) + KeyUse(k, r, row'[r], usage'[r])
                <= KeyLimit[k] + KeyUse(k, r, row[r], usage[r])
      BY <2>1, <2>2, <2>3, <2>5
    <2> HIDE DEF k
    <2>7. KeyOf[r] = k
      BY DEF k
    <2> QED BY <2>1, <2>6, <2>7, <1>1, <1>10, KeyStep
  <1> QED BY <1>3, <1>4, <1>10, <1>11, <1>12 DEF Inserts, w

\* An empty row and a fresh one, as the counters see them.
LEMMA NewTerms ==
    ASSUME NEW r \in Requests, NEW w, Inserts(r, w), NEW a, AccountOf[r] = a
    PROVE  /\ \A b : /\ WalletHold(b, r, row[r]) = 0 /\ WalletCharge(b, r, row[r]) = 0 /\ TrialHold(b, r, row[r]) = 0
                     /\ WalletCharge(b, r, row'[r]) = 0
           /\ WalletHold(a, r, row'[r]) = IF w.funding = "balance" THEN AmountOf[r] ELSE 0
           /\ TrialHold(a, r, row'[r]) = IF w.funding = "trial" THEN AmountOf[r] ELSE 0
           /\ w.funding # "balance" => \A b : WalletHold(b, r, row'[r]) = 0
           /\ w.funding # "trial" => \A b : TrialHold(b, r, row'[r]) = 0
           /\ \A d \in Day : /\ PoolHold(d, row[r]) = 0
                             /\ PoolHold(d, row'[r]) = IF w.funding = "trial_pool" /\ d = today THEN AmountOf[r] ELSE 0
  <1>1. /\ row'[r] = w /\ row[r] = NoRow /\ w.status = "reserved" /\ w.reserved = AmountOf[r] /\ w.charged = 0
        /\ w.poolDay = (IF w.funding = "trial_pool" THEN today ELSE 0)
    BY DEF Inserts
  <1>2. \A d \in Day : d # 0
    BY LimitAssumption DEF Day
  <1>3. ~Held(NoRow) /\ NoRow.charged = 0 /\ Held(w)
    BY <1>1 DEF NoRow, Held
  <1>4. /\ \A b : /\ WalletHold(b, r, row[r]) = 0 /\ WalletCharge(b, r, row[r]) = 0 /\ TrialHold(b, r, row[r]) = 0
                  /\ WalletCharge(b, r, row'[r]) = 0
        /\ \A d \in Day : PoolHold(d, row[r]) = 0
    BY <1>1, <1>3 DEF WalletHold, WalletCharge, TrialHold, PoolHold
  <1>5. /\ WalletHold(a, r, row'[r]) = IF w.funding = "balance" THEN AmountOf[r] ELSE 0
        /\ TrialHold(a, r, row'[r]) = IF w.funding = "trial" THEN AmountOf[r] ELSE 0
        /\ w.funding # "balance" => \A b : WalletHold(b, r, row'[r]) = 0
        /\ w.funding # "trial" => \A b : TrialHold(b, r, row'[r]) = 0
    BY <1>1, <1>3 DEF WalletHold, TrialHold
  <1>6. \A d \in Day : PoolHold(d, row'[r]) = IF w.funding = "trial_pool" /\ d = today THEN AmountOf[r] ELSE 0
    BY <1>1, <1>2, <1>3 DEF PoolHold
  <1> QED BY <1>4, <1>5, <1>6

\* A reservation funded by the wallet.
LEMMA HoldWalletKeeps ==
    ASSUME LedgerInv, NEW r \in Requests, NEW w, Inserts(r, w), w.funding = "balance", HoldWallet(r), credited' = credited
    PROVE  WalletInv' /\ TrialInv' /\ PoolInv'
  <1> DEFINE a == AccountOf[r]
             n == bal[a].reserved + AmountOf[r]
             m == bal[a].available - AmountOf[r]
  <1>1. /\ WalletInv /\ TrialInv /\ PoolInv /\ a \in Accounts /\ AmountOf[r] \in Nat
        /\ RowsType /\ RowsType' /\ OnlyRow(r)
    BY LedgerRows DEF Inserts
  <1>2. bal \in [Accounts -> Amounts] /\ bal[a] \in Amounts
    BY <1>1 DEF WalletInv
  <1>3. bal[a].available \in Nat /\ bal[a].reserved \in Nat
    BY <1>2 DEF Amounts
  <1>4. AmountOf[r] <= bal[a].available
    BY <1>1, <1>3 DEF HoldWallet, WalletAdmits
  <1>5. n \in Nat /\ m \in Nat /\ n = bal[a].reserved + AmountOf[r] /\ m + n = bal[a].available + bal[a].reserved
    BY <1>1, <1>3, <1>4
  <1>6. bal' = [bal EXCEPT ![a].available = m, ![a].reserved = n]
    BY <1>1, <1>2 DEF HoldWallet, Amounts
  <1>7. trial' = trial /\ pool' = pool /\ user' = user
    BY DEF HoldWallet, trialVars
  <1> HIDE DEF n, m
  <1>8. /\ bal' \in [Accounts -> Amounts] /\ bal'[a].reserved = n /\ bal'[a].available = m
        /\ \A b \in Accounts \ {a} : bal'[b] = bal[b]
    <2> HIDE DEF a
    <2> QED BY <1>1, <1>2, <1>5, <1>6, WalletWritten
  <1>9. AccountOf[r] = a
    OBVIOUS
  <1> HIDE DEF a
  <1>10. /\ WalletHold(a, r, row[r]) = 0 /\ WalletCharge(a, r, row[r]) = 0 /\ WalletCharge(a, r, row'[r]) = 0
         /\ WalletHold(a, r, row'[r]) = AmountOf[r]
         /\ \A b : TrialHold(b, r, row[r]) = 0 /\ TrialHold(b, r, row'[r]) = 0
         /\ \A d \in Day : PoolHold(d, row[r]) = 0 /\ PoolHold(d, row'[r]) = 0
    BY <1>9, NewTerms
  <1>11. WalletInv'
    <2>1. /\ bal'[a].reserved + WalletHold(a, r, row[r]) = bal[a].reserved + WalletHold(a, r, row'[r])
          /\ bal'[a].available + bal'[a].reserved + WalletCharge(a, r, row'[r])
              = bal[a].available + bal[a].reserved + WalletCharge(a, r, row[r])
      BY <1>1, <1>3, <1>5, <1>8, <1>10
    <2> QED BY <2>1, <1>1, <1>8, <1>9, WalletStep
  <1>12. TrialInv'
    BY <1>1, <1>7, <1>10, TrialIdle
  <1>13. PoolInv'
    BY <1>1, <1>7, <1>10, PoolIdle
  <1> QED BY <1>11, <1>12, <1>13

\* A reservation funded by the signup trial.
LEMMA HoldTrialKeeps ==
    ASSUME LedgerInv, NEW r \in Requests, NEW w, Inserts(r, w), w.funding = "trial", HoldTrial(r), credited' = credited
    PROVE  WalletInv' /\ TrialInv' /\ PoolInv'
  <1> DEFINE a == AccountOf[r]
             t == trial[a]
             n == t.reserved + AmountOf[r]
             v == [t EXCEPT !.reserved = @ + AmountOf[r]]
  <1>1. /\ WalletInv /\ TrialInv /\ PoolInv /\ a \in Accounts /\ AmountOf[r] \in Nat /\ TrialCeiling \in Nat
        /\ RowsType /\ RowsType' /\ OnlyRow(r)
    BY LedgerRows, LimitAssumption DEF Inserts
  <1>2. trial \in [Accounts -> TrialRec] /\ t \in TrialRec
    BY <1>1 DEF TrialInv
  <1>3. t.reserved \in Nat /\ t.spent \in Nat
    BY <1>2 DEF TrialRec
  <1>4. AmountOf[r] <= Minus(TrialCeiling, t.spent + t.reserved) /\ Minus(TrialCeiling, t.spent + t.reserved) > 0
    BY DEF HoldTrial, TrialAdmits
  <1>5. n \in Nat /\ n + t.spent <= TrialCeiling
    <2> HIDE DEF t
    <2> QED BY <1>1, <1>3, <1>4 DEF Minus
  <1>6. trial' = [trial EXCEPT ![a] = v]
    BY <1>1, <1>2 DEF HoldTrial, TrialRec
  <1>7. v \in TrialRec /\ v.reserved = n /\ v.spent = t.spent
    <2> HIDE DEF t
    <2> QED BY <1>2, <1>5 DEF TrialRec
  <1>8. bal' = bal /\ pool' = pool /\ user' = user
    BY DEF HoldTrial
  <1> HIDE DEF v
  <1>9. trial' \in [Accounts -> TrialRec] /\ trial'[a] = v /\ \A b \in Accounts \ {a} : trial'[b] = trial[b]
    <2> HIDE DEF a
    <2> QED BY <1>1, <1>2, <1>6, <1>7
  <1>10. AccountOf[r] = a
    OBVIOUS
  <1> HIDE DEF a, n
  <1>11. /\ TrialHold(a, r, row[r]) = 0 /\ TrialHold(a, r, row'[r]) = AmountOf[r]
         /\ \A b : /\ WalletHold(b, r, row[r]) = 0 /\ WalletHold(b, r, row'[r]) = 0
                   /\ WalletCharge(b, r, row[r]) = 0 /\ WalletCharge(b, r, row'[r]) = 0
         /\ \A d \in Day : PoolHold(d, row[r]) = 0 /\ PoolHold(d, row'[r]) = 0
    BY <1>10, NewTerms
  <1>12. TrialInv'
    <2>1. trial'[a].reserved + TrialHold(a, r, row[r]) = trial[a].reserved + TrialHold(a, r, row'[r])
      BY <1>1, <1>3, <1>5, <1>7, <1>9, <1>11 DEF n
    <2>2. trial'[a].reserved + trial'[a].spent <= TrialCeiling
      BY <1>5, <1>7, <1>9
    <2> QED BY <2>1, <2>2, <1>1, <1>9, <1>10, TrialStep
  <1>13. WalletInv'
    BY <1>1, <1>8, <1>11, WalletIdle
  <1>14. PoolInv'
    BY <1>1, <1>8, <1>11, PoolIdle
  <1> QED BY <1>12, <1>13, <1>14

\* A reservation funded by the trial pool: the first of a day commits the
\* account's whole allowance.
LEMMA HoldPoolKeeps ==
    ASSUME LedgerInv, NEW r \in Requests, NEW w, Inserts(r, w), w.funding = "trial_pool", HoldPool(r), credited' = credited
    PROVE  WalletInv' /\ TrialInv' /\ PoolInv'
  <1> DEFINE a == AccountOf[r]
             d == today
             u == user[d][a]
             p == pool[d]
             fresh == IF u.admitted THEN 0 ELSE Allowance
             n == u.reserved + AmountOf[r]
             v == [u EXCEPT !.admitted = TRUE, !.committed = PoolCommitted(r), !.reserved = @ + AmountOf[r]]
             q == [p EXCEPT !.committed = @ + fresh, !.reserved = @ + AmountOf[r]]
  <1>1. /\ WalletInv /\ TrialInv /\ PoolInv /\ a \in Accounts /\ AmountOf[r] \in Nat
        /\ RowsType /\ RowsType' /\ OnlyRow(r) /\ d \in Day
    BY LedgerRows DEF Inserts
  <1>2. Allowance \in Nat /\ PoolBudget \in Nat
    BY LimitAssumption
  <1>3. user \in [Day -> [Accounts -> UserRec]] /\ pool \in [Day -> PoolRec] /\ u \in UserRec /\ p \in PoolRec
    BY <1>1 DEF PoolInv
  <1>4. /\ u.committed \in Nat /\ u.reserved \in Nat /\ u.spent \in Nat /\ u.admitted \in BOOLEAN
        /\ p.committed \in Nat /\ p.reserved \in Nat /\ p.spent \in Nat
    BY <1>3 DEF UserRec, PoolRec
  <1>5. p.committed <= PoolBudget /\ u.reserved + u.spent <= u.committed /\ (~u.admitted => u.committed = 0)
    BY <1>1 DEF PoolInv
  <1>6. /\ u.admitted \/ p.committed + Allowance <= PoolBudget
        /\ Minus(PoolCommitted(r), u.reserved + u.spent) > 0
        /\ AmountOf[r] <= Minus(PoolCommitted(r), u.reserved + u.spent)
        /\ pool' = [pool EXCEPT ![d] = q] /\ user' = [user EXCEPT ![d][a] = v]
        /\ bal' = bal /\ trial' = trial
    <2>1. /\ u.admitted \/ p.committed + Allowance <= PoolBudget
          /\ Minus(PoolCommitted(r), u.reserved + u.spent) > 0
          /\ AmountOf[r] <= Minus(PoolCommitted(r), u.reserved + u.spent)
      BY DEF HoldPool, PoolAdmits
    <2>2. pool' = [pool EXCEPT ![d] = q]
      BY DEF HoldPool
    <2>3. user' = [user EXCEPT ![d][a] = v]
      BY DEF HoldPool
    <2>4. bal' = bal /\ trial' = trial
      BY DEF HoldPool
    <2> QED BY <2>1, <2>2, <2>3, <2>4
  <1>7. PoolCommitted(r) = u.committed + fresh /\ fresh \in Nat /\ p.committed + fresh <= PoolBudget
    <2>1. PoolCommitted(r) = IF u.admitted THEN u.committed ELSE Allowance
      BY DEF PoolCommitted
    <2> HIDE DEF u, p
    <2> QED BY <2>1, <1>2, <1>4, <1>5, <1>6
  <1>8. n \in Nat /\ n + u.spent <= PoolCommitted(r) /\ PoolCommitted(r) \in Nat /\ PoolCommitted(r) >= AmountOf[r]
    <2> DEFINE c == PoolCommitted(r)
    <2>1. c \in Nat
      BY <1>4, <1>7
    <2> HIDE DEF u, c, fresh
    <2>2. Minus(c, u.reserved + u.spent) > 0 /\ AmountOf[r] <= Minus(c, u.reserved + u.spent)
      BY <1>6 DEF c
    <2> QED BY <2>1, <2>2, <1>1, <1>4 DEF Minus, c
  <1>9. v \in UserRec /\ v.admitted = TRUE /\ v.committed = PoolCommitted(r) /\ v.reserved = n /\ v.spent = u.spent
    <2> HIDE DEF u
    <2> QED BY <1>3, <1>8 DEF UserRec
  <1>10. q \in PoolRec /\ q.committed = p.committed + fresh /\ q.reserved = p.reserved + AmountOf[r]
    <2>1. p.committed + fresh \in Nat /\ p.reserved + AmountOf[r] \in Nat
      BY <1>1, <1>4, <1>7
    <2> HIDE DEF p, fresh
    <2> QED BY <2>1, <1>3 DEF PoolRec
  <1> HIDE DEF v, q
  <1>11. /\ user' \in [Day -> [Accounts -> UserRec]] /\ user'[d][a] = v
         /\ \A b \in Accounts \ {a} : user'[d][b] = user[d][b]
         /\ \A e \in Day \ {d} : user'[e] = user[e]
    <2> HIDE DEF d, a, u
    <2> QED BY <1>1, <1>3, <1>6, <1>9
  <1>12. pool' \in [Day -> PoolRec] /\ pool'[d] = q /\ \A e \in Day \ {d} : pool'[e] = pool[e]
    <2> HIDE DEF d, p
    <2> QED BY <1>1, <1>3, <1>6, <1>10
  <1>13. AccountOf[r] = a
    OBVIOUS
  <1>14. /\ \A e \in Day : PoolHold(e, row[r]) = 0 /\ PoolHold(e, row'[r]) = IF e = d THEN AmountOf[r] ELSE 0
         /\ \A b : /\ WalletHold(b, r, row[r]) = 0 /\ WalletHold(b, r, row'[r]) = 0
                   /\ WalletCharge(b, r, row[r]) = 0 /\ WalletCharge(b, r, row'[r]) = 0
                   /\ TrialHold(b, r, row[r]) = 0 /\ TrialHold(b, r, row'[r]) = 0
    BY <1>13, NewTerms
  <1> HIDE DEF n, fresh
  <1>15. PoolMoves(r, a, d)
    <2>1. pool'[d].reserved + PoolHold(d, row[r]) = pool[d].reserved + PoolHold(d, row'[r])
      BY <1>1, <1>4, <1>10, <1>12, <1>14
    <2>2. user'[d][a].reserved + PoolHold(d, row[r]) = user[d][a].reserved + PoolHold(d, row'[r])
      BY <1>1, <1>4, <1>9, <1>11, <1>14 DEF n
    <2>3. user'[d][a].reserved + user'[d][a].spent <= user'[d][a].committed
      BY <1>8, <1>9, <1>11
    <2>4. ~user'[d][a].admitted => user'[d][a].committed = 0
      BY <1>9, <1>11
    <2>5. pool'[d].committed + user[d][a].committed = pool[d].committed + user'[d][a].committed
      BY <1>4, <1>7, <1>9, <1>10, <1>11, <1>12
    <2>6. pool'[d].committed <= PoolBudget
      BY <1>7, <1>10, <1>12
    <2> QED BY <1>11, <2>1, <2>2, <2>3, <2>4, <2>5, <2>6 DEF PoolMoves
  <1>16. ASSUME NEW e \in Day, e # d PROVE PoolMoves(r, a, e)
    <2>1. user'[e] = user[e] /\ pool'[e] = pool[e] /\ PoolHold(e, row[r]) = 0 /\ PoolHold(e, row'[r]) = 0
      BY <1>16, <1>11, <1>12, <1>14
    <2> HIDE DEF d
    <2> QED BY <2>1, <1>1 DEF PoolMoves, PoolInv
  <1>17. \A e \in Day : PoolMoves(r, a, e)
    BY <1>15, <1>16
  <1> HIDE DEF a, d
  <1>18. PoolInv'
    BY <1>1, <1>11, <1>12, <1>13, <1>17, PoolStep
  <1>19. WalletInv'
    BY <1>1, <1>6, <1>14, WalletIdle
  <1>20. TrialInv'
    BY <1>1, <1>6, <1>14, TrialIdle
  <1> QED BY <1>18, <1>19, <1>20

\* reserveBalance, from whichever source.
LEMMA ReserveKeeps ==
    ASSUME LedgerInv, NEW r \in Requests, NEW f \in Fundings, Reserve(r, f)
    PROVE  LedgerInv'
  <1> DEFINE w == NewRow(r, f)
  <1>1. Inserts(r, w) /\ DailyInv' /\ KeyInv' /\ w.funding = f
    BY ReserveRow
  <1>2. /\ CASE f = "balance" -> HoldWallet(r)
             [] f = "trial" -> HoldTrial(r)
             [] f = "trial_pool" -> HoldPool(r)
        /\ credited' = credited
    BY DEF Reserve
  <1>3. f \in AllFundings
    BY RequestAssumption
  <1> HIDE DEF w
  <1>4. CASE f = "balance"
    BY <1>1, <1>2, <1>4, HoldWalletKeeps DEF LedgerInv, Inserts
  <1>5. CASE f = "trial"
    BY <1>1, <1>2, <1>5, HoldTrialKeeps DEF LedgerInv, Inserts
  <1>6. CASE f = "trial_pool"
    BY <1>1, <1>2, <1>6, HoldPoolKeeps DEF LedgerInv, Inserts
  <1> QED BY <1>3, <1>4, <1>5, <1>6 DEF AllFundings

\* An empty ledger balances.
LEMMA LedgerInit ==
    ASSUME Init
    PROVE  LedgerInv
  <1>1. IsFiniteSet(Requests) /\ IsFiniteSet(Accounts) /\ Days \in Nat \ {0} /\ TrialCeiling \in Nat /\ PoolBudget \in Nat
        /\ KeyLimit \in [Keys -> Nat] /\ 0 \in 0 .. Days
    BY RequestAssumption, LimitAssumption
  <1>2. NoRow \in RowRec /\ NoHold \in HoldRec /\ NoUsage \in UsageRec
    BY <1>1 DEF NoRow, NoHold, NoUsage, RowRec, HoldRec, UsageRec, Statuses, AllFundings
  <1>3. RowsInv
    <2>1. RowRules(NoRow, NoHold, NoUsage)
      BY DEF RowRules, NoRow, NoHold
    <2>2. today \in Day /\ order \in Seq(Requests) /\ batch \in Seq(BatchRec)
      BY <1>1 DEF Init, Day
    <2>3. row = [r \in Requests |-> NoRow] /\ hold = [r \in Requests |-> NoHold] /\ usage = [r \in Requests |-> NoUsage]
      BY DEF Init
    <2> QED BY <1>2, <2>1, <2>2, <2>3 DEF RowsInv
  <1>4. \A r \in Requests : row[r] = NoRow /\ hold[r] = NoHold /\ usage[r] = NoUsage
    BY DEF Init
  <1>5. ASSUME NEW S, IsFiniteSet(S), NEW f, f = [x \in S |-> 0]
        PROVE  SumFunction(f) = 0
    BY <1>5, SumOfZeros
  <1>6. ~Held(NoRow) /\ NoRow.status = "none" /\ NoRow.charged = 0 /\ NoHold.amount = 0
    BY DEF Held, NoRow, NoHold
  <1>7. \A a : /\ WalletHolds(a, row) = [r \in Requests |-> 0] /\ WalletCharges(a, row) = [r \in Requests |-> 0]
               /\ TrialHolds(a, row) = [r \in Requests |-> 0]
    BY <1>4, <1>6 DEF WalletHolds, WalletCharges, TrialHolds, WalletHold, WalletCharge, TrialHold
  <1>8. \A d, a : /\ PoolHolds(d, row) = [r \in Requests |-> 0] /\ OwnHolds(d, a, row) = [r \in Requests |-> 0]
                  /\ DailyHolds(a, d, row) = [r \in Requests |-> 0] /\ PendingHolds(a, d, hold) = [r \in Requests |-> 0]
    BY <1>4, <1>6 DEF PoolHolds, OwnHolds, DailyHolds, PendingHolds, PoolHold, OwnHold, DailyHold, PendingHold
  <1>9. \A k : KeyUses(k, row, usage) = [r \in Requests |-> 0]
    BY <1>4, <1>6 DEF KeyUses, KeyUse
  <1>10. /\ \A a : /\ SumFunction(WalletHolds(a, row)) = 0 /\ SumFunction(WalletCharges(a, row)) = 0
                   /\ SumFunction(TrialHolds(a, row)) = 0
         /\ \A d, a : /\ SumFunction(PoolHolds(d, row)) = 0 /\ SumFunction(OwnHolds(d, a, row)) = 0
                      /\ SumFunction(DailyHolds(a, d, row)) = 0 /\ SumFunction(PendingHolds(a, d, hold)) = 0
         /\ \A k : SumFunction(KeyUses(k, row, usage)) = 0
    <2>1. SumFunction([r \in Requests |-> 0]) = 0
      BY <1>1, <1>5
    <2>2. \A a : /\ SumFunction(WalletHolds(a, row)) = 0 /\ SumFunction(WalletCharges(a, row)) = 0
                /\ SumFunction(TrialHolds(a, row)) = 0
      BY <2>1, <1>7
    <2>3. \A d, a : /\ SumFunction(PoolHolds(d, row)) = 0 /\ SumFunction(OwnHolds(d, a, row)) = 0
                   /\ SumFunction(DailyHolds(a, d, row)) = 0 /\ SumFunction(PendingHolds(a, d, hold)) = 0
      BY <2>1, <1>8
    <2>4. \A k : SumFunction(KeyUses(k, row, usage)) = 0
      BY <2>1, <1>9
    <2> QED BY <2>2, <2>3, <2>4
  <1>11. WalletInv
    <2>1. /\ bal \in [Accounts -> Amounts] /\ credited \in [Accounts -> Nat]
          /\ \A a \in Accounts : bal[a].available = 0 /\ bal[a].reserved = 0 /\ credited[a] = 0
      BY DEF Init, Amounts
    <2>2. ASSUME NEW a \in Accounts
          PROVE  /\ bal[a].reserved = SumFunction(WalletHolds(a, row))
                 /\ bal[a].available + bal[a].reserved + SumFunction(WalletCharges(a, row)) = credited[a]
      BY <2>1, <1>10
    <2> QED BY <2>1, <2>2 DEF WalletInv
  <1>12. TrialInv
    BY <1>1, <1>10 DEF Init, TrialInv, TrialRec
  <1>13. PoolInv
    <2>1. /\ pool \in [Day -> PoolRec] /\ user \in [Day -> [Accounts -> UserRec]]
          /\ \A d \in Day : /\ pool[d].committed = 0 /\ pool[d].reserved = 0
                            /\ \A a \in Accounts : user[d][a].committed = 0 /\ user[d][a].reserved = 0 /\ user[d][a].spent = 0
      BY DEF Init, PoolRec, UserRec
    <2>2. \A d \in Day : SumFunction(Commitments(user[d])) = 0
      <3>1. \A d \in Day : Commitments(user[d]) = [a \in Accounts |-> 0]
        BY <2>1 DEF Commitments
      <3> QED BY <3>1, <1>1, <1>5
    <2> QED BY <1>1, <1>10, <2>1, <2>2 DEF PoolInv
  <1>14. DailyInv
    <2>1. /\ daily \in [Accounts -> [Day -> DailyRec]]
          /\ \A a \in Accounts, d \in Day : daily[a][d].reserved = 0
      BY DEF Init, DailyRec
    <2>2. \A r \in Requests : row[r].dailyDay = 0 /\ hold[r].day = 0
      BY <1>4 DEF NoRow, NoHold
    <2> QED BY <1>10, <2>1, <2>2 DEF DailyInv
  <1>15. KeyInv
    BY <1>1, <1>10 DEF KeyInv
  <1> QED BY <1>3, <1>11, <1>12, <1>13, <1>14, <1>15 DEF LedgerInv

\* Every transaction keeps the ledger.
LEMMA LedgerStep ==
    ASSUME LedgerInv, [Next]_vars
    PROVE  LedgerInv'
  <1>1. ASSUME NEW a \in Accounts, NEW c \in Credits, Credit(a, c) PROVE LedgerInv'
    BY <1>1, CreditKeeps
  <1>2. ASSUME NEW r \in Requests, ReserveDaily(r) \/ ReturnDaily(r) PROVE LedgerInv'
    BY <1>2, ReserveDailyKeeps, ReturnDailyKeeps
  <1>3. ASSUME NEW r \in Requests, NEW f \in Fundings, Reserve(r, f) PROVE LedgerInv'
    BY <1>3, ReserveKeeps
  <1>4. ASSUME NEW r \in Requests, StartAttempt(r) \/ StartDelivery(r) PROVE LedgerInv'
    BY <1>4, StartKeeps
  <1>5. ASSUME NEW r \in Requests, NEW o \in Outcomes, NEW j \in BOOLEAN, NEW c \in Costs, NEW u \in BOOLEAN,
               FinalizeRequest(r, o, j, c, u)
        PROVE  LedgerInv'
    BY <1>5, FinalizeRequestKeeps
  <1>6. ASSUME NEW r \in Requests, NEW c \in Costs, ReconcileReserved(r, c) PROVE LedgerInv'
    BY <1>6, ReconcileKeeps
  <1>7. ASSUME NextDay \/ \E r \in Requests : GoStale(r) \/ ModelVanishes(r) PROVE LedgerInv'
    BY <1>7, EnvironmentKeeps
  <1>8. CASE SweepSelect
    BY <1>8, SweepSelectKeeps
  <1>9. CASE SweepRow
    BY <1>9, SweepRowKeeps
  <1>10. CASE UNCHANGED vars
    <2>1. /\ bal' = bal /\ credited' = credited /\ trial' = trial /\ pool' = pool /\ user' = user /\ daily' = daily
          /\ hold' = hold /\ row' = row /\ usage' = usage /\ today' = today /\ order' = order /\ batch' = batch
      BY <1>10 DEF vars
    <2> QED BY <2>1, LedgerRows, Quiet
  <1> QED BY <1>1, <1>2, <1>3, <1>4, <1>5, <1>6, <1>7, <1>8, <1>9, <1>10 DEF Next

\* The invariant of the ledger: whatever the order of reserveBalance,
\* finalizeInferenceReservation, reconcileReservedBalance, the daily holds and
\* the stale sweep, every counter is the sum of what the rows hold.
THEOREM LedgerIsSound == Spec => []LedgerInv
  <1>1. Init => LedgerInv
    BY LedgerInit
  <1>2. LedgerInv /\ [Next]_vars => LedgerInv'
    BY LedgerStep
  <1> QED BY <1>1, <1>2, PTL DEF Spec

\* creditBalance, reserveBalance and finalizeInferenceReservation neither mint
\* nor lose money: available, held and charged are what was credited.
THEOREM WalletNeitherMintsNorLoses == Spec => []WalletBalances
  <1>1. LedgerInv => WalletBalances
    <2> SUFFICES ASSUME LedgerInv PROVE WalletBalances
      OBVIOUS
    <2>1. WalletInv
      BY DEF LedgerInv
    <2> QED BY <2>1 DEF WalletInv, WalletBalances, Total, ReservedOf, ChargedOf, WalletHolds, WalletCharges, WalletHold, WalletCharge
  <1> QED BY <1>1, LedgerIsSound, PTL

\* plans.ts: no daily hold is stranded, on whichever side of UTC midnight the
\* hold, the reservation and its settlement fall.
THEOREM DailyHoldsComeBack == Spec => []DailyHoldsAreReturned
  <1>1. LedgerInv => DailyHoldsAreReturned
    <2> SUFFICES ASSUME LedgerInv PROVE DailyHoldsAreReturned
      OBVIOUS
    <2>1. DailyInv
      BY DEF LedgerInv
    <2> QED BY <2>1 DEF DailyInv, DailyHoldsAreReturned, Total, DailyHolds, PendingHolds, DailyHold, PendingHold
  <1> QED BY <1>1, LedgerIsSound, PTL

\* reserveBalance: no key spends more than apiKeyCreditLimitUsd, no trial more
\* than spend_ceiling_usd and no pool day more than its budget, for any number
\* of concurrent reservations.
THEOREM NoLimitIsOverdrawn == Spec => []LimitsHold
  <1>1. LedgerInv => LimitsHold
    <2> SUFFICES ASSUME LedgerInv PROVE LimitsHold
      OBVIOUS
    <2>1. KeyInv /\ TrialInv /\ PoolInv
      BY DEF LedgerInv
    <2>2. KeyWithinLimit
      BY <2>1 DEF KeyInv, KeyWithinLimit, KeyAuthorized, Total, KeyUses, KeyUse
    <2>3. TrialWithinCeiling
      BY <2>1 DEF TrialInv, TrialWithinCeiling, Total, ReservedOf, TrialHolds, TrialHold
    <2>4. PoolWithinBudget
      BY <2>1 DEF PoolInv, PoolWithinBudget, Total, ReservedOf, PoolHolds, OwnHolds, PoolHold, OwnHold, Commitments
    <2> QED BY <2>2, <2>3, <2>4 DEF LimitsHold
  <1> QED BY <1>1, LedgerIsSound, PTL
============================================================================

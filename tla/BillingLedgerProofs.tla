-------------------------- MODULE BillingLedgerProofs --------------------------
(***************************************************************************)
(* Safety of the credit ledger, for every number of requests, buckets and  *)
(* payments and all amounts.                                               *)
(***************************************************************************)
EXTENDS BillingLedger, SumTheorems

USE BucketsAssumption, RequestsAssumption, PaymentsAssumption, AmountsAssumption

-----------------------------------------------------------------------------
(* The buckets *)

LEMMA Constants ==
    /\ AllBuckets \in SUBSET Nat /\ IsFiniteSet(AllBuckets)
    /\ Buckets \in SUBSET AllBuckets /\ IsFiniteSet(Buckets)
    /\ Migration \in AllBuckets /\ Migration \notin Buckets
    /\ \A b \in Buckets : b < Migration
<1>1. Buckets \in SUBSET Nat /\ IsFiniteSet(Buckets)
  BY FS_Interval DEF Buckets
<1>2. IsFiniteSet(AllBuckets)
  BY <1>1, FS_AddElement DEF AllBuckets
<1> QED BY <1>1, <1>2 DEF AllBuckets, Buckets, Migration

LEMMA BucketSets ==
    ASSUME TypeOK
    PROVE  /\ Due \in SUBSET Buckets /\ IsFiniteSet(Due)
           /\ Live \in SUBSET AllBuckets /\ IsFiniteSet(Live)
           /\ Spendable \in SUBSET Buckets /\ IsFiniteSet(Spendable)
           /\ Due \in SUBSET Spendable
           /\ Lapsing \in Nat
           /\ \A b \in AllBuckets : remaining[b] \in Nat
<1>1. Due \in SUBSET Buckets /\ Live \in SUBSET AllBuckets
      /\ Spendable \in SUBSET Buckets /\ Due \in SUBSET Spendable
  BY DEF Due, Live, Spendable
<1>2. IsFiniteSet(Due) /\ IsFiniteSet(Live) /\ IsFiniteSet(Spendable)
  BY <1>1, Constants, FS_Subset
<1>3. \A b \in AllBuckets : remaining[b] \in Nat
  BY DEF TypeOK
<1>4. Total(remaining, Due) \in Nat
  BY <1>1, <1>2, <1>3, Constants, TotalType
<1> QED BY <1>1, <1>2, <1>3, <1>4 DEF Lapsing

\* The loop never takes more than a bucket has.
LEMMA UsedType ==
    ASSUME TypeOK, NEW amount \in Nat, NEW b \in AllBuckets
    PROVE  Used(b, amount) \in 0..remaining[b]
<1> DEFINE earlier == Before(remaining, Live, b)
<1>1. earlier \in Nat
  <2> DEFINE S == {c \in Live : c < b}
  <2>1. IsFiniteSet(S) /\ \A c \in S : remaining[c] \in Nat
    BY BucketSets, FS_Subset
  <2>2. Total(remaining, S) \in Nat
    BY <2>1, TotalType
  <2> QED BY <2>2 DEF Before
<1>2. remaining[b] \in Nat
  BY BucketSets
<1> QED BY <1>1, <1>2 DEF Used, MinOf

LEMMA UpdateBucketsType ==
    ASSUME TypeOK, NEW amount \in Nat, UpdateBuckets(amount)
    PROVE  /\ remaining' \in [AllBuckets -> Nat]
           /\ status' \in [AllBuckets -> {"none", "active", "exhausted", "expired"}]
           /\ lapsed' \in [AllBuckets -> Nat]
<1>1. \A b \in AllBuckets : remaining[b] \in Nat /\ remaining[b] - Used(b, amount) \in Nat
  BY BucketSets, UsedType
<1> QED BY <1>1 DEF UpdateBuckets, TypeOK

-----------------------------------------------------------------------------
(* Type correctness *)

LEMMA TypeInit == Init => TypeOK
BY Constants DEF Init, TypeOK, Unbilled

\* What a settlement takes from each balance.
LEMMA SettleAmounts ==
    ASSUME TypeOK, ExpiryFits, NEW cost \in Costs,
           purchased >= cost - MinOf(granted - Lapsing, cost)
    PROVE  /\ cost \in Nat
           /\ MinOf(granted - Lapsing, cost) \in Nat
           /\ MinOf(granted - Lapsing, cost) <= granted - Lapsing
           /\ granted - Lapsing - MinOf(granted - Lapsing, cost) \in Nat
           /\ purchased - (cost - MinOf(granted - Lapsing, cost)) \in Nat
<1>1. Lapsing \in Nat /\ granted \in Nat /\ purchased \in Nat /\ cost \in Nat
  BY BucketSets DEF TypeOK
<1> QED BY <1>1 DEF ExpiryFits, MinOf

LEMMA TypeStep == TypeOK /\ [Next]_vars => TypeOK'
<1> SUFFICES ASSUME TypeOK, [Next]_vars
             PROVE  TypeOK'
  OBVIOUS
<1>1. Lapsing \in Nat /\ (ExpiryFits => granted - Lapsing \in Nat)
  BY BucketSets DEF TypeOK, ExpiryFits
<1>2. CASE Expire
  BY <1>1, <1>2, UpdateBucketsType DEF Expire, TypeOK, orders
<1>3. CASE Migrate
  BY <1>3 DEF Migrate, TypeOK, orders
<1>4. CASE Tick
  BY <1>4 DEF Tick, TypeOK, orders, buckets
<1>5. ASSUME NEW b \in Buckets, Grant(b)
      PROVE  TypeOK'
  <2>1. b \in AllBuckets /\ BucketAmount \in Nat
    BY Constants
  <2>2. granted' \in Nat /\ remaining' \in [AllBuckets -> Nat]
    BY <1>5, <2>1 DEF Grant, TypeOK
  <2>3. status' \in [AllBuckets -> {"none", "active", "exhausted", "expired"}]
    BY <1>5, <2>1 DEF Grant, TypeOK
  <2> QED BY <1>5, <2>2, <2>3 DEF Grant, TypeOK, orders
<1>6. ASSUME NEW r \in Requests, Reserve(r)
      PROVE  TypeOK'
  <2>1. PICK e \in Estimates : frozen' = frozen + e /\ estimate' = [estimate EXCEPT ![r] = e]
    BY <1>6 DEF Reserve
  <2>2. e \in Nat /\ ExpiryFits
    BY <1>6 DEF Reserve
  <2>3. frozen' \in Nat /\ estimate' \in [Requests -> Nat] /\ granted' \in Nat
    BY <1>1, <1>6, <2>1, <2>2 DEF Reserve, TypeOK
  <2> QED BY <1>6, <2>3, UpdateBucketsType DEF Reserve, TypeOK, orders
<1>7. ASSUME NEW r \in Requests, Release(r)
      PROVE  TypeOK'
  BY <1>7 DEF Release, TypeOK, orders, buckets
<1>8. ASSUME NEW r \in Requests, NEW cost \in Costs, Settle(r, cost)
      PROVE  TypeOK'
  <2> DEFINE fromGranted == MinOf(granted - Lapsing, cost)
             held == IF reservation[r] = "frozen" THEN estimate[r] ELSE 0
  <2>1. ExpiryFits /\ purchased >= cost - fromGranted /\ frozen >= held
    BY <1>8 DEF Settle
  <2>2. cost \in Nat /\ fromGranted \in Nat
    BY <2>1, SettleAmounts
  <2>3. granted' \in Nat /\ purchased' \in Nat
    BY <1>8, <2>1, SettleAmounts DEF Settle
  <2>4. frozen' \in Nat
    BY <1>8, <2>1 DEF Settle, TypeOK
  <2>5. UpdateBuckets(fromGranted)
    BY <1>8 DEF Settle
  <2>6. /\ reservation' \in [Requests -> {"none", "frozen", "settled", "released"}]
        /\ usage' \in [Requests -> Nat \cup {Unbilled}]
    BY <1>8, <2>2 DEF Settle, TypeOK
  <2>7. UNCHANGED <<clock, estimate, purchases, refunded>>
    BY <1>8 DEF Settle, orders
  <2> QED BY <2>2, <2>3, <2>4, <2>5, <2>6, <2>7, UpdateBucketsType DEF TypeOK
<1>9. ASSUME NEW p \in Payments, Purchase(p)
      PROVE  TypeOK'
  BY <1>9 DEF Purchase, TypeOK, buckets
<1>10. ASSUME NEW p \in Payments, NEW credits \in 1..OrderCredits, Refund(p, credits)
       PROVE  TypeOK'
  <2>1. refunded[p] \in 0..OrderCredits /\ refunded[p] + credits \in 0..OrderCredits
    BY <1>10 DEF Refund, TypeOK
  <2> QED BY <1>10, <2>1 DEF Refund, TypeOK, buckets
<1>11. CASE UNCHANGED vars
  BY <1>11 DEF vars, TypeOK
<1> QED BY <1>2, <1>3, <1>4, <1>5, <1>6, <1>7, <1>8, <1>9, <1>10, <1>11 DEF Next

\* Every variable keeps its type; no balance and no bucket is ever negative
\* (reserve_budget, release_budget, settle_meter, the expiry loop, refunds).
THEOREM TypeCorrect == Spec => []TypeOK
BY TypeInit, TypeStep, PTL DEF Spec

-----------------------------------------------------------------------------
(* frozen_balance *)

LEMMA RequestSets ==
    ASSUME TypeOK
    PROVE  /\ IsFiniteSet(Frozen) /\ Frozen \in SUBSET Requests
           /\ IsFiniteSet(Billed) /\ Billed \in SUBSET Requests
           /\ \A r \in Requests : estimate[r] \in Nat
           /\ \A r \in Billed : usage[r] \in Nat
BY FS_Subset DEF Frozen, Billed, TypeOK

\* A reservation that is settled or released takes its estimate with it.
LEMMA FrozenShrinks ==
    ASSUME TypeOK, FrozenIsReserved, NEW r \in Requests, reservation[r] = "frozen",
           NEW kind \in {"settled", "released"},
           reservation' = [reservation EXCEPT ![r] = kind],
           estimate' = estimate, frozen' = frozen - estimate[r]
    PROVE  FrozenIsReserved'
<1> DEFINE R == Frozen \ {r}
<1>1. Frozen' = R /\ Frozen = R \cup {r} /\ r \notin R
  BY DEF Frozen, TypeOK
<1>2. IsFiniteSet(R) /\ R \in SUBSET Requests
  BY RequestSets, FS_Subset
<1>3. Total(estimate, R \cup {r}) = Total(estimate, R) + estimate[r]
  BY <1>1, <1>2, RequestSets, TotalAdd
<1>4. Total(estimate, R) \in Nat /\ estimate[r] \in Nat
  BY <1>2, RequestSets, TotalType
<1>5. frozen = Total(estimate, R) + estimate[r]
  BY <1>1, <1>3 DEF FrozenIsReserved
<1> QED BY <1>1, <1>4, <1>5 DEF FrozenIsReserved

LEMMA FrozenStep ==
    TypeOK /\ FrozenIsReserved /\ [Next]_vars => FrozenIsReserved'
<1> SUFFICES ASSUME TypeOK, FrozenIsReserved, [Next]_vars
             PROVE  FrozenIsReserved'
  OBVIOUS
<1>1. ASSUME frozen' = frozen, reservation' = reservation, estimate' = estimate
      PROVE  FrozenIsReserved'
  BY <1>1 DEF FrozenIsReserved, Frozen
<1>2. CASE Expire \/ Migrate \/ Tick \/ (\E b \in Buckets : Grant(b)) \/ UNCHANGED vars
  BY <1>1, <1>2 DEF Expire, Migrate, Tick, Grant, vars
<1>3. ASSUME NEW p \in Payments,
             Purchase(p) \/ \E credits \in 1..OrderCredits : Refund(p, credits)
      PROVE  FrozenIsReserved'
  BY <1>1, <1>3 DEF Purchase, Refund
<1>4. ASSUME NEW r \in Requests, Reserve(r)
      PROVE  FrozenIsReserved'
  <2>1. PICK e \in Estimates : frozen' = frozen + e /\ estimate' = [estimate EXCEPT ![r] = e]
    BY <1>4 DEF Reserve
  <2>2. Frozen' = Frozen \cup {r} /\ r \notin Frozen
    BY <1>4 DEF Reserve, Frozen, TypeOK
  <2>3. e \in Nat /\ estimate'[r] = e /\ \A s \in Frozen : estimate'[s] = estimate[s]
    BY <2>1, <2>2 DEF TypeOK, Frozen
  <2>4. \A s \in Frozen \cup {r} : estimate'[s] \in Nat
    BY <2>3, RequestSets
  <2>5. Total(estimate', Frozen \cup {r}) = Total(estimate', Frozen) + estimate'[r]
    BY <2>2, <2>4, RequestSets, TotalAdd
  <2>6. Total(estimate', Frozen) = Total(estimate, Frozen)
    BY <2>3, TotalAgree
  <2> QED BY <2>1, <2>2, <2>3, <2>5, <2>6 DEF FrozenIsReserved
<1>5. ASSUME NEW r \in Requests, Release(r)
      PROVE  FrozenIsReserved'
  BY <1>5, FrozenShrinks DEF Release
<1>6. ASSUME NEW r \in Requests, NEW cost \in Costs, Settle(r, cost)
      PROVE  FrozenIsReserved'
  <2>1. CASE reservation[r] = "frozen"
    BY <1>6, <2>1, FrozenShrinks DEF Settle
  <2>2. CASE reservation[r] # "frozen"
    <3>1. frozen' = frozen /\ reservation' = reservation /\ estimate' = estimate
      BY <1>6, <2>2 DEF Settle, TypeOK
    <3> QED BY <1>1, <3>1
  <2> QED BY <2>1, <2>2
<1> QED BY <1>2, <1>3, <1>4, <1>5, <1>6 DEF Next

LEMMA FrozenInit == Init => FrozenIsReserved
<1> SUFFICES ASSUME Init
             PROVE  FrozenIsReserved
  OBVIOUS
<1>1. Frozen = {} /\ frozen = 0
  BY DEF Init, Frozen
<1>2. Total(estimate, {}) = 0
  BY TotalZero
<1> QED BY <1>1, <1>2 DEF FrozenIsReserved

\* frozen_balance is at all times the sum of the estimates of the reservations
\* that are still frozen (reserve_budget, release_budget, settle_meter).
THEOREM FrozenBalanceIsReserved == Spec => []FrozenIsReserved
BY TypeInit, TypeStep, FrozenInit, FrozenStep, PTL DEF Spec

-----------------------------------------------------------------------------
(* granted_balance *)

\* Expiring what is due and taking amount from the rest, in order, leaves the
\* buckets with what the balance is left with.
LEMMA BucketsFollowBalance ==
    ASSUME TypeOK, GrantedIsBacked, NEW amount \in Nat,
           amount <= granted - Lapsing, UpdateBuckets(amount)
    PROVE  Total(remaining', Spendable') = granted - Lapsing - amount
<1> DEFINE A == Spendable \ Due
           L == {b \in A : remaining[b] > 0}
           u == [b \in AllBuckets |-> Used(b, amount)]
<1>1. /\ A \in SUBSET Buckets /\ A \in SUBSET AllBuckets /\ IsFiniteSet(A)
      /\ L \in SUBSET A /\ L \in SUBSET Nat /\ IsFiniteSet(L)
  BY BucketSets, Constants, FS_Subset
<1>2. \A b \in AllBuckets : remaining[b] \in Nat
  BY BucketSets
<1>3. Total(remaining, A) = granted - Lapsing
  <2>1. Spendable = Due \cup A /\ Due \cap A = {}
    BY BucketSets
  <2>2. Total(remaining, Due \cup A) = Total(remaining, Due) + Total(remaining, A)
    BY <1>1, <1>2, <2>1, BucketSets, Constants, TotalUnion
  <2>3. Total(remaining, A) \in Nat /\ Total(remaining, Due) = Lapsing
    BY <1>1, <1>2, TotalType, Zenon DEF Lapsing
  <2>4. granted = Lapsing + Total(remaining, A)
    BY <2>1, <2>2, <2>3 DEF GrantedIsBacked
  <2> QED BY <2>3, <2>4, BucketSets
<1>4. Total(remaining, A) = Total(remaining, L)
  BY <1>1, <1>2, TotalSupport
<1>5. \A b \in L : b \in Live /\ {c \in Live : c < b} = {c \in L : c < b}
  BY <1>1, Constants DEF Live, Spendable, AllBuckets
<1>6. Total(u, L) = amount
  <2>1. \A b \in L : u[b] = IF amount > Before(remaining, L, b)
                            THEN MinOf(remaining[b], amount - Before(remaining, L, b)) ELSE 0
    <3> TAKE b \in L
    <3>1. Before(remaining, Live, b) = Before(remaining, L, b)
      BY <1>5, Zenon DEF Before
    <3> QED BY <1>1, <1>5, <3>1 DEF Used
  <2>2. amount <= Total(remaining, L)
    BY <1>3, <1>4
  <2> QED BY <1>1, <1>2, <2>1, <2>2, TotalTaken
<1>7. \A b \in A : /\ remaining'[b] \in Nat /\ u[b] \in Nat
                   /\ remaining[b] = u[b] + remaining'[b]
  BY <1>1, <1>2, UsedType DEF UpdateBuckets
<1>8. Total(remaining', L) = granted - Lapsing - amount
  <2>1. \A b \in L : /\ remaining[b] \in Nat /\ u[b] \in Nat /\ remaining'[b] \in Nat
                     /\ remaining[b] = u[b] + remaining'[b]
    BY <1>1, <1>2, <1>7
  <2>2. Total(remaining, L) = Total(u, L) + Total(remaining', L)
    BY <1>1, <2>1, TotalPlus
  <2>3. Total(remaining', L) \in Nat
    BY <1>1, <2>1, TotalType
  <2> QED BY <1>3, <1>4, <1>6, <2>2, <2>3
<1>9. Total(remaining', A) = Total(remaining', L)
  <2>1. \A b \in A \ L : remaining'[b] = 0
    <3> SUFFICES ASSUME NEW b \in A \ L
                 PROVE  remaining'[b] = 0
      OBVIOUS
    <3>1. b \in A /\ remaining[b] = 0
      BY <1>1, <1>2
    <3>2. remaining'[b] \in Nat /\ u[b] \in Nat /\ remaining[b] = u[b] + remaining'[b]
      BY <1>7, <3>1
    <3> QED BY <3>1, <3>2
  <2> QED BY <1>1, <1>7, <2>1, TotalSupport
<1>10. Total(remaining', A) = Total(remaining', Spendable')
  <2>1. Spendable' \in SUBSET A
    BY Constants, BucketSets DEF Spendable, UpdateBuckets, Due, TypeOK
  <2>2. \A b \in A \ Spendable' : remaining'[b] = 0
    <3> SUFFICES ASSUME NEW b \in A \ Spendable'
                 PROVE  remaining'[b] = 0
      OBVIOUS
    <3>1. b \in AllBuckets /\ b \notin Due /\ status[b] = "active" /\ status'[b] # "active"
      BY <1>1 DEF Spendable
    <3>2. Used(b, amount) = remaining[b]
      BY <3>1 DEF UpdateBuckets
    <3> QED BY <1>2, <3>1, <3>2 DEF UpdateBuckets
  <2> QED BY <1>1, <1>7, <2>1, <2>2, TotalSupport
<1> QED BY <1>8, <1>9, <1>10

LEMMA BackedInit == Init => GrantedIsBacked
<1> SUFFICES ASSUME Init
             PROVE  GrantedIsBacked
  OBVIOUS
<1>1. PICK first \in Buckets :
          /\ remaining = [b \in AllBuckets |-> IF b = first THEN BucketAmount ELSE 0]
          /\ status = [b \in AllBuckets |-> IF b = first THEN "active" ELSE "none"]
  BY DEF Init
<1>2. Spendable = {first}
  BY <1>1, Constants DEF Spendable
<1>3. remaining[first] = BucketAmount /\ BucketAmount \in Nat /\ granted = BucketAmount
  BY <1>1, Constants DEF Init
<1>4. Total(remaining, {first}) = remaining[first]
  BY <1>3, TotalSingle
<1> QED BY <1>2, <1>3, <1>4 DEF GrantedIsBacked

LEMMA BackedStep ==
    TypeOK /\ GrantedIsBacked /\ [Next]_vars => GrantedIsBacked'
<1> SUFFICES ASSUME TypeOK, GrantedIsBacked, [Next]_vars
             PROVE  GrantedIsBacked'
  OBVIOUS
<1>1. ASSUME NEW amount \in Nat, ExpiryFits, amount <= granted - Lapsing,
             UpdateBuckets(amount), granted' = granted - Lapsing - amount
      PROVE  GrantedIsBacked'
  BY <1>1, BucketsFollowBalance DEF GrantedIsBacked
<1>2. Lapsing \in Nat /\ granted \in Nat
  BY BucketSets DEF TypeOK
<1>3. ASSUME ExpiryFits, UpdateBuckets(0), granted' = granted - Lapsing
      PROVE  GrantedIsBacked'
  <2>1. 0 <= granted - Lapsing /\ granted' = granted - Lapsing - 0
    BY <1>2, <1>3 DEF ExpiryFits
  <2> QED BY <1>1, <1>3, <2>1
<1>4. CASE Expire
  BY <1>3, <1>4 DEF Expire
<1>5. ASSUME NEW r \in Requests, Reserve(r)
      PROVE  GrantedIsBacked'
  BY <1>3, <1>5 DEF Reserve
<1>6. ASSUME NEW r \in Requests, NEW cost \in Costs, Settle(r, cost)
      PROVE  GrantedIsBacked'
  <2> DEFINE amount == MinOf(granted - Lapsing, cost)
  <2>1. /\ ExpiryFits /\ UpdateBuckets(amount) /\ granted' = granted - Lapsing - amount
        /\ purchased >= cost - amount
    BY <1>6 DEF Settle
  <2>2. amount \in Nat /\ amount <= granted - Lapsing
    BY <2>1, SettleAmounts
  <2> QED BY <1>1, <2>1, <2>2
<1>7. ASSUME NEW b \in Buckets, Grant(b)
      PROVE  GrantedIsBacked'
  <2>1. Spendable' = Spendable \cup {b} /\ b \notin Spendable /\ b \in AllBuckets
    BY <1>7, Constants DEF Grant, Spendable, TypeOK
  <2>2. /\ remaining'[b] = BucketAmount /\ BucketAmount \in Nat
        /\ \A c \in Spendable : remaining'[c] = remaining[c]
    BY <1>7, <2>1 DEF Grant, TypeOK
  <2>3. \A c \in Spendable \cup {b} : remaining'[c] \in Nat
    BY <2>2, BucketSets, Constants
  <2>4. Total(remaining', Spendable \cup {b}) = Total(remaining', Spendable) + remaining'[b]
    BY <2>1, <2>3, BucketSets, TotalAdd
  <2>5. Total(remaining', Spendable) = Total(remaining, Spendable)
    BY <2>2, TotalAgree
  <2> QED BY <1>7, <2>1, <2>2, <2>4, <2>5 DEF Grant, GrantedIsBacked
<1>8. CASE Migrate
  <2>1. Spendable' = Spendable /\ granted' = granted
    BY <1>8, Constants DEF Migrate, Spendable, TypeOK
  <2>2. \A c \in Spendable : remaining'[c] = remaining[c]
    BY <1>8, Constants DEF Migrate, Spendable, TypeOK
  <2>3. Total(remaining', Spendable) = Total(remaining, Spendable)
    BY <2>2, TotalAgree
  <2> QED BY <2>1, <2>3 DEF GrantedIsBacked
<1>9. ASSUME granted' = granted, remaining' = remaining, status' = status
      PROVE  GrantedIsBacked'
  BY <1>9 DEF GrantedIsBacked, Spendable
<1>10. CASE Tick \/ (\E r \in Requests : Release(r)) \/ UNCHANGED vars
  BY <1>9, <1>10 DEF Tick, Release, vars, buckets
<1>11. ASSUME NEW p \in Payments,
              Purchase(p) \/ \E credits \in 1..OrderCredits : Refund(p, credits)
       PROVE  GrantedIsBacked'
  BY <1>9, <1>11 DEF Purchase, Refund, buckets
<1> QED BY <1>4, <1>5, <1>6, <1>7, <1>8, <1>10, <1>11 DEF Next

\* granted_balance is at all times what the expiring buckets hold, whatever the
\* order of grants, expiries, charges and restarts (grants.py, core.py:940).
THEOREM GrantedBalanceIsBacked == Spec => []GrantedIsBacked
BY TypeInit, TypeStep, BackedInit, BackedStep, PTL DEF Spec

-----------------------------------------------------------------------------
(* The balance *)

\* Only a bucket whose period is over has an 'expire' transaction.
LapsedIsExpired == \A b \in AllBuckets : status[b] # "expired" => lapsed[b] = 0

LEMMA LapsedStep ==
    TypeOK /\ LapsedIsExpired /\ [Next]_vars => LapsedIsExpired'
<1> SUFFICES ASSUME TypeOK, LapsedIsExpired, [Next]_vars
             PROVE  LapsedIsExpired'
  OBVIOUS
<1>1. ASSUME NEW amount, UpdateBuckets(amount)
      PROVE  LapsedIsExpired'
  <2> SUFFICES ASSUME NEW b \in AllBuckets, status'[b] # "expired"
               PROVE  lapsed'[b] = 0
    BY DEF LapsedIsExpired
  <2>1. b \notin Due /\ lapsed'[b] = lapsed[b]
    BY <1>1 DEF UpdateBuckets
  <2>2. status[b] # "expired"
    BY <1>1, <2>1 DEF UpdateBuckets, Live
  <2> QED BY <2>1, <2>2 DEF LapsedIsExpired
<1>2. CASE Expire
  BY <1>1, <1>2 DEF Expire
<1>3. ASSUME NEW r \in Requests,
             Reserve(r) \/ \E cost \in Costs : Settle(r, cost)
      PROVE  LapsedIsExpired'
  BY <1>1, <1>3 DEF Reserve, Settle
<1>4. ASSUME NEW b \in AllBuckets, status[b] = "none", lapsed' = lapsed,
             status' = [status EXCEPT ![b] = "active"]
      PROVE  LapsedIsExpired'
  BY <1>4 DEF LapsedIsExpired, TypeOK
<1>5. CASE Migrate \/ \E b \in Buckets : Grant(b)
  BY <1>4, <1>5, Constants DEF Migrate, Grant
<1>6. ASSUME status' = status, lapsed' = lapsed
      PROVE  LapsedIsExpired'
  BY <1>6 DEF LapsedIsExpired
<1>7. CASE Tick \/ (\E r \in Requests : Release(r)) \/ UNCHANGED vars
  BY <1>6, <1>7 DEF Tick, Release, vars, buckets
<1>8. ASSUME NEW p \in Payments,
             Purchase(p) \/ \E credits \in 1..OrderCredits : Refund(p, credits)
      PROVE  LapsedIsExpired'
  BY <1>6, <1>8 DEF Purchase, Refund, buckets
<1> QED BY <1>2, <1>3, <1>5, <1>7, <1>8 DEF Next

\* What expires is added to the 'expire' transactions.
LEMMA LapsedGrows ==
    ASSUME TypeOK, LapsedIsExpired, NEW amount \in Nat, UpdateBuckets(amount)
    PROVE  Total(lapsed', AllBuckets) = Total(lapsed, AllBuckets) + Lapsing
<1> DEFINE R == AllBuckets \ Due
<1>1. /\ IsFiniteSet(R) /\ IsFiniteSet(Due) /\ Due \in SUBSET AllBuckets
      /\ AllBuckets = R \cup Due /\ R \cap Due = {}
  BY Constants, BucketSets, FS_Difference
<1>2. \A b \in AllBuckets : lapsed[b] \in Nat /\ lapsed'[b] \in Nat
  BY UpdateBucketsType DEF TypeOK
<1>3. Total(lapsed, R \cup Due) = Total(lapsed, R) + Total(lapsed, Due)
  BY <1>1, <1>2, TotalUnion
<1>4. Total(lapsed', R \cup Due) = Total(lapsed', R) + Total(lapsed', Due)
  BY <1>1, <1>2, TotalUnion
<1>5. Total(lapsed, Due) = 0
  <2>1. \A b \in Due : lapsed[b] = 0
    BY <1>1 DEF LapsedIsExpired, Due
  <2> QED BY <2>1, TotalZero
<1>6. Total(lapsed', Due) = Lapsing
  <2>1. \A b \in Due : lapsed'[b] = remaining[b]
    BY <1>1 DEF UpdateBuckets
  <2>2. Total(lapsed', Due) = Total(remaining, Due)
    BY <2>1, TotalAgree
  <2> QED BY <2>2 DEF Lapsing
<1>7. Total(lapsed', R) = Total(lapsed, R)
  <2>1. \A b \in R : lapsed'[b] = lapsed[b]
    BY DEF UpdateBuckets
  <2> QED BY <2>1, TotalAgree
<1>8. Total(lapsed, R) \in Nat /\ Lapsing \in Nat
  BY <1>1, <1>2, BucketSets, TotalType
<1>9. Total(lapsed, AllBuckets) = Total(lapsed, R)
  BY <1>1, <1>3, <1>5, <1>8
<1>10. Total(lapsed', AllBuckets) = Total(lapsed, R) + Lapsing
  BY <1>1, <1>4, <1>6, <1>7
<1> QED BY <1>9, <1>10

\* The sums of the statement of account are numbers.
LEMMA AccountTypes ==
    ASSUME TypeOK
    PROVE  /\ granted \in Nat /\ purchased \in Nat
           /\ Total(usage, Billed) \in Nat
           /\ Total(lapsed, AllBuckets) \in Nat
           /\ Total(refunded, Payments) \in Nat
           /\ IsFiniteSet(Opened) /\ Cardinality(Opened) \in Nat
           /\ IsFiniteSet(purchases) /\ Cardinality(purchases) \in Nat
           /\ BucketAmount \in Nat /\ OrderCredits \in Nat
<1>1. IsFiniteSet(Opened) /\ IsFiniteSet(purchases)
  BY Constants, FS_Subset DEF Opened, TypeOK
<1>2. \A b \in AllBuckets : lapsed[b] \in Nat
  BY DEF TypeOK
<1>3. \A p \in Payments : refunded[p] \in Nat
  BY DEF TypeOK
<1>4. /\ Total(usage, Billed) \in Nat /\ Total(lapsed, AllBuckets) \in Nat
      /\ Total(refunded, Payments) \in Nat
  BY <1>2, <1>3, Constants, RequestSets, TotalType
<1>5. granted \in Nat /\ purchased \in Nat
  BY DEF TypeOK
<1> QED BY <1>1, <1>4, <1>5, FS_CardinalityType

\* Each charge is added to the usage records once.
LEMMA UsageGrows ==
    ASSUME TypeOK, NEW r \in Requests, NEW cost \in Nat, usage[r] = Unbilled,
           usage' = [usage EXCEPT ![r] = cost]
    PROVE  Total(usage', Billed') = Total(usage, Billed) + cost
<1>1. Billed' = Billed \cup {r} /\ r \notin Billed
  BY DEF Billed, TypeOK, Unbilled
<1>2. usage'[r] = cost /\ \A s \in Billed : usage'[s] = usage[s]
  BY <1>1, RequestSets DEF TypeOK
<1>3. \A s \in Billed \cup {r} : usage'[s] \in Nat
  BY <1>2, RequestSets
<1>4. Total(usage', Billed \cup {r}) = Total(usage', Billed) + usage'[r]
  BY <1>1, <1>3, RequestSets, TotalAdd
<1>5. Total(usage', Billed) = Total(usage, Billed)
  BY <1>2, TotalAgree
<1> QED BY <1>1, <1>2, <1>4, <1>5

LEMMA AccountedInit == Init => BalanceIsAccounted /\ LapsedIsExpired
<1> SUFFICES ASSUME Init
             PROVE  BalanceIsAccounted /\ LapsedIsExpired
  OBVIOUS
<1>1. Billed = {} /\ purchases = {} /\ granted = BucketAmount /\ purchased = 0
  BY DEF Init, Billed
<1>2. /\ Total(usage, {}) = 0
      /\ Total(lapsed, AllBuckets) = 0
      /\ Total(refunded, Payments) = 0
  BY TotalZero DEF Init
<1>3. Cardinality(purchases) = 0
  BY <1>1, FS_EmptySet
<1>4. Cardinality(Opened) = 1
  <2>1. PICK first \in Buckets :
            status = [b \in AllBuckets |-> IF b = first THEN "active" ELSE "none"]
    BY DEF Init
  <2>2. Opened = {first}
    BY <2>1, Constants DEF Opened
  <2> QED BY <2>2, FS_Singleton
<1>5. Total(usage, Billed) = 0
  BY <1>1, <1>2
<1>6. BalanceIsAccounted
  BY <1>1, <1>2, <1>3, <1>4, <1>5 DEF BalanceIsAccounted
<1> QED BY <1>6 DEF LapsedIsExpired, Init

LEMMA AccountedStep ==
    TypeOK /\ LapsedIsExpired /\ BalanceIsAccounted /\ [Next]_vars
        => BalanceIsAccounted'
<1> SUFFICES ASSUME TypeOK, LapsedIsExpired, BalanceIsAccounted, [Next]_vars
             PROVE  BalanceIsAccounted'
  OBVIOUS
<1> USE AccountTypes
<1>1. ASSUME NEW amount \in Nat, ExpiryFits, UpdateBuckets(amount)
      PROVE  /\ Total(lapsed', AllBuckets) = Total(lapsed, AllBuckets) + Lapsing
             /\ Opened' = Opened
             /\ Lapsing \in Nat
  <2>1. Opened' = Opened
    BY <1>1, Constants DEF Opened, UpdateBuckets, Due, Live, TypeOK
  <2> QED BY <1>1, <2>1, LapsedGrows, BucketSets
<1>2. ASSUME usage' = usage
      PROVE  Total(usage', Billed') = Total(usage, Billed)
  BY <1>2 DEF Billed
<1>3. CASE Expire
  <2>1. ExpiryFits /\ UpdateBuckets(0) /\ granted' = granted - Lapsing
        /\ UNCHANGED <<purchased, usage, purchases, refunded>>
    BY <1>3 DEF Expire, orders
  <2> QED BY <1>1, <1>2, <2>1 DEF BalanceIsAccounted
<1>4. ASSUME NEW r \in Requests, Reserve(r)
      PROVE  BalanceIsAccounted'
  <2>1. ExpiryFits /\ UpdateBuckets(0) /\ granted' = granted - Lapsing
        /\ UNCHANGED <<purchased, usage, purchases, refunded>>
    BY <1>4 DEF Reserve, orders
  <2> QED BY <1>1, <1>2, <2>1 DEF BalanceIsAccounted
<1>5. ASSUME NEW r \in Requests, NEW cost \in Costs, Settle(r, cost)
      PROVE  BalanceIsAccounted'
  <2> DEFINE amount == MinOf(granted - Lapsing, cost)
  <2>1. /\ ExpiryFits /\ UpdateBuckets(amount) /\ granted' = granted - Lapsing - amount
        /\ purchased >= cost - amount /\ purchased' = purchased - (cost - amount)
        /\ usage[r] = Unbilled /\ usage' = [usage EXCEPT ![r] = cost]
        /\ UNCHANGED <<purchases, refunded>>
    BY <1>5 DEF Settle, orders
  <2>2. amount \in Nat /\ cost \in Nat
    BY <2>1, SettleAmounts
  <2>3. Total(usage', Billed') = Total(usage, Billed) + cost
    BY <2>1, <2>2, UsageGrows
  <2>4. /\ Total(lapsed', AllBuckets) = Total(lapsed, AllBuckets) + Lapsing
        /\ Opened' = Opened /\ Lapsing \in Nat
    BY <1>1, <2>1, <2>2
  <2> QED BY <2>1, <2>2, <2>3, <2>4 DEF BalanceIsAccounted
<1>6. ASSUME NEW b \in Buckets, Grant(b)
      PROVE  BalanceIsAccounted'
  <2>1. Opened' = Opened \cup {b} /\ b \notin Opened
    BY <1>6, Constants DEF Grant, Opened, TypeOK
  <2>2. Cardinality(Opened') = Cardinality(Opened) + 1
    BY <2>1, FS_AddElement
  <2>3. BucketAmount * Cardinality(Opened') = BucketAmount * Cardinality(Opened) + BucketAmount
    BY <2>2
  <2>4. granted' = granted + BucketAmount
        /\ UNCHANGED <<purchased, lapsed, usage, purchases, refunded>>
    BY <1>6 DEF Grant, orders
  <2> QED BY <1>2, <2>3, <2>4 DEF BalanceIsAccounted
<1>7. CASE Migrate
  <2>1. Opened' = Opened /\ UNCHANGED <<granted, purchased, lapsed, usage, purchases, refunded>>
    BY <1>7, Constants DEF Migrate, Opened, TypeOK, orders
  <2> QED BY <1>2, <2>1 DEF BalanceIsAccounted
<1>8. ASSUME UNCHANGED <<granted, purchased, buckets, usage, orders>>
      PROVE  BalanceIsAccounted'
  BY <1>2, <1>8 DEF BalanceIsAccounted, Opened, buckets, orders
<1>9. CASE Tick \/ (\E r \in Requests : Release(r)) \/ UNCHANGED vars
  BY <1>8, <1>9 DEF Tick, Release, vars, buckets, orders
<1>10. ASSUME NEW p \in Payments, Purchase(p)
       PROVE  BalanceIsAccounted'
  <2>1. Cardinality(purchases') = Cardinality(purchases) + 1
    BY <1>10, FS_AddElement DEF Purchase
  <2>2. OrderCredits * Cardinality(purchases')
            = OrderCredits * Cardinality(purchases) + OrderCredits
    BY <2>1
  <2>3. purchased' = purchased + OrderCredits /\ Opened' = Opened
        /\ UNCHANGED <<granted, lapsed, usage, refunded>>
    BY <1>10 DEF Purchase, buckets, Opened
  <2> QED BY <1>2, <2>2, <2>3 DEF BalanceIsAccounted
<1>11. ASSUME NEW p \in Payments, NEW credits \in 1..OrderCredits, Refund(p, credits)
       PROVE  BalanceIsAccounted'
  <2>1. /\ \A q \in Payments : refunded[q] \in Nat /\ refunded'[q] \in Nat
        /\ refunded'[p] = refunded[p] + credits
        /\ \A q \in Payments \ {p} : refunded'[q] = refunded[q]
    BY <1>11 DEF Refund, TypeOK
  <2>2. Total(refunded', Payments) = Total(refunded, Payments) - refunded[p] + refunded'[p]
    BY <2>1, TotalUpdate
  <2>3. Total(refunded', Payments) = Total(refunded, Payments) + credits
    BY <2>1, <2>2
  <2>4. purchased' = purchased - credits /\ Opened' = Opened
        /\ UNCHANGED <<granted, lapsed, usage, purchases>>
    BY <1>11 DEF Refund, buckets, Opened
  <2> QED BY <1>2, <2>3, <2>4 DEF BalanceIsAccounted
<1> QED BY <1>3, <1>4, <1>5, <1>6, <1>7, <1>9, <1>10, <1>11 DEF Next

\* The balance is at all times what was credited less what was charged, has
\* expired and was refunded (bill_transaction explains bill_account).
THEOREM BalanceIsExplained == Spec => []BalanceIsAccounted
BY TypeInit, TypeStep, AccountedInit, LapsedStep, AccountedStep, PTL DEF Spec

-----------------------------------------------------------------------------
(* Coverage of the reservations *)

\* A settled reservation has been charged.
SettledIsBilled == \A r \in Requests : reservation[r] = "settled" => usage[r] # Unbilled

LEMMA SettledStep ==
    TypeOK /\ SettledIsBilled /\ [Next]_vars => SettledIsBilled'
<1> SUFFICES ASSUME TypeOK, SettledIsBilled, [Next]_vars
             PROVE  SettledIsBilled'
  OBVIOUS
<1>1. ASSUME NEW r \in Requests, NEW kind \in {"frozen", "released"}, usage' = usage,
             reservation' = [reservation EXCEPT ![r] = kind]
      PROVE  SettledIsBilled'
  BY <1>1 DEF SettledIsBilled, TypeOK
<1>2. ASSUME NEW r \in Requests, Reserve(r) \/ Release(r)
      PROVE  SettledIsBilled'
  BY <1>1, <1>2 DEF Reserve, Release
<1>3. ASSUME NEW r \in Requests, NEW cost \in Costs, Settle(r, cost)
      PROVE  SettledIsBilled'
  <2>1. /\ usage' = [usage EXCEPT ![r] = cost] /\ cost \in Nat
        /\ reservation' = [reservation EXCEPT ![r] = IF @ = "frozen" THEN "settled" ELSE @]
    BY <1>3 DEF Settle
  <2> QED BY <2>1 DEF SettledIsBilled, TypeOK, Unbilled
<1>4. ASSUME reservation' = reservation, usage' = usage
      PROVE  SettledIsBilled'
  BY <1>4 DEF SettledIsBilled
<1>5. CASE Expire \/ Migrate \/ Tick \/ (\E b \in Buckets : Grant(b)) \/ UNCHANGED vars
  BY <1>4, <1>5 DEF Expire, Migrate, Tick, Grant, vars
<1>6. ASSUME NEW p \in Payments,
             Purchase(p) \/ \E credits \in 1..OrderCredits : Refund(p, credits)
      PROVE  SettledIsBilled'
  BY <1>4, <1>6 DEF Purchase, Refund
<1> QED BY <1>2, <1>3, <1>5, <1>6 DEF Next

\* The hypothesis of ReservationsAreCovered, in parts.
ChargesFit == \A r \in Billed : reservation[r] = "settled" /\ usage[r] <= estimate[r]
NothingLapsed == \A b \in AllBuckets : lapsed[b] = 0
NothingRefunded == \A p \in Payments : refunded[p] = 0

\* If nothing has lapsed after a step, it took nothing that was due.
LEMMA NothingLapses ==
    ASSUME TypeOK, LapsedIsExpired, NEW amount \in Nat, UpdateBuckets(amount),
           NothingLapsed'
    PROVE  NothingLapsed /\ Lapsing = 0
<1>1. \A b \in Due : remaining[b] = 0
  BY BucketSets, Constants DEF UpdateBuckets, NothingLapsed
<1>2. Lapsing = 0
  BY <1>1, TotalZero DEF Lapsing
<1>3. ASSUME NEW b \in AllBuckets
      PROVE  lapsed[b] = 0
  <2>1. CASE b \in Due
    BY <2>1 DEF Due, LapsedIsExpired
  <2>2. CASE b \notin Due
    BY <2>2 DEF UpdateBuckets, NothingLapsed
  <2> QED BY <2>1, <2>2
<1> QED BY <1>2, <1>3 DEF NothingLapsed

\* Whatever covers a debt still covers it when it has grown,
LEMMA CoveredByMore ==
    ASSUME NEW debt \in Nat, NEW a \in Nat, NEW b \in Nat, NEW c \in Nat, NEW d \in Nat,
           debt <= a + b, a <= c, b <= d
    PROVE  debt <= c + d
OBVIOUS

\* and when it has paid, from both its parts, no more than the debt has shrunk.
LEMMA CoveredAfterCharge ==
    ASSUME NEW debt \in Nat, NEW a \in Nat, NEW b \in Nat, NEW x \in Nat,
           NEW cost \in Nat, NEW held \in Nat,
           debt <= a + b, cost <= held
    PROVE  debt - held <= (a - 0 - x) + (b - (cost - x))
OBVIOUS

LEMMA CoveredStep ==
    TypeOK /\ LapsedIsExpired /\ SettledIsBilled /\ ReservationsAreCovered /\ [Next]_vars
        => ReservationsAreCovered'
<1> SUFFICES ASSUME TypeOK, LapsedIsExpired, SettledIsBilled, ReservationsAreCovered,
                    [Next]_vars, ChargesFit', NothingLapsed', NothingRefunded'
             PROVE  frozen' <= granted' + purchased'
  BY DEF ReservationsAreCovered, ChargesFit, NothingLapsed, NothingRefunded
<1>1. ChargesFit /\ NothingLapsed /\ NothingRefunded => frozen <= granted + purchased
  BY DEF ReservationsAreCovered, ChargesFit, NothingLapsed, NothingRefunded
<1>2. granted \in Nat /\ purchased \in Nat /\ frozen \in Nat /\ Lapsing \in Nat
  BY BucketSets DEF TypeOK
<1>3. ASSUME UNCHANGED <<reservation, estimate, usage>>
      PROVE  ChargesFit
  BY <1>3 DEF ChargesFit, Billed
<1>4. ASSUME refunded' = refunded
      PROVE  NothingRefunded
  BY <1>4 DEF NothingRefunded
<1>5. ASSUME UNCHANGED <<frozen, lapsed, reservation, estimate, usage, refunded>>,
             granted <= granted', purchased <= purchased'
      PROVE  frozen' <= granted' + purchased'
  <2>1. NothingLapsed
    BY <1>5 DEF NothingLapsed
  <2>2. frozen <= granted + purchased
    BY <1>1, <1>3, <1>4, <1>5, <2>1
  <2>3. granted' \in Nat /\ purchased' \in Nat
    BY TypeStep DEF TypeOK
  <2>4. frozen <= granted' + purchased'
    BY <1>2, <1>5, <2>2, <2>3, CoveredByMore
  <2> QED BY <1>5, <2>4, Zenon
<1>6. CASE Expire
  <2>1. /\ UpdateBuckets(0) /\ granted' = granted - Lapsing
        /\ UNCHANGED <<purchased, frozen, reservation, estimate, usage, refunded>>
    BY <1>6 DEF Expire, orders
  <2>2. NothingLapsed /\ Lapsing = 0
    BY <2>1, NothingLapses
  <2>3. frozen <= granted + purchased
    BY <1>1, <1>3, <1>4, <2>1, <2>2
  <2> QED BY <1>2, <2>1, <2>2, <2>3
<1>7. ASSUME NEW r \in Requests, Reserve(r)
      PROVE  frozen' <= granted' + purchased'
  <2>1. PICK e \in Estimates : granted - Lapsing + purchased - frozen >= e
                             /\ frozen' = frozen + e
    BY <1>7 DEF Reserve
  <2>2. granted' = granted - Lapsing /\ purchased' = purchased /\ e \in Nat
    BY <1>7 DEF Reserve
  <2> QED BY <1>2, <2>1, <2>2
<1>8. ASSUME NEW r \in Requests, Release(r)
      PROVE  frozen' <= granted' + purchased'
  <2>1. r \notin Billed
    BY <1>8 DEF Release, ChargesFit, Billed, TypeOK
  <2>2. ChargesFit
    BY <1>8, <2>1 DEF Release, ChargesFit, Billed, TypeOK
  <2>3. NothingLapsed /\ NothingRefunded
    BY <1>8 DEF Release, NothingLapsed, NothingRefunded, buckets, orders
  <2>4. frozen' = frozen - estimate[r] /\ estimate[r] \in Nat
        /\ granted' = granted /\ purchased' = purchased
    BY <1>8 DEF Release, TypeOK
  <2> QED BY <1>1, <1>2, <2>2, <2>3, <2>4
<1>9. ASSUME NEW r \in Requests, NEW cost \in Costs, Settle(r, cost)
      PROVE  frozen' <= granted' + purchased'
  <2> DEFINE amount == MinOf(granted - Lapsing, cost)
  <2>1. /\ ExpiryFits /\ UpdateBuckets(amount) /\ granted' = granted - Lapsing - amount
        /\ purchased >= cost - amount /\ purchased' = purchased - (cost - amount)
        /\ usage[r] = Unbilled /\ usage' = [usage EXCEPT ![r] = cost]
        /\ UNCHANGED <<estimate, refunded>>
    BY <1>9 DEF Settle, orders
  <2>2. amount \in Nat /\ cost \in Nat
    BY <2>1, SettleAmounts
  <2>3. NothingLapsed /\ Lapsing = 0
    BY <2>1, <2>2, NothingLapses
  <2>4. reservation'[r] = "settled" /\ cost <= estimate[r]
    BY <2>1, <2>2 DEF ChargesFit, Billed, TypeOK, Unbilled
  <2>5. reservation[r] = "frozen"
    BY <1>9, <2>1, <2>4 DEF Settle, SettledIsBilled, TypeOK
  <2>6. frozen' = frozen - estimate[r] /\ estimate[r] \in Nat
    BY <1>9, <2>5 DEF Settle, TypeOK
  <2>7. ChargesFit
    <3> SUFFICES ASSUME NEW s \in Billed
                 PROVE  reservation[s] = "settled" /\ usage[s] <= estimate[s]
      BY DEF ChargesFit
    <3>1. s \in Requests /\ s # r /\ usage[s] # Unbilled
      BY <2>1 DEF Billed
    <3>2. reservation'[s] = reservation[s] /\ usage'[s] = usage[s]
      BY <1>9, <3>1 DEF Settle, TypeOK
    <3>3. s \in Billed'
      BY <3>1, <3>2 DEF Billed
    <3> QED BY <2>1, <3>2, <3>3 DEF ChargesFit
  <2>8. frozen <= granted + purchased
    BY <1>1, <1>4, <2>1, <2>3, <2>7
  <2>9. frozen - estimate[r]
            <= (granted - 0 - amount) + (purchased - (cost - amount))
    BY <1>2, <2>2, <2>4, <2>6, <2>8, CoveredAfterCharge
  <2> QED BY <2>1, <2>3, <2>6, <2>9, Zenon
<1>10. ASSUME NEW b \in Buckets, Grant(b)
       PROVE  frozen' <= granted' + purchased'
  <2>1. BucketAmount \in Nat
    OBVIOUS
  <2> QED BY <1>2, <1>5, <1>10, <2>1 DEF Grant, orders
<1>11. CASE Migrate
  BY <1>2, <1>5, <1>11 DEF Migrate, orders
<1>12. CASE Tick \/ UNCHANGED vars
  BY <1>2, <1>5, <1>12 DEF Tick, vars, buckets, orders
<1>13. ASSUME NEW p \in Payments, Purchase(p)
       PROVE  frozen' <= granted' + purchased'
  <2>1. OrderCredits \in Nat
    OBVIOUS
  <2> QED BY <1>2, <1>5, <1>13, <2>1 DEF Purchase, buckets
<1>14. ASSUME NEW p \in Payments, NEW credits \in 1..OrderCredits, Refund(p, credits)
       PROVE  FALSE
  <2>1. refunded'[p] = refunded[p] + credits /\ refunded[p] \in Nat
    BY <1>14 DEF Refund, TypeOK
  <2> QED BY <2>1 DEF NothingRefunded
<1> QED BY <1>6, <1>7, <1>8, <1>9, <1>10, <1>11, <1>12, <1>13, <1>14 DEF Next

LEMMA CoveredInit == Init => SettledIsBilled /\ ReservationsAreCovered
BY DEF Init, SettledIsBilled, ReservationsAreCovered

\* As long as charges stay within their reservations and nothing has lapsed or
\* been refunded, the balance covers every frozen reservation (reserve_budget).
THEOREM ReservationsStayCovered == Spec => []ReservationsAreCovered
<1>1. Init => LapsedIsExpired
  BY AccountedInit
<1> QED BY <1>1, TypeInit, TypeStep, LapsedStep, SettledStep, CoveredInit, CoveredStep, PTL
        DEF Spec
=============================================================================

---------------------------- MODULE BillingLedger ----------------------------
(***************************************************************************)
(* The credit ledger of one workspace: bill_account, the expiring buckets  *)
(* of bill_credit_grant, bill_reservation, bill_usage_record, and the      *)
(* amounts of bill_transaction (modules/billing, modules/gateway/router.py *)
(* and modules/subscriptions.py).                                          *)
(*                                                                         *)
(* One action is one committed transaction: each of them takes the row of  *)
(* bill_account FOR UPDATE before it reads a balance.  A transaction that  *)
(* raises (402, 404, 409, ValueError, a deadlock PostgreSQL breaks) is     *)
(* rolled back and is not a step.                                          *)
(***************************************************************************)
EXTENDS Integers, FiniteSets, Sums

CONSTANTS Requests,      \* request ids of gateway calls
          NumBuckets,    \* bound: expiring buckets, numbered by expires_at
          BucketAmount,  \* initial_amount of a bucket
          Payments,      \* payments of credit orders
          OrderCredits,  \* credits of a credit order
          Estimates,     \* possible estimated costs of a reservation
          Costs          \* possible costs of a metered request

Buckets == 1..NumBuckets

\* the 'migration' bucket: no expires_at, so it sorts after all the others
Migration == NumBuckets + 1
AllBuckets == Buckets \cup {Migration}

Unbilled == -1

ASSUME BucketsAssumption == NumBuckets \in Nat \ {0}
ASSUME RequestsAssumption == IsFiniteSet(Requests)
ASSUME PaymentsAssumption == IsFiniteSet(Payments)
ASSUME AmountsAssumption ==
    /\ BucketAmount \in Nat \ {0}
    /\ OrderCredits \in Nat
    /\ Estimates \subseteq Nat
    /\ Costs \subseteq Nat

VARIABLES granted,      \* bill_account.granted_balance
          purchased,    \* bill_account.purchased_balance
          frozen,       \* bill_account.frozen_balance
          remaining,    \* remaining_amount of each bucket
          status,       \* status of each bucket
          lapsed,       \* amount of the 'expire' transaction of each bucket
          clock,        \* buckets 1..clock have reached their expires_at
          reservation,  \* status of the reservation of each request
          estimate,     \* estimated_cost of the reservation of each request
          usage,        \* cost of the usage record and transaction, or Unbilled
          purchases,    \* payments whose credits were added
          refunded      \* credits taken back by refunds, per payment

buckets == <<remaining, status, lapsed>>
orders == <<purchases, refunded>>
vars == <<granted, purchased, frozen, remaining, status, lapsed, clock,
          reservation, estimate, usage, purchases, refunded>>

-----------------------------------------------------------------------------
(* Buckets of granted credits: grants.py *)

\* the rows expire_credit_grants_in_transaction selects
Due == {b \in Buckets : status[b] = "active" /\ b <= clock}

Lapsing == Total(remaining, Due)

\* otherwise "Granted credit bucket exceeds account balance" is raised
ExpiryFits == Lapsing <= granted

\* the rows consume_granted_credits_in_transaction selects after the expiry
Live == {b \in AllBuckets : status[b] = "active" /\ b \notin Due /\ remaining[b] > 0}

\* what the loop over these rows, in the order of expires_at, takes from b
UsedNullsFirstMutant(b, amount) ==
    LET earlier == Total(remaining, {c \in Live : c > b})
    IN  IF b \in Live /\ amount > earlier THEN MinOf(remaining[b], amount - earlier) ELSE 0
Used(b, amount) ==
    LET earlier == Before(remaining, Live, b)
    IN  IF b \in Live /\ amount > earlier THEN MinOf(remaining[b], amount - earlier) ELSE 0

\* expire the buckets that are due, then consume amount from the others
UpdateBuckets(amount) ==
    /\ remaining' = [b \in AllBuckets |->
                       IF b \in Due THEN 0 ELSE remaining[b] - Used(b, amount)]
    /\ status' = [b \in AllBuckets |->
                    IF b \in Due THEN "expired"
                    ELSE IF b \in Live /\ Used(b, amount) = remaining[b] THEN "exhausted"
                    ELSE status[b]]
    /\ lapsed' = [b \in AllBuckets |-> IF b \in Due THEN remaining[b] ELSE lapsed[b]]

\* expire_credit_grants: the hourly loop, the billing pages, and what is left
\* of a reserve or settle call that turns out to be a duplicate
Expire ==
    /\ Due # {}
    /\ ExpiryFits
    /\ UpdateBuckets(0)
    /\ granted' = granted - Lapsing
    /\ UNCHANGED <<purchased, frozen, clock, reservation, estimate, usage, orders>>

\* grant_credits_in_transaction, once per idempotency key, for a period that
\* has just begun: its callers pass an end that lies ahead
Grant(b) ==
    /\ status[b] = "none"
    /\ b > clock
    /\ remaining' = [remaining EXCEPT ![b] = BucketAmount]
    /\ status' = [status EXCEPT ![b] = "active"]
    /\ granted' = granted + BucketAmount
    /\ UNCHANGED <<purchased, frozen, lapsed, clock, reservation, estimate, usage, orders>>

\* ensure_runtime_schema, at every start of a process: a bucket for the whole
\* granted balance unless the workspace already has a 'migration' bucket
Migrate ==
    /\ granted > 0
    /\ status[Migration] = "none"
    /\ remaining' = [remaining EXCEPT ![Migration] = granted]
    /\ status' = [status EXCEPT ![Migration] = "active"]
    /\ UNCHANGED <<granted, purchased, frozen, lapsed, clock, reservation, estimate, usage, orders>>

\* now() passes the expires_at of one more bucket
Tick ==
    /\ clock < NumBuckets
    /\ clock' = clock + 1
    /\ UNCHANGED <<granted, purchased, frozen, buckets, reservation, estimate, usage, orders>>

-----------------------------------------------------------------------------
(* Reservations and metering *)

\* reserve_budget
ReserveMutant(r) ==
    /\ reservation[r] = "none"
    /\ ExpiryFits
    /\ \E e \in Estimates :
        /\ granted - Lapsing + purchased >= e
        /\ frozen' = frozen + e
        /\ estimate' = [estimate EXCEPT ![r] = e]
    /\ reservation' = [reservation EXCEPT ![r] = "frozen"]
    /\ UpdateBuckets(0)
    /\ granted' = granted - Lapsing
    /\ UNCHANGED <<purchased, clock, usage, orders>>
Reserve(r) ==
    /\ reservation[r] = "none"
    /\ ExpiryFits
    /\ \E e \in Estimates :
        /\ granted - Lapsing + purchased - frozen >= e
        /\ frozen' = frozen + e
        /\ estimate' = [estimate EXCEPT ![r] = e]
    /\ reservation' = [reservation EXCEPT ![r] = "frozen"]
    /\ UpdateBuckets(0)
    /\ granted' = granted - Lapsing
    /\ UNCHANGED <<purchased, clock, usage, orders>>

\* release_budget
ReleaseMutant(r) ==
    /\ reservation[r] = "frozen"
    /\ frozen >= estimate[r]
    /\ frozen' = frozen - estimate[r]
    /\ UNCHANGED <<granted, purchased, buckets, clock, reservation, estimate, usage, orders>>
Release(r) ==
    /\ reservation[r] = "frozen"
    /\ frozen >= estimate[r]
    /\ frozen' = frozen - estimate[r]
    /\ reservation' = [reservation EXCEPT ![r] = "released"]
    /\ UNCHANGED <<granted, purchased, buckets, clock, estimate, usage, orders>>

\* settle_meter_in_transaction.  It charges granted credits first, whatever
\* the reservation was for and whether there is one.
Settle(r, cost) ==
    LET balance == granted - Lapsing
        fromGranted == MinOf(balance, cost)
        fromPurchased == cost - fromGranted
        held == IF reservation[r] = "frozen" THEN estimate[r] ELSE 0
    IN  /\ ExpiryFits
        /\ usage[r] = Unbilled
        /\ frozen >= held                           \* else 409
        /\ purchased >= fromPurchased               \* else 402
        /\ Total(remaining, Live) >= fromGranted    \* else "buckets are inconsistent"
        /\ granted' = balance - fromGranted
        /\ purchased' = purchased - fromPurchased
        /\ frozen' = frozen - held
        /\ reservation' = [reservation EXCEPT ![r] = IF @ = "frozen" THEN "settled" ELSE @]
        /\ usage' = [usage EXCEPT ![r] = cost]
        /\ UpdateBuckets(fromGranted)
        /\ UNCHANGED <<clock, estimate, orders>>

-----------------------------------------------------------------------------
(* Credit orders *)

\* _apply_payment_event with outcome "succeeded", once per payment
Purchase(p) ==
    /\ p \notin purchases
    /\ purchases' = purchases \cup {p}
    /\ purchased' = purchased + OrderCredits
    /\ UNCHANGED <<granted, frozen, buckets, clock, reservation, estimate, usage, refunded>>

\* create_refund of a payment whose provider executes it at once, in part or in
\* full; the code bounds the money, of which the credits are a rounded share
RefundUncheckedMutant(p, credits) ==
    /\ p \in purchases
    /\ credits <= OrderCredits - refunded[p]
    /\ refunded' = [refunded EXCEPT ![p] = @ + credits]
    /\ purchased' = purchased - credits
    /\ UNCHANGED <<granted, frozen, buckets, clock, reservation, estimate, usage, purchases>>
RefundClampedMutant(p, credits) ==
    /\ p \in purchases
    /\ credits <= OrderCredits - refunded[p]
    /\ refunded' = [refunded EXCEPT ![p] = @ + credits]
    /\ purchased' = IF purchased >= credits THEN purchased - credits ELSE 0
    /\ UNCHANGED <<granted, frozen, buckets, clock, reservation, estimate, usage, purchases>>
Refund(p, credits) ==
    /\ p \in purchases
    /\ credits <= OrderCredits - refunded[p]
    /\ purchased >= credits
    /\ refunded' = [refunded EXCEPT ![p] = @ + credits]
    /\ purchased' = purchased - credits
    /\ UNCHANGED <<granted, frozen, buckets, clock, reservation, estimate, usage, purchases>>

-----------------------------------------------------------------------------
\* a workspace is created with an account and the 'initial' bucket
Init ==
    /\ granted = BucketAmount
    /\ purchased = 0
    /\ frozen = 0
    /\ \E first \in Buckets :
        /\ remaining = [b \in AllBuckets |-> IF b = first THEN BucketAmount ELSE 0]
        /\ status = [b \in AllBuckets |-> IF b = first THEN "active" ELSE "none"]
    /\ lapsed = [b \in AllBuckets |-> 0]
    /\ clock = 0
    /\ reservation = [r \in Requests |-> "none"]
    /\ estimate = [r \in Requests |-> 0]
    /\ usage = [r \in Requests |-> Unbilled]
    /\ purchases = {}
    /\ refunded = [p \in Payments |-> 0]

Next ==
    \/ Expire \/ Migrate \/ Tick
    \/ \E b \in Buckets : Grant(b)
    \/ \E r \in Requests :
        Reserve(r) \/ Release(r) \/ \E cost \in Costs : Settle(r, cost)
    \/ \E p \in Payments :
        Purchase(p) \/ \E credits \in 1..OrderCredits : Refund(p, credits)

Spec == Init /\ [][Next]_vars

-----------------------------------------------------------------------------
(* Properties *)

\* Every variable has its type; in particular no balance is ever negative,
\* although bill_account has no constraint that says so.
TypeOK ==
    /\ granted \in Nat /\ purchased \in Nat /\ frozen \in Nat
    /\ remaining \in [AllBuckets -> Nat]
    /\ status \in [AllBuckets -> {"none", "active", "exhausted", "expired"}]
    /\ lapsed \in [AllBuckets -> Nat]
    /\ clock \in 0..NumBuckets
    /\ reservation \in [Requests -> {"none", "frozen", "settled", "released"}]
    /\ estimate \in [Requests -> Nat]
    /\ usage \in [Requests -> Nat \cup {Unbilled}]
    /\ purchases \in SUBSET Payments
    /\ refunded \in [Payments -> 0..OrderCredits]

Frozen == {r \in Requests : reservation[r] = "frozen"}
Billed == {r \in Requests : usage[r] # Unbilled}
Opened == {b \in Buckets : status[b] # "none"}
Spendable == {b \in Buckets : status[b] = "active"}

\* frozen_balance is the sum of the estimates of the frozen reservations:
\* settling and releasing one request takes back what reserving it added,
\* once, in whatever order the calls and their repetitions arrive.
FrozenIsReserved == frozen = Total(estimate, Frozen)

\* granted_balance is what the expiring buckets hold.  So neither "Granted
\* credit bucket exceeds account balance" (grants.py:155) nor "buckets are
\* inconsistent" (grants.py:123) is ever raised, and the bucket that a restart
\* adds for credits that have a bucket already (core.py:940) is never spent.
GrantedIsBacked == granted = Total(remaining, Spendable)

\* The balance is what was credited less what was charged, expired and
\* refunded: the rows of bill_transaction explain it in full.
BalanceIsAccounted ==
    granted + purchased
        + Total(usage, Billed) + Total(lapsed, AllBuckets) + Total(refunded, Payments)
      = BucketAmount * Cardinality(Opened) + OrderCredits * Cardinality(purchases)

\* As long as every charge stays within its reservation, and no credits have
\* expired or been refunded, the balance covers every frozen reservation: a
\* request that was let in can be charged its estimate.
ReservationsAreCovered ==
    /\ \A r \in Billed : reservation[r] = "settled" /\ usage[r] <= estimate[r]
    /\ \A b \in AllBuckets : lapsed[b] = 0
    /\ \A p \in Payments : refunded[p] = 0
    => frozen <= granted + purchased

\* reservations.py:36-37 and test_reservations.py:49-53: a settlement never
\* exceeds the amount its reservation has frozen.
SettledWithinReservation ==
    \A r \in Requests : reservation[r] = "settled" => usage[r] <= estimate[r]
=============================================================================

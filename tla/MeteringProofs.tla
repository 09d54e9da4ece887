---------------------------- MODULE MeteringProofs ----------------------------
(***************************************************************************)
(* Safety of the metering delivery, for every number of requests and       *)
(* deliveries and every ledger.                                            *)
(***************************************************************************)
EXTENDS Metering, BillingLedgerProofs

USE MaxDeliverAssumption

\* The inductive invariant, for one request: how far its handler is bounds
\* what its reservation, its usage record and its message can be.
RequestInv(r) ==
    /\ phase[r] = "idle" => reservation[r] = "none"
    /\ phase[r] \in {"idle", "reserved", "failing"} => r \notin served
    /\ phase[r] \in {"idle", "reserved", "failing", "served"} =>
           message[r] = "none" /\ usage[r] = Unbilled
    /\ reservation[r] = "released" =>
           phase[r] = "ended" /\ message[r] = "none" /\ usage[r] = Unbilled
    /\ reservation[r] = "frozen" => usage[r] = Unbilled /\ Explained(r)
    /\ r \in inbox \/ message[r] = "acked" => usage[r] # Unbilled
    /\ r \in served /\ usage[r] = Unbilled => Explained(r)
    /\ phase[r] \in {"served", "fallback"} \/ message[r] # "none" => r \in served

DeliveryInv == DeliveryTypeOK /\ \A r \in Requests : RequestInv(r)

-----------------------------------------------------------------------------
(* The ledger underneath *)

\* Whatever the gateway and the consumer do, the ledger takes a step of its own
\* or none: what is proved of BillingLedger holds of the composition.
LEMMA LedgerRefined == [NextDelivery]_allVars => [Next]_vars
<1> SUFFICES ASSUME [NextDelivery]_allVars PROVE [Next]_vars
  OBVIOUS
<1>1. CASE LedgerStep
  BY <1>1 DEF LedgerStep, Next
<1>2. CASE UNCHANGED allVars
  BY <1>2 DEF allVars
<1>3. ASSUME NEW r \in Requests, Reserve(r) \/ Release(r) PROVE Next
  BY <1>3 DEF Next
<1>4. ASSUME NEW r \in Requests, Charge(r) PROVE [Next]_vars
  BY <1>4 DEF Charge, Next
<1>5. ASSUME NEW r \in Requests, HandlerStep(r) \/ Crash(r) PROVE [Next]_vars
  BY <1>3, <1>4, <1>5 DEF HandlerStep, Admit, AdmitUnheard, Reject, Serve, ServeUnreserved, Fail,
     ReleaseCall, ReleaseLost, Crash, Publish, PublishFails, Fallback, FallbackFails
<1>6. ASSUME NEW r \in Requests, Consume(r) \/ RepairEvent(r) \/ DeliveryFails(r) \/ Age(r)
      PROVE  [Next]_vars
  BY <1>4, <1>6 DEF Consume, RepairEvent, SettleEvent, DeliveryFails, Age
<1> QED BY <1>1, <1>2, <1>5, <1>6 DEF NextDelivery

THEOREM LedgerImplemented == SpecDelivery => Spec
<1>1. InitDelivery => Init
  BY DEF InitDelivery
<1> QED BY <1>1, LedgerRefined, PTL DEF SpecDelivery, Spec

\* What a step of the ledger does to the reservation and the usage record of
\* the request it is for, and that it leaves those of the others alone.
LEMMA ReserveEffect ==
    ASSUME TypeOK, NEW r \in Requests, Reserve(r)
    PROVE  /\ reservation[r] = "none" /\ reservation'[r] = "frozen"
           /\ usage' = usage
           /\ \A q \in Requests \ {r} : reservation'[q] = reservation[q]
BY DEF Reserve, TypeOK

LEMMA ReleaseEffect ==
    ASSUME TypeOK, NEW r \in Requests, Release(r)
    PROVE  /\ reservation'[r] = "released"
           /\ usage' = usage
           /\ \A q \in Requests \ {r} : reservation'[q] = reservation[q]
BY DEF Release, TypeOK

LEMMA ChargeEffect ==
    ASSUME TypeOK, NEW r \in Requests, Charge(r), reservation[r] = "frozen" => usage[r] = Unbilled
    PROVE  /\ usage'[r] # Unbilled
           /\ usage[r] # Unbilled => usage'[r] = usage[r]
           /\ reservation'[r] = IF reservation[r] = "frozen" THEN "settled" ELSE reservation[r]
           /\ \A q \in Requests \ {r} :
                reservation'[q] = reservation[q] /\ usage'[q] = usage[q]
<1>1. ASSUME NEW cost \in Costs, Settle(r, cost)
      PROVE  /\ reservation' = [reservation EXCEPT ![r] = IF @ = "frozen" THEN "settled" ELSE @]
             /\ usage' = [usage EXCEPT ![r] = cost]
             /\ usage[r] = Unbilled /\ cost # Unbilled
  <2>1. cost # Unbilled
    BY AmountsAssumption DEF Unbilled
  <2> QED BY <1>1, <2>1, Zenon DEF Settle
<1>2. CASE usage[r] # Unbilled /\ UNCHANGED vars
  BY <1>2 DEF vars
<1> QED BY <1>1, <1>2 DEF Charge, TypeOK

LEMMA LedgerStepEffect ==
    ASSUME LedgerStep
    PROVE  UNCHANGED <<reservation, usage>> /\ UNCHANGED delivery
BY DEF LedgerStep, Expire, Migrate, Tick, Grant, Purchase, Refund

-----------------------------------------------------------------------------
(* One request at a time *)

\* a step leaves everything of request q as it is
Untouched(q) ==
    /\ phase'[q] = phase[q]
    /\ message'[q] = message[q]
    /\ deliveries'[q] = deliveries[q]
    /\ q \in inbox' <=> q \in inbox
    /\ q \in served' <=> q \in served
    /\ q \in lost' <=> q \in lost
    /\ reservation'[q] = reservation[q]
    /\ usage'[q] = usage[q]

LEMMA UntouchedKeeps ==
    ASSUME NEW q \in Requests, RequestInv(q), Untouched(q)
    PROVE  RequestInv(q)'
BY DEF RequestInv, Untouched, Explained, InFlight, Deliverable, Undelivered

\* Every step is a step for one request, or for none.
StepFor(r) ==
    \/ HandlerStep(r) \/ Crash(r)
    \/ Consume(r) \/ DeliveryFails(r) \/ RepairEvent(r) \/ Age(r)

LEMMA OneAtATime ==
    ASSUME TypeOK, DeliveryInv, NEW r \in Requests, StepFor(r), NEW q \in Requests \ {r}
    PROVE  Untouched(q)
<1> USE DEF DeliveryInv, DeliveryTypeOK, Untouched, Move
<1>1. reservation[r] = "frozen" => usage[r] = Unbilled
  BY DEF RequestInv
<1>2. CASE Admit(r) \/ AdmitUnheard(r)
  BY <1>2, ReserveEffect DEF Admit, AdmitUnheard, stream
<1>3. CASE ReleaseCall(r)
  BY <1>3, ReleaseEffect DEF ReleaseCall, stream
<1>4. CASE Fallback(r)
  BY <1>1, <1>4, ChargeEffect DEF Fallback, stream
<1>5. CASE Reject(r) \/ Serve(r) \/ ServeUnreserved(r) \/ Fail(r) \/ ReleaseLost(r)
           \/ Publish(r) \/ PublishFails(r) \/ FallbackFails(r) \/ Crash(r)
  BY <1>5 DEF Reject, Serve, ServeUnreserved, Fail, ReleaseLost, Publish, PublishFails,
     FallbackFails, Crash, stream, vars
<1>6. CASE Consume(r) \/ RepairEvent(r)
  <2>1. CASE r \in inbox /\ UNCHANGED <<vars, inbox>>
    BY <1>6, <2>1 DEF Consume, RepairEvent, CountDelivery, stream, vars
  <2>2. CASE r \notin inbox /\ inbox' = inbox \cup {r} /\ Charge(r)
    BY <1>1, <1>6, <2>2, ChargeEffect DEF Consume, RepairEvent, CountDelivery, stream
  <2> QED BY <1>6, <2>1, <2>2 DEF Consume, RepairEvent, SettleEvent
<1>7. CASE DeliveryFails(r) \/ Age(r)
  BY <1>7 DEF DeliveryFails, Age, CountDelivery, vars
<1> QED BY <1>2, <1>3, <1>4, <1>5, <1>6, <1>7 DEF StepFor, HandlerStep

LEMMA DeliveryTypeStep ==
    ASSUME DeliveryTypeOK, NEW r \in Requests, StepFor(r)
    PROVE  DeliveryTypeOK'
<1> USE DEF DeliveryTypeOK, Move
<1>1. CASE HandlerStep(r) \/ Crash(r)
  BY <1>1 DEF HandlerStep, Admit, AdmitUnheard, Reject, Serve, ServeUnreserved, Fail, ReleaseCall,
     ReleaseLost, Publish, PublishFails, Fallback, FallbackFails, Crash, stream
<1>2. CASE Consume(r) \/ RepairEvent(r)
  BY <1>2 DEF Consume, RepairEvent, Deliverable, CountDelivery, SettleEvent, stream
<1>3. CASE DeliveryFails(r) \/ Age(r)
  BY <1>3 DEF DeliveryFails, Age, Deliverable, CountDelivery
<1> QED BY <1>1, <1>2, <1>3 DEF StepFor

\* The request the step is for keeps its invariant: one case per action.
LEMMA RequestStep ==
    ASSUME TypeOK, DeliveryInv, NEW r \in Requests, StepFor(r)
    PROVE  RequestInv(r)'
<1> USE DEF DeliveryInv, DeliveryTypeOK, RequestInv, Move, Explained, InFlight, Deliverable, Undelivered
<1>1. RequestInv(r) /\ DeliveryTypeOK'
  BY DeliveryTypeStep
<1>2. CASE Admit(r) \/ AdmitUnheard(r)
  BY <1>1, <1>2, ReserveEffect DEF Admit, AdmitUnheard, stream
<1>3. CASE Reject(r) \/ Serve(r) \/ ServeUnreserved(r) \/ Fail(r)
  BY <1>1, <1>3 DEF Reject, Serve, ServeUnreserved, Fail, stream, vars
<1>4. CASE ReleaseCall(r)
  BY <1>1, <1>4, ReleaseEffect DEF ReleaseCall, stream
<1>5. CASE ReleaseLost(r) \/ FallbackFails(r) \/ Crash(r)
  BY <1>1, <1>5 DEF ReleaseLost, FallbackFails, Crash, stream, vars
<1>6. CASE Publish(r) \/ PublishFails(r)
  BY <1>1, <1>6 DEF Publish, PublishFails, vars
<1>7. CASE Fallback(r)
  BY <1>1, <1>7, ChargeEffect DEF Fallback, stream
<1>8. CASE Consume(r) \/ RepairEvent(r)
  <2>1. CASE r \in inbox /\ UNCHANGED <<vars, inbox>>
    BY <1>1, <1>8, <2>1 DEF Consume, RepairEvent, CountDelivery, stream, vars
  <2>2. CASE r \notin inbox /\ inbox' = inbox \cup {r} /\ Charge(r)
    BY <1>1, <1>8, <2>2, ChargeEffect DEF Consume, RepairEvent, CountDelivery, stream
  <2> QED BY <1>8, <2>1, <2>2 DEF Consume, RepairEvent, SettleEvent
<1>9. CASE DeliveryFails(r) \/ Age(r)
  BY <1>1, <1>9 DEF DeliveryFails, Age, CountDelivery, vars
<1> QED BY <1>2, <1>3, <1>4, <1>5, <1>6, <1>7, <1>8, <1>9 DEF StepFor, HandlerStep

-----------------------------------------------------------------------------
(* The theorems *)

LEMMA DeliveryInit == InitDelivery => DeliveryInv
BY DEF InitDelivery, Init, DeliveryInv, DeliveryTypeOK, RequestInv

LEMMA DeliveryStep == TypeOK /\ DeliveryInv /\ [NextDelivery]_allVars => DeliveryInv'
<1> SUFFICES ASSUME TypeOK, DeliveryInv, [NextDelivery]_allVars PROVE DeliveryInv'
  OBVIOUS
<1>1. ASSUME UNCHANGED <<reservation, usage>>, UNCHANGED delivery PROVE DeliveryInv'
  <2>1. DeliveryTypeOK'
    BY <1>1 DEF DeliveryInv, DeliveryTypeOK, delivery
  <2>2. ASSUME NEW q \in Requests PROVE RequestInv(q)'
    BY <1>1, UntouchedKeeps DEF DeliveryInv, Untouched, delivery
  <2> QED BY <2>1, <2>2 DEF DeliveryInv
<1>2. CASE LedgerStep
  BY <1>1, <1>2, LedgerStepEffect
<1>3. CASE UNCHANGED allVars
  BY <1>1, <1>3 DEF allVars, vars
<1>4. ASSUME NEW r \in Requests, StepFor(r) PROVE DeliveryInv'
  <2>1. DeliveryTypeOK'
    BY <1>4, DeliveryTypeStep DEF DeliveryInv
  <2>2. ASSUME NEW q \in Requests PROVE RequestInv(q)'
    BY <1>4, RequestStep, OneAtATime, UntouchedKeeps DEF DeliveryInv
  <2> QED BY <2>1, <2>2 DEF DeliveryInv
<1> QED BY <1>2, <1>3, <1>4 DEF NextDelivery, StepFor

LEMMA DeliveryInvariant == SpecDelivery => []DeliveryInv
<1>1. SpecDelivery => []TypeOK
  BY LedgerImplemented, TypeCorrect, PTL
<1> QED BY <1>1, DeliveryInit, DeliveryStep, PTL DEF SpecDelivery

\* The variables of the delivery always have their types: a message is never
\* delivered more often than the consumer allows.
THEOREM DeliveryTypeCorrect == SpecDelivery => []DeliveryTypeOK
<1>1. DeliveryInv => DeliveryTypeOK
  BY DEF DeliveryInv
<1> QED BY <1>1, DeliveryInvariant, PTL

\* An event the consumer is done with has been charged: no acknowledgement and
\* no row of ops_inbox gets ahead of the ledger.
THEOREM ConsumedEventsAreBilled == SpecDelivery => []ConsumedIsBilled
<1>1. DeliveryInv => ConsumedIsBilled
  BY DEF DeliveryInv, RequestInv, ConsumedIsBilled
<1> QED BY <1>1, DeliveryInvariant, PTL

\* No credits stay frozen but for a call, a handler or a message that was lost.
THEOREM FrozenCreditsAreExplained == SpecDelivery => []FrozenIsExplained
<1>1. DeliveryInv => FrozenIsExplained
  BY DEF DeliveryInv, RequestInv, FrozenIsExplained
<1> QED BY <1>1, DeliveryInvariant, PTL

\* No served request stays uncharged but for a handler, a call or a message
\* that was lost.
THEOREM UnbilledRequestsAreExplained == SpecDelivery => []UnbilledIsExplained
<1>1. DeliveryInv => UnbilledIsExplained
  BY DEF DeliveryInv, DeliveryTypeOK, RequestInv, UnbilledIsExplained
<1> QED BY <1>1, DeliveryInvariant, PTL

\* A request whose credits were given back is never charged.
THEOREM ReleasedRequestsAreFree == SpecDelivery => []ReleasedIsFree
<1>1. DeliveryInv => ReleasedIsFree
  BY DEF DeliveryInv, RequestInv, ReleasedIsFree
<1> QED BY <1>1, DeliveryInvariant, PTL

\* Between the stream, its redeliveries and the HTTP fallback a request is
\* charged once.
THEOREM RequestsAreChargedOnce == SpecDelivery => ChargedOnce
<1> DEFINE Stands == \A r \in Requests : usage[r] # Unbilled => usage'[r] = usage[r]
<1>1. TypeOK /\ [Next]_vars => Stands
  <2> SUFFICES ASSUME TypeOK, [Next]_vars PROVE Stands
    OBVIOUS
  <2>1. ASSUME NEW q \in Requests, NEW cost \in Costs, Settle(q, cost) PROVE Stands
    BY <2>1 DEF Settle, TypeOK
  <2>2. CASE UNCHANGED usage
    BY <2>2
  <2>3. CASE UNCHANGED vars
    BY <2>2, <2>3 DEF vars
  <2> QED BY <2>1, <2>2, <2>3 DEF Next, Expire, Migrate, Tick, Grant, Reserve, Release, Purchase, Refund
<1>2. TypeOK /\ [NextDelivery]_allVars => [Stands]_allVars
  BY <1>1, LedgerRefined
<1>3. SpecDelivery => []TypeOK
  BY LedgerImplemented, TypeCorrect, PTL
<1> QED BY <1>2, <1>3, PTL DEF SpecDelivery, ChargedOnce

-----------------------------------------------------------------------------
(* The refinement *)

\* A step for r leaves the carriers and losses of the other requests alone; it
\* takes no loss back; and nobody carries r afterwards only if it is resolved
\* or lost, which is what RequestInv says of frozen and of unbilled requests.
LEMMA StepCarries ==
    ASSUME TypeOK, DeliveryInv, NEW r \in Requests, StepFor(r)
    PROVE  Billing!Carry(r, Carriers'[r])
<1>1. \A q \in Requests \ {r} : Untouched(q)
  BY OneAtATime
<1>2. Carriers' = [Carriers EXCEPT ![r] = Carriers'[r]]
  BY <1>1 DEF Carriers, Untouched, InFlight, Deliverable
<1>3. lost \subseteq Requests /\ lost' \subseteq Requests
  BY DeliveryTypeStep DEF DeliveryInv, DeliveryTypeOK
<1>4. \A q \in Requests \ {r} : q \in Losses' <=> q \in Losses
  BY <1>1 DEF Losses, Untouched, Undelivered
<1>5. r \in Losses => r \in Losses'
  <2> USE DEF DeliveryInv, DeliveryTypeOK, RequestInv, Losses, Undelivered, Move
  <2>1. CASE HandlerStep(r) \/ Crash(r)
    BY <2>1 DEF HandlerStep, Admit, AdmitUnheard, Reject, Serve, ServeUnreserved, Fail, ReleaseCall,
       ReleaseLost, Publish, PublishFails, Fallback, FallbackFails, Crash, stream
  <2>2. CASE Consume(r) \/ RepairEvent(r) \/ DeliveryFails(r) \/ Age(r)
    BY <2>2 DEF Consume, RepairEvent, DeliveryFails, Age, Deliverable, CountDelivery, stream
  <2> QED BY <2>1, <2>2 DEF StepFor
<1>6. Losses' \in {Losses, Losses \cup {r}}
  BY <1>3, <1>4, <1>5 DEF Losses
<1>7. RequestInv(r)'
  BY RequestStep
<1>8. Carriers'[r] = {} => Billing!Resolved(r)' \/ r \in Losses'
  BY <1>7 DEF Carriers, RequestInv, Explained, InFlight, Deliverable, Losses, Billing!Resolved
<1> QED BY <1>2, <1>6, <1>8 DEF Billing!Carry

\* A charge is for a request that was served, the first one or none.
LEMMA ChargeIsBilled ==
    ASSUME TypeOK, DeliveryInv, NEW r \in Requests, StepFor(r), Charge(r), r \in served,
           UNCHANGED served, Carriers'[r] \subseteq Carriers[r], Carriers[r] # {} \/ usage[r] = Unbilled
    PROVE  Billing!Charge(r) \/ Billing!Pass(r)
<1>1. Billing!Carry(r, Carriers'[r])
  BY StepCarries
<1>2. ASSUME NEW cost \in Costs, Settle(r, cost) PROVE Billing!Charge(r)
  <2>1. /\ reservation' = [reservation EXCEPT ![r] = IF @ = "frozen" THEN "settled" ELSE @]
        /\ usage' = [usage EXCEPT ![r] = cost]
        /\ usage[r] = Unbilled
    BY <1>2, Zenon DEF Settle
  <2> QED BY <1>1, <2>1 DEF Billing!Charge
<1>3. CASE usage[r] # Unbilled /\ UNCHANGED vars
  BY <1>1, <1>3 DEF Billing!Pass, vars
<1> QED BY <1>2, <1>3 DEF Charge

LEMMA StepBills ==
    ASSUME TypeOK, DeliveryInv, NEW r \in Requests, StepFor(r)
    PROVE  [Billing!Next]_<<reservation, usage, served, Carriers, Losses>>
<1>1. Billing!Carry(r, Carriers'[r])
  BY StepCarries
<1>2. DeliveryTypeOK /\ RequestInv(r) /\ DeliveryTypeOK'
  BY DeliveryTypeStep DEF DeliveryInv
<1>3. Carriers[r] = {} <=> ~InFlight(r) /\ ~Deliverable(r)
  BY DEF Carriers, InFlight, Deliverable
<1>4. /\ "handler" \in Carriers[r] <=> InFlight(r)
      /\ "message" \in Carriers[r] <=> Deliverable(r)
      /\ Carriers[r] \subseteq {"handler", "message"}
      /\ Carriers'[r] \subseteq {"handler", "message"}
      /\ "handler" \in Carriers'[r] <=> InFlight(r)'
      /\ "message" \in Carriers'[r] <=> Deliverable(r)'
  BY DEF Carriers, InFlight, Deliverable
<1> USE DEF DeliveryTypeOK, RequestInv, InFlight, Deliverable, Move
<1>5. CASE Admit(r) \/ AdmitUnheard(r)
  <2>1. reservation' = [reservation EXCEPT ![r] = "frozen"] /\ usage' = usage /\ served' = served
    BY <1>5 DEF Admit, AdmitUnheard, Reserve
  <2>2. reservation[r] = "none" /\ r \notin served /\ Carriers[r] = {}
    BY <1>2, <1>3, <1>5 DEF Admit, AdmitUnheard
  <2>3. "message" \notin Carriers'[r]
    BY <1>2, <1>4, <1>5 DEF Admit, AdmitUnheard, stream
  <2>4. Carriers'[r] \in {{}, {"handler"}}
    BY <1>4, <2>3
  <2>5. Billing!Begin(r)
    BY <1>1, <2>1, <2>2, <2>4 DEF Billing!Begin
  <2> QED BY <2>5 DEF Billing!Next
<1>6. CASE ServeUnreserved(r)
  <2>1. served' = served \cup {r} /\ reservation' = reservation /\ usage' = usage
    BY <1>6 DEF ServeUnreserved, vars
  <2>2. reservation[r] = "none" /\ r \notin served /\ Carriers[r] = {}
    BY <1>2, <1>3, <1>6 DEF ServeUnreserved
  <2>3. "message" \notin Carriers'[r]
    BY <1>2, <1>4, <1>6 DEF ServeUnreserved, stream
  <2>4. Carriers'[r] \in {{}, {"handler"}}
    BY <1>4, <2>3
  <2>5. Billing!Begin(r)
    BY <1>1, <2>1, <2>2, <2>4 DEF Billing!Begin
  <2> QED BY <2>5 DEF Billing!Next
<1>7. CASE Serve(r)
  <2>1. /\ served' = served \cup {r} /\ reservation' = reservation /\ usage' = usage
        /\ r \notin served /\ "handler" \in Carriers[r]
    BY <1>2, <1>4, <1>7 DEF Serve, vars
  <2>2. Carriers'[r] = Carriers[r]
    <3>1. (InFlight(r)' <=> InFlight(r)) /\ (Deliverable(r)' <=> Deliverable(r))
      BY <1>2, <1>7 DEF Serve, stream
    <3> QED BY <3>1 DEF Carriers
  <2>3. Billing!Serve(r)
    BY <1>1, <2>1, <2>2 DEF Billing!Serve
  <2> QED BY <2>3 DEF Billing!Next
<1>8. CASE Reject(r) \/ Fail(r)
  <2>1. UNCHANGED <<reservation, usage, served, lost, stream>>
    BY <1>8 DEF Reject, Fail, vars
  <2>2. \A q \in Requests : InFlight(q)' <=> InFlight(q)
    BY <1>2, <1>8 DEF Reject, Fail
  <2>3. Carriers' = Carriers /\ Losses' = Losses
    BY <2>1, <2>2 DEF Carriers, Losses, Undelivered, stream
  <2> QED BY <2>1, <2>3
<1>9. CASE ReleaseCall(r)
  <2>1. reservation' = [reservation EXCEPT ![r] = "released"] /\ usage' = usage /\ served' = served
    BY <1>9 DEF ReleaseCall, Release
  <2>2. r \notin served /\ Carriers[r] = {"handler"}
    BY <1>2, <1>4, <1>9 DEF ReleaseCall
  <2>3. Carriers'[r] = {}
    BY <1>2, <1>4, <1>9 DEF ReleaseCall, stream
  <2>4. Billing!GiveBack(r)
    BY <1>1, <2>1, <2>2, <2>3 DEF Billing!GiveBack
  <2> QED BY <2>4 DEF Billing!Next
<1>10. CASE ReleaseLost(r) \/ FallbackFails(r) \/ Crash(r)
  <2>1. UNCHANGED <<reservation, usage, served>>
    BY <1>10 DEF ReleaseLost, FallbackFails, Crash, vars
  <2>2. Carriers[r] # {} /\ Carriers'[r] \subseteq Carriers[r]
    BY <1>2, <1>4, <1>10 DEF ReleaseLost, FallbackFails, Crash, stream
  <2>3. Billing!Pass(r)
    BY <1>1, <2>1, <2>2 DEF Billing!Pass
  <2> QED BY <2>3 DEF Billing!Next
<1>11. CASE Publish(r) \/ PublishFails(r)
  <2>1. UNCHANGED <<reservation, usage, served>>
    BY <1>11 DEF Publish, PublishFails, vars
  <2>2. "handler" \in Carriers[r] /\ r \in served /\ Carriers'[r] \subseteq Carriers[r] \cup {"message"}
    BY <1>2, <1>4, <1>11 DEF Publish, PublishFails
  <2>3. Billing!Pass(r)
    BY <1>1, <2>1, <2>2 DEF Billing!Pass
  <2> QED BY <2>3 DEF Billing!Next
<1>12. CASE Fallback(r)
  <2>1. UNCHANGED served /\ r \in served /\ Carriers[r] # {} /\ Carriers'[r] \subseteq Carriers[r]
    BY <1>2, <1>4, <1>12 DEF Fallback, stream
  <2> QED BY <1>12, <2>1, ChargeIsBilled DEF Fallback, Billing!Next
<1>13. CASE Consume(r) /\ r \notin inbox
  <2>1. UNCHANGED served /\ r \in served /\ Carriers[r] # {} /\ Carriers'[r] \subseteq Carriers[r]
    BY <1>2, <1>4, <1>13 DEF Consume, CountDelivery
  <2> QED BY <1>13, <2>1, ChargeIsBilled DEF Consume, SettleEvent, Billing!Next
<1>14. CASE DeliveryFails(r) \/ (Consume(r) /\ r \in inbox)
  <2>1. UNCHANGED <<reservation, usage, served>>
    BY <1>14 DEF DeliveryFails, Consume, SettleEvent, vars
  <2>2. Carriers[r] # {} /\ Carriers'[r] \subseteq Carriers[r]
    BY <1>2, <1>4, <1>14 DEF DeliveryFails, Consume, CountDelivery
  <2>3. Billing!Pass(r)
    BY <1>1, <2>1, <2>2 DEF Billing!Pass
  <2> QED BY <2>3 DEF Billing!Next
<1>15. CASE RepairEvent(r)
  <2>1. UNCHANGED <<served, lost, phase, stream>> /\ r \in served
    BY <1>2, <1>15 DEF RepairEvent
  <2>2. Carriers' = Carriers /\ Losses' = Losses
    BY <2>1 DEF Carriers, Losses, Undelivered, stream
  <2>3. CASE UNCHANGED vars
    BY <2>1, <2>2, <2>3 DEF vars
  <2>4. CASE ~UNCHANGED vars
    <3>1. Charge(r) /\ usage[r] = Unbilled
      BY <1>15, <2>4, Zenon DEF RepairEvent, SettleEvent, Charge, Settle
    <3> QED BY <2>1, <2>2, <3>1, ChargeIsBilled DEF Billing!Next
  <2> QED BY <2>3, <2>4
<1>16. CASE Age(r)
  <2>1. UNCHANGED <<reservation, usage, served, lost, phase, deliveries>>
    BY <1>16 DEF Age, vars
  <2>2. CASE Deliverable(r)
    <3>1. Carriers[r] # {} /\ Carriers'[r] \subseteq Carriers[r]
      BY <1>2, <1>4, <1>16, <2>2 DEF Age
    <3>2. Billing!Pass(r)
      BY <1>1, <2>1, <3>1 DEF Billing!Pass
    <3> QED BY <3>2 DEF Billing!Next
  <2>3. CASE ~Deliverable(r)
    <3>1. message' = [message EXCEPT ![r] = "aged"] /\ message[r] = "stored" /\ deliveries[r] = MaxDeliver
      BY <1>2, <1>16, <2>3 DEF Age
    <3>2. Carriers' = Carriers
      BY <1>2, <2>1, <3>1 DEF Carriers
    <3>3. Losses' = Losses
      BY <1>2, <2>1, <3>1 DEF Losses, Undelivered
    <3> QED BY <2>1, <3>2, <3>3
  <2> QED BY <2>2, <2>3
<1> HIDE DEF DeliveryTypeOK, RequestInv, InFlight, Deliverable, Move
<1>17. \/ Admit(r) \/ AdmitUnheard(r) \/ ServeUnreserved(r) \/ Serve(r) \/ Reject(r) \/ Fail(r)
       \/ ReleaseCall(r) \/ ReleaseLost(r) \/ FallbackFails(r) \/ Crash(r)
       \/ Publish(r) \/ PublishFails(r) \/ Fallback(r)
       \/ Consume(r) \/ DeliveryFails(r) \/ RepairEvent(r) \/ Age(r)
  BY DEF StepFor, HandlerStep
<1> QED
  BY <1>5, <1>6, <1>7, <1>8, <1>9, <1>10, <1>11, <1>12, <1>13, <1>14, <1>15, <1>16, <1>17

\* The refinement: metering implements BilledRequests.
THEOREM RequestsAreBilled == SpecDelivery => BillsRequests
<1>1. InitDelivery => Billing!Init
  <2> SUFFICES ASSUME InitDelivery PROVE Billing!Init
    OBVIOUS
  <2>1. Carriers = [r \in Requests |-> {}] /\ Losses = {}
    BY DEF InitDelivery, Carriers, Losses, InFlight, Deliverable, Undelivered
  <2> QED BY <2>1 DEF InitDelivery, Init, Billing!Init
<1>2. TypeOK /\ DeliveryInv /\ [NextDelivery]_allVars
        => [Billing!Next]_<<reservation, usage, served, Carriers, Losses>>
  <2>1. ASSUME UNCHANGED <<reservation, usage>>, UNCHANGED delivery
        PROVE  UNCHANGED <<reservation, usage, served, Carriers, Losses>>
    BY <2>1 DEF delivery, Carriers, Losses, InFlight, Deliverable, Undelivered
  <2>2. CASE LedgerStep
    BY <2>1, <2>2, LedgerStepEffect
  <2>3. CASE UNCHANGED allVars
    BY <2>1, <2>3 DEF allVars, vars
  <2> QED BY <2>2, <2>3, StepBills DEF NextDelivery, StepFor
<1>3. SpecDelivery => []TypeOK
  BY LedgerImplemented, TypeCorrect, PTL
<1> QED BY <1>1, <1>2, <1>3, DeliveryInvariant, PTL DEF SpecDelivery, BillsRequests, Billing!Spec
=============================================================================

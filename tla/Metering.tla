------------------------------- MODULE Metering -------------------------------
(***************************************************************************)
(* How the calls of the gateway reach the ledger: the handler of one model *)
(* call (apps/gateway/internal/server), the metering client that publishes *)
(* to JetStream and falls back to HTTP (apps/gateway/internal/metering),   *)
(* and the consumer of the stream (worker.py), composed with BillingLedger.*)
(*                                                                         *)
(* A remote call is one step with three outcomes: executed and answered,   *)
(* executed with the answer lost, not executed.                            *)
(***************************************************************************)
EXTENDS BillingLedger

CONSTANT MaxDeliver  \* deliveries of a message: max_deliver of the consumer

ASSUME MaxDeliverAssumption == MaxDeliver \in Nat \ {0}

VARIABLES phase,       \* where the gateway's handler of each request is
          message,     \* the metering message of each request in the stream
          deliveries,  \* how often that message was delivered
          inbox,       \* requests whose event has a row in ops_inbox
          served,      \* history: requests a channel answered
          lost         \* history: requests a call of the gateway was lost for

stream == <<message, deliveries>>
delivery == <<phase, message, deliveries, inbox, served, lost>>
allVars == <<vars, delivery>>

\* the handler of r goes on from one phase to the next
Move(r, from, to) == phase[r] = from /\ phase' = [phase EXCEPT ![r] = to]

-----------------------------------------------------------------------------
(* The gateway's handler: chatCompletions, createResponse, embeddings *)

\* the platform reserves the budget and the handler learns it
Admit(r) ==
    /\ Move(r, "idle", "reserved")
    /\ Reserve(r)
    /\ UNCHANGED <<stream, inbox, served, lost>>

\* the platform reserves the budget, the handler sees an error and returns
AdmitUnheard(r) ==
    /\ Move(r, "idle", "ended")
    /\ Reserve(r)
    /\ lost' = lost \cup {r}
    /\ UNCHANGED <<stream, inbox, served>>

\* the budget is refused, or the call is never executed
Reject(r) ==
    /\ Move(r, "idle", "ended")
    /\ UNCHANGED <<vars, stream, inbox, served, lost>>

\* a channel answers; metering comes next
Serve(r) ==
    /\ Move(r, "reserved", "served")
    /\ served' = served \cup {r}
    /\ UNCHANGED <<vars, stream, inbox, lost>>

\* embeddings and audio are metered without a reservation
ServeUnreserved(r) ==
    /\ Move(r, "idle", "served")
    /\ served' = served \cup {r}
    /\ UNCHANGED <<vars, stream, inbox, lost>>

\* moderation rejects the input, or no channel answers
FailWithoutReleaseMutant(r) ==
    /\ Move(r, "reserved", "ended")
    /\ UNCHANGED <<vars, stream, inbox, served, lost>>
Fail(r) ==
    /\ Move(r, "reserved", "failing")
    /\ UNCHANGED <<vars, stream, inbox, served, lost>>

\* Platform.Release is executed; the handler ignores its answer
ReleaseCall(r) ==
    /\ Move(r, "failing", "ended")
    /\ Release(r)
    /\ UNCHANGED <<stream, inbox, served, lost>>

\* Platform.Release is not executed: the error is logged
ReleaseLost(r) ==
    /\ Move(r, "failing", "ended")
    /\ lost' = lost \cup {r}
    /\ UNCHANGED <<vars, stream, inbox, served>>

\* a panic or the end of the process: the handler is gone where it stood
Crash(r) ==
    /\ \E from \in {"reserved", "served", "failing", "fallback"} : Move(r, from, "ended")
    /\ lost' = lost \cup {r}
    /\ UNCHANGED <<vars, stream, inbox, served>>

-----------------------------------------------------------------------------
(* The metering client: Client.Record *)

\* the stream stores the message and acknowledges it
Publish(r) ==
    /\ Move(r, "served", "ended")
    /\ message' = [message EXCEPT ![r] = "stored"]
    /\ UNCHANGED <<vars, deliveries, inbox, served, lost>>

\* the publish fails, whether the message was stored or not
PublishFails(r) ==
    /\ Move(r, "served", "fallback")
    /\ \E m \in {"none", "stored"} : message' = [message EXCEPT ![r] = m]
    /\ UNCHANGED <<vars, deliveries, inbox, served, lost>>

\* settle_meter: a request that has a usage record already is a duplicate
ChargeUpsertMutant(r) ==
    \/ \E cost \in Costs : Settle(r, cost)
    \/ /\ usage[r] # Unbilled
       /\ \E cost \in Costs : usage' = [usage EXCEPT ![r] = cost]
       /\ UNCHANGED <<granted, purchased, frozen, buckets, clock, reservation, estimate, orders>>
Charge(r) ==
    \/ \E cost \in Costs : Settle(r, cost)
    \/ usage[r] # Unbilled /\ UNCHANGED vars

\* the record is sent over HTTP and settled; recordMeter ignores the answer
Fallback(r) ==
    /\ Move(r, "fallback", "ended")
    /\ Charge(r)
    /\ UNCHANGED <<stream, inbox, served, lost>>

\* the HTTP call is not executed, or the settlement is rolled back
FallbackThenReleaseMutant(r) ==
    /\ Move(r, "fallback", "failing")
    /\ lost' = lost \cup {r}
    /\ UNCHANGED <<vars, stream, inbox, served>>
FallbackUnnoticedMutant(r) ==
    /\ Move(r, "fallback", "ended")
    /\ UNCHANGED <<vars, stream, inbox, served, lost>>
FallbackFails(r) ==
    /\ Move(r, "fallback", "ended")
    /\ lost' = lost \cup {r}
    /\ UNCHANGED <<vars, stream, inbox, served>>

-----------------------------------------------------------------------------
(* The stream and its consumer: handle_metering_message *)

DeliverableOnceMoreMutant(r) == message[r] = "stored" /\ deliveries[r] <= MaxDeliver
Deliverable(r) == message[r] = "stored" /\ deliveries[r] < MaxDeliver

CountDelivery(r) == deliveries' = [deliveries EXCEPT ![r] = @ + 1]

\* settle_meter_event: the row of ops_inbox and the charge, in one transaction
SettleEvent(r) ==
    \/ r \in inbox /\ UNCHANGED <<vars, inbox>>
    \/ r \notin inbox /\ inbox' = inbox \cup {r} /\ Charge(r)

\* the event is settled, and the stream learns it or not
Consume(r) ==
    /\ Deliverable(r)
    /\ CountDelivery(r)
    /\ SettleEvent(r)
    /\ \E m \in {"acked", "stored"} : message' = [message EXCEPT ![r] = m]
    /\ UNCHANGED <<phase, served, lost>>

\* the transaction fails, or the worker stops before it commits: nak, or no
\* answer within ack_wait
InboxKeptMutant(r) ==
    /\ Deliverable(r)
    /\ CountDelivery(r)
    /\ inbox' = inbox \cup {r}
    /\ UNCHANGED <<vars, phase, message, served, lost>>
AckedAnywayMutant(r) ==
    /\ Deliverable(r)
    /\ CountDelivery(r)
    /\ message' = [message EXCEPT ![r] = "acked"]
    /\ UNCHANGED <<vars, phase, inbox, served, lost>>
DeliveryFails(r) ==
    /\ Deliverable(r)
    /\ CountDelivery(r)
    /\ UNCHANGED <<vars, phase, message, inbox, served, lost>>

\* record_meter_event: somebody sends the envelope of a message over HTTP, under
\* the name of the same consumer
RepairEvent(r) ==
    /\ message[r] # "none"
    /\ SettleEvent(r)
    /\ UNCHANGED <<phase, stream, served, lost>>

\* max_age: the stream removes a message that is seven days old
Age(r) ==
    /\ message[r] = "stored"
    /\ message' = [message EXCEPT ![r] = "aged"]
    /\ UNCHANGED <<vars, phase, deliveries, inbox, served, lost>>

-----------------------------------------------------------------------------
\* what else happens to the ledger
LedgerStep ==
    /\ \/ Expire \/ Migrate \/ Tick
       \/ \E b \in Buckets : Grant(b)
       \/ \E p \in Payments :
            Purchase(p) \/ \E credits \in 1..OrderCredits : Refund(p, credits)
    /\ UNCHANGED delivery

InitDelivery ==
    /\ Init
    /\ phase = [r \in Requests |-> "idle"]
    /\ message = [r \in Requests |-> "none"]
    /\ deliveries = [r \in Requests |-> 0]
    /\ inbox = {}
    /\ served = {}
    /\ lost = {}

HandlerStep(r) ==
    \/ Admit(r) \/ AdmitUnheard(r) \/ Reject(r)
    \/ Serve(r) \/ ServeUnreserved(r) \/ Fail(r)
    \/ ReleaseCall(r) \/ ReleaseLost(r)
    \/ Publish(r) \/ PublishFails(r)
    \/ Fallback(r) \/ FallbackFails(r)

NextDelivery ==
    \/ LedgerStep
    \/ \E r \in Requests :
        \/ HandlerStep(r) \/ Crash(r)
        \/ Consume(r) \/ DeliveryFails(r) \/ RepairEvent(r) \/ Age(r)

SpecDelivery == InitDelivery /\ [][NextDelivery]_allVars

\* a handler runs on until it returns, and a message that was not acknowledged
\* is delivered again
FairSpec ==
    /\ SpecDelivery
    /\ \A r \in Requests :
        /\ WF_allVars(phase[r] # "idle" /\ HandlerStep(r))
        /\ WF_allVars(Consume(r) \/ DeliveryFails(r))

-----------------------------------------------------------------------------
(* Properties *)

\* The variables of the delivery have their types.
DeliveryTypeOK ==
    /\ phase \in [Requests -> {"idle", "reserved", "served", "failing", "fallback", "ended"}]
    /\ message \in [Requests -> {"none", "stored", "acked", "aged"}]
    /\ deliveries \in [Requests -> 0..MaxDeliver]
    /\ inbox \in SUBSET Requests
    /\ served \in SUBSET Requests
    /\ lost \in SUBSET Requests

InFlight(r) == phase[r] \in {"reserved", "served", "failing", "fallback"}

\* the stream will not deliver the message of r again, and nobody settled it
Undelivered(r) ==
    \/ message[r] = "aged"
    \/ message[r] = "stored" /\ deliveries[r] = MaxDeliver

\* somebody will still act for r, or a call or a message was lost for good
Explained(r) == InFlight(r) \/ Deliverable(r) \/ r \in lost \/ Undelivered(r)

\* An event that the consumer will not process again - its row is in ops_inbox
\* or its message is acknowledged - has been charged.
ConsumedIsBilled ==
    \A r \in Requests : r \in inbox \/ message[r] = "acked" => usage[r] # Unbilled

\* Credits stay frozen only while a handler or a message is under way, unless
\* a call was lost, a handler crashed or the stream gave the message up: no
\* path through the handlers leaves a reservation behind by itself.
FrozenIsExplained ==
    \A r \in Requests : reservation[r] = "frozen" => Explained(r)

\* A request that was served and is not charged is still being metered, unless
\* both ways to the ledger failed, a handler crashed or the stream gave up.
UnbilledIsExplained ==
    \A r \in served : usage[r] = Unbilled => Explained(r)

\* A request whose reservation was given back is never charged, although the
\* consumer may settle a message the gateway believes it failed to publish.
ReleasedIsFree ==
    \A r \in Requests : reservation[r] = "released" => usage[r] = Unbilled

\* However often and by whichever way its record arrives, a request is charged
\* once: the first charge stands.
ChargedOnce ==
    [][\A r \in Requests : usage[r] # Unbilled => usage'[r] = usage[r]]_allVars

Carriers == [r \in Requests |->
    {c \in {"handler", "message"} : IF c = "handler" THEN InFlight(r) ELSE Deliverable(r)}]

Losses == lost \cup {r \in Requests : Undelivered(r)}

Billing == INSTANCE BilledRequests
               WITH credits <- reservation, price <- usage, Prices <- Costs,
                    carriers <- Carriers, lost <- Losses

\* Metering implements BilledRequests: over publishing, fallback, redelivery,
\* de-duplication and repair, nobody lets go of a request before it is charged
\* or given back unless it is lost by name, and it is charged once, for having
\* been served, or given back, for not having been.
BillsRequests == Billing!Spec

Resolved(r) ==
    /\ reservation[r] # "frozen"
    /\ r \in served => usage[r] # Unbilled

\* A handler that got its reservation comes to an end and its reservation is
\* settled or released, unless a call, a handler or the message is lost.
EveryRequestResolves ==
    \A r \in Requests :
        InFlight(r) ~> phase[r] = "ended" /\ (Resolved(r) \/ r \in lost \/ Undelivered(r))
=============================================================================

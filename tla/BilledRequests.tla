---------------------------- MODULE BilledRequests ----------------------------
(***************************************************************************)
(* What metering promises about one model call: credits frozen for it are  *)
(* charged or given back, and it is charged if it was served, unless the   *)
(* record of it is lost.  Until then somebody carries the request.  It is  *)
(* charged once, only when it was served; it is given back only when it    *)
(* was not, by the one who carries it alone.                               *)
(***************************************************************************)
EXTENDS Integers

CONSTANTS Requests,
          Prices,     \* what a request may be charged
          Unbilled    \* the price of a request that was not charged

VARIABLES credits,    \* per request "none", "frozen", "settled" or "released"
          price,      \* what each request was charged
          served,     \* requests that were served
          carriers,   \* who carries each request: its handler, a message
          lost        \* requests whose handler, call or message was lost

Init ==
    /\ credits = [r \in Requests |-> "none"]
    /\ price = [r \in Requests |-> Unbilled]
    /\ served = {}
    /\ carriers = [r \in Requests |-> {}]
    /\ lost = {}

Resolved(r) == credits[r] # "frozen" /\ (r \in served => price[r] # Unbilled)

\* From now on S carries r.  Nobody does so only once r is resolved, or lost.
Carry(r, S) ==
    /\ carriers' = [carriers EXCEPT ![r] = S]
    /\ lost' \in {lost, lost \cup {r}}
    /\ S = {} => Resolved(r)' \/ r \in lost'

\* a new request: its credits are frozen, or it is served at once
Begin(r) ==
    /\ credits[r] = "none" /\ r \notin served /\ carriers[r] = {}
    /\ \/ credits' = [credits EXCEPT ![r] = "frozen"] /\ UNCHANGED served
       \/ served' = served \cup {r} /\ UNCHANGED credits
    /\ \E S \in {{}, {"handler"}} : Carry(r, S)
    /\ UNCHANGED price

Serve(r) ==
    /\ "handler" \in carriers[r] /\ r \notin served
    /\ served' = served \cup {r}
    /\ Carry(r, carriers[r])
    /\ UNCHANGED <<credits, price>>

GiveBack(r) ==
    /\ carriers[r] = {"handler"} /\ r \notin served
    /\ credits' = [credits EXCEPT ![r] = "released"]
    /\ Carry(r, {})
    /\ UNCHANGED <<price, served>>

\* the record of a request that was served reaches the ledger, perhaps by the
\* hand of somebody who repairs a loss
Charge(r) ==
    /\ r \in served /\ price[r] = Unbilled
    /\ \E p \in Prices : price' = [price EXCEPT ![r] = p]
    /\ credits' = [credits EXCEPT ![r] = IF @ = "frozen" THEN "settled" ELSE @]
    /\ \E S \in SUBSET carriers[r] : Carry(r, S)
    /\ UNCHANGED served

\* a carrier leaves, or the handler of a request that was served hands it on
Pass(r) ==
    /\ carriers[r] # {}
    /\ \E S \in SUBSET (carriers[r] \cup {"message"}) :
        /\ "message" \in S \ carriers[r] => "handler" \in carriers[r] /\ r \in served
        /\ Carry(r, S)
    /\ UNCHANGED <<credits, price, served>>

Next == \E r \in Requests :
    Begin(r) \/ Serve(r) \/ GiveBack(r) \/ Charge(r) \/ Pass(r)

Spec == Init /\ [][Next]_<<credits, price, served, carriers, lost>>
=============================================================================

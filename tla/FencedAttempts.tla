--------------------------- MODULE FencedAttempts ---------------------------
(***************************************************************************)
(* What the job runtime promises about attempts: each is granted to one    *)
(* worker and numbered in order; while it is the last one of its job its   *)
(* worker, and nobody else, may record its outcome, once; when it is not   *)
(* the last one any more its outcome is never recorded.  A worker only     *)
(* loses an attempt to a later one, or by dying.                           *)
(***************************************************************************)
EXTENDS Naturals, Sequences

CONSTANTS Workers, Jobs,
          Outcomes   \* how an attempt may end

VARIABLES attempts,  \* per job its attempts in order: "running" or the outcome
          granted,   \* the attempts each worker has been granted and not ended
          deaths     \* how often a worker died

Latest(a) == a.attempt = Len(attempts[a.job])

Init ==
    /\ attempts = [j \in Jobs |-> <<>>]
    /\ granted = [w \in Workers |-> {}]
    /\ deaths = 0

\* a worker without attempts is granted the next one of some jobs
Grant(w, S) ==
    /\ granted[w] = {}
    /\ attempts' = [j \in Jobs |->
                      IF j \in S THEN Append(attempts[j], "running") ELSE attempts[j]]
    /\ granted' = [granted EXCEPT ![w] =
                     {[job |-> j, attempt |-> Len(attempts[j]) + 1] : j \in S}]
    /\ UNCHANGED deaths

Decide(w, a, outcome) ==
    /\ Latest(a)
    /\ attempts[a.job][a.attempt] = "running"
    /\ attempts' = [attempts EXCEPT ![a.job][a.attempt] = outcome]
    /\ granted' = [granted EXCEPT ![w] = @ \ {a}]
    /\ UNCHANGED deaths

Lose(w, a) ==
    /\ ~Latest(a)
    /\ granted' = [granted EXCEPT ![w] = @ \ {a}]
    /\ UNCHANGED <<attempts, deaths>>

Die(w) ==
    /\ deaths' = deaths + 1
    /\ granted' = [granted EXCEPT ![w] = {}]
    /\ UNCHANGED attempts

Next == \E w \in Workers :
    \/ \E S \in SUBSET Jobs : Grant(w, S)
    \/ \E a \in granted[w] : Lose(w, a) \/ \E outcome \in Outcomes : Decide(w, a, outcome)
    \/ Die(w)

Spec == Init /\ [][Next]_<<attempts, granted, deaths>>
=============================================================================

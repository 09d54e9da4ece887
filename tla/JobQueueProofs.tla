--------------------------- MODULE JobQueueProofs ---------------------------
(***************************************************************************)
(* TLAPS proofs about JobQueue, for any sets of operations, jobs and       *)
(* workers, any max_attempts and both settings of AtomicClaim.             *)
(***************************************************************************)
EXTENDS JobQueue, SequenceTheorems, TLAPS

-----------------------------------------------------------------------------
(* The inductive invariant: the properties of JobQueue strengthen one      *)
(* another.  A fresh token is new because claims refer to recorded         *)
(* attempts only; the fence is sound because a lease is the token of the   *)
(* last attempt; and the outcome lands in the right row because that       *)
(* attempt is still open.                                                  *)
Inv ==
    /\ TypeOK
    /\ LeaseWhileRunning
    /\ ClaimsAreUnique
    /\ ClaimsAreRecorded
    /\ JobAgreesWithLastRun
    /\ FailedIsDeadLettered

\* What the three finishing calls have in common: the fence holds, the
\* outcome is recorded, the claim is dropped, a failure is dead-lettered.
LEMMA FinishShape ==
    ASSUME TypeOK, NEW w \in Workers, NEW c \in held[w], Finish(w, c)
    PROVE  /\ HoldsLease(c)
           /\ Drop(w, c)
           /\ UNCHANGED <<opOf, scan, retries, abandons>>
           /\ op' \in [Ops -> OpStatus]
           /\ dlq \subseteq dlq' /\ dlq' \subseteq Jobs
           /\ \E status \in RunStatus \ {"running"} :
                /\ Record(c, status)
                /\ status = "failed" => c.job \in dlq'
<1>0. c.job \in Jobs
  BY DEF TypeOK, Claim
<1>1. CASE Complete(w, c)
  <2>1. PICK status \in {"succeeded", "partially_succeeded"} :
          Record(c, status) /\ op' = [op EXCEPT ![opOf[c.job]] = status]
    BY <1>1 DEF Complete
  <2>2. op' \in [Ops -> OpStatus]
    BY <2>1 DEF TypeOK, OpStatus, TerminalOperationStates
  <2>3. status \in RunStatus \ {"running"} /\ status # "failed"
    BY DEF RunStatus, Finished
  <2>4. dlq' = dlq /\ dlq \subseteq Jobs
    BY <1>1 DEF Complete, TypeOK
  <2> QED BY <1>1, <2>1, <2>2, <2>3, <2>4 DEF Complete
<1>2. CASE CancelClaimed(w, c)
  <2>1. op' \in [Ops -> OpStatus]
    BY <1>2 DEF CancelClaimed, TypeOK, OpStatus, TerminalOperationStates
  <2>2. "cancelled" \in RunStatus \ {"running"} /\ "cancelled" # "failed"
    BY DEF RunStatus, Finished
  <2>3. dlq' = dlq /\ dlq \subseteq Jobs
    BY <1>2 DEF CancelClaimed, TypeOK
  <2> QED BY <1>2, <2>1, <2>2, <2>3 DEF CancelClaimed
<1>3. CASE Fail(w, c)
  <2> DEFINE retry == Retryable /\ c.attempt < MaxAttempts
             status == IF retry THEN "retry_wait" ELSE "failed"
  <2>1. /\ Record(c, status)
        /\ op' = [op EXCEPT ![opOf[c.job]] = status]
        /\ dlq' = IF retry THEN dlq ELSE dlq \cup {c.job}
    BY <1>3 DEF Fail
  <2>2. status \in RunStatus \ {"running"} /\ (status = "failed" => ~retry)
    BY DEF RunStatus, Finished
  <2>3. op' \in [Ops -> OpStatus]
    <3>1. status \in OpStatus
      BY DEF OpStatus, OperationTransitions, TerminalOperationStates
    <3> QED BY <2>1, <3>1 DEF TypeOK
  <2>4. dlq \subseteq dlq' /\ dlq' \subseteq Jobs /\ (status = "failed" => c.job \in dlq')
    BY <1>0, <2>1, <2>2 DEF TypeOK
  <2> HIDE DEF status
  <2> QED BY <1>3, <2>1, <2>2, <2>3, <2>4 DEF Fail
<1> QED BY <1>1, <1>2, <1>3 DEF Finish

-----------------------------------------------------------------------------
(* The invariant is preserved, handler by handler. *)

\* submit_operation and retry_job touch a job row that did not exist.
LEMMA NewJobInv ==
    ASSUME Inv, NEW j \in Jobs, job[j] = "none",
           job' = [job EXCEPT ![j] = "queued"],
           opOf' \in [Jobs -> Ops \cup {NoOp}],
           op' \in [Ops -> OpStatus],
           retries' \in Nat,
           UNCHANGED <<lease, run, dlq, scan, held, abandons>>
    PROVE  Inv'
<1>1. TypeOK'
  BY DEF Inv, TypeOK, JobStatus
<1>2. LeaseWhileRunning'
  BY DEF Inv, TypeOK, LeaseWhileRunning, AttemptCount
<1>3. ClaimsAreUnique' /\ ClaimsAreRecorded'
  BY DEF Inv, ClaimsAreUnique, ClaimsAreRecorded, AttemptCount
<1>4. JobAgreesWithLastRun'
  BY DEF Inv, TypeOK, JobAgreesWithLastRun, AttemptCount, Finished
<1>5. FailedIsDeadLettered'
  BY DEF Inv, TypeOK, FailedIsDeadLettered
<1> QED BY <1>1, <1>2, <1>3, <1>4, <1>5 DEF Inv

LEMMA SubmitInv ==
    ASSUME Inv, NEW o \in Ops, Submit(o)
    PROVE  Inv'
<1>1. PICK j \in Jobs : /\ job[j] = "none"
                        /\ op' = [op EXCEPT ![o] = "queued"]
                        /\ job' = [job EXCEPT ![j] = "queued"]
                        /\ opOf' = [opOf EXCEPT ![j] = o]
  BY DEF Submit
<1>2. op' \in [Ops -> OpStatus] /\ opOf' \in [Jobs -> Ops \cup {NoOp}]
  BY <1>1 DEF Inv, TypeOK, OpStatus, OperationTransitions
<1>3. retries' \in Nat /\ UNCHANGED <<lease, run, dlq, scan, held, abandons>>
  BY DEF Submit, Inv, TypeOK
<1> QED BY <1>1, <1>2, <1>3, NewJobInv

LEMMA RetryJobInv ==
    ASSUME Inv, NEW j \in Jobs, RetryJob(j)
    PROVE  Inv'
<1>1. PICK n \in Jobs : /\ job[n] = "none"
                        /\ job' = [job EXCEPT ![n] = "queued"]
                        /\ opOf' = [opOf EXCEPT ![n] = opOf[j]]
  BY DEF RetryJob
<1>2. op' \in [Ops -> OpStatus] /\ opOf' \in [Jobs -> Ops \cup {NoOp}]
  BY <1>1 DEF RetryJob, Inv, TypeOK, OpStatus, OperationTransitions
<1>3. retries' \in Nat /\ UNCHANGED <<lease, run, dlq, scan, held, abandons>>
  BY DEF RetryJob, Inv, TypeOK
<1> QED BY <1>1, <1>2, <1>3, NewJobInv

\* request_cancellation only touches jobs without a lease.
LEMMA RequestCancellationInv ==
    ASSUME Inv, NEW o \in Ops, RequestCancellation(o)
    PROVE  Inv'
<1>1. TypeOK'
  BY DEF Inv, TypeOK, RequestCancellation, CancelTarget, JobStatus, OpStatus,
         OperationTransitions, TerminalOperationStates
<1>2. LeaseWhileRunning'
  BY DEF Inv, TypeOK, LeaseWhileRunning, AttemptCount, RequestCancellation, Claimable
<1>3. ClaimsAreUnique' /\ ClaimsAreRecorded'
  BY DEF Inv, ClaimsAreUnique, ClaimsAreRecorded, AttemptCount, RequestCancellation
<1>4. JobAgreesWithLastRun'
  BY DEF Inv, TypeOK, JobAgreesWithLastRun, AttemptCount, RequestCancellation, Finished
<1>5. FailedIsDeadLettered'
  BY DEF Inv, TypeOK, FailedIsDeadLettered, RequestCancellation
<1> QED BY <1>1, <1>2, <1>3, <1>4, <1>5 DEF Inv

\* What a claim does to the attempts of the rows it takes and of the others.
LEMMA TakeAttempts ==
    ASSUME TypeOK, NEW w \in Workers, NEW S \in SUBSET Jobs, Take(w, S)
    PROVE  /\ run' \in [Jobs -> Seq(RunStatus)]
           /\ \A j \in S : /\ AttemptCount(j)' = AttemptCount(j) + 1
                          /\ run'[j][AttemptCount(j) + 1] = "running"
                          /\ AttemptCount(j) \in Nat
           /\ \A j \in Jobs \ S : run'[j] = run[j]
<1>1. ASSUME NEW j \in S
      PROVE  /\ run'[j] \in Seq(RunStatus)
             /\ Len(run'[j]) = Len(run[j]) + 1
             /\ run'[j][Len(run[j]) + 1] = "running"
             /\ Len(run[j]) \in Nat
  <2>1. run[j] \in Seq(RunStatus) /\ "running" \in RunStatus
    BY DEF TypeOK, RunStatus
  <2>2. run'[j] = Append(run[j], "running")
    BY DEF Take
  <2> QED BY <2>1, <2>2, AppendProperties, LenProperties
<1>2. \A j \in Jobs \ S : run'[j] = run[j]
  BY DEF Take
<1>3. run' \in [Jobs -> Seq(RunStatus)]
  <2>1. \A j \in Jobs : run'[j] \in Seq(RunStatus)
    BY <1>1, <1>2 DEF TypeOK
  <2> QED BY <2>1 DEF Take
<1> QED BY <1>1, <1>2, <1>3 DEF AttemptCount

LEMMA TakeInv ==
    ASSUME Inv, NEW w \in Workers, NEW S \in SUBSET Jobs, Take(w, S),
           scan' \in [Workers -> SUBSET Jobs]
    PROVE  Inv'
<1>0. TypeOK /\ \A j \in Jobs : AttemptCount(j) \in Nat
  BY LenProperties DEF Inv, TypeOK, AttemptCount
<1> DEFINE new == {[job |-> j, attempt |-> AttemptCount(j) + 1, phase |-> "waiting"] : j \in S}
<1>1. /\ held' = [held EXCEPT ![w] = new]
      /\ new \subseteq Claim
  BY <1>0 DEF Take, Claim, Phase
<1>2. TypeOK'
  <2>1. job' \in [Jobs -> JobStatus] /\ op' \in [Ops -> OpStatus] /\ lease' \in [Jobs -> Nat]
    BY <1>0 DEF Take, TypeOK, JobStatus, OpStatus, OperationTransitions
  <2>2. held' \in [Workers -> SUBSET Claim]
    BY <1>0, <1>1 DEF TypeOK
  <2> QED BY <1>0, <2>1, <2>2, TakeAttempts DEF Take, TypeOK
<1>3. LeaseWhileRunning'
  BY <1>0, TakeAttempts DEF Inv, TypeOK, LeaseWhileRunning, AttemptCount, Take
<1>4. ClaimsAreRecorded'
  <2>1. ASSUME NEW v \in Workers, NEW c \in held'[v]
        PROVE  c.attempt <= AttemptCount(c.job)'
    <3>1. \A j \in Jobs : AttemptCount(j) <= AttemptCount(j)'
      BY <1>0, TakeAttempts DEF AttemptCount
    <3>2. CASE c \in new
      BY <1>0, <3>2, TakeAttempts
    <3>3. CASE c \in held[v]
      <4>1. c \in Claim /\ c.attempt <= AttemptCount(c.job)
        BY <1>0, <3>3 DEF Inv, TypeOK, ClaimsAreRecorded
      <4> QED BY <1>0, <3>1, <4>1, TakeAttempts DEF Claim, AttemptCount
    <3> QED BY <1>0, <1>1, <3>2, <3>3 DEF TypeOK
  <2> QED BY <2>1 DEF ClaimsAreRecorded
<1>5. ClaimsAreUnique'
  <2>1. ASSUME NEW v \in Workers, NEW c \in held[v], NEW d \in new
        PROVE  ~(c.job = d.job /\ c.attempt = d.attempt)
    <3>1. c \in Claim /\ c.attempt <= AttemptCount(c.job)
      BY <1>0 DEF Inv, TypeOK, ClaimsAreRecorded
    <3>2. d.attempt = AttemptCount(d.job) + 1
      OBVIOUS
    <3> QED BY <1>0, <3>1, <3>2 DEF Claim
  <2>2. ASSUME NEW c \in new, NEW d \in new, c.job = d.job
        PROVE  c = d
    BY <2>2
  <2>3. ASSUME NEW u \in Workers, NEW v \in Workers, NEW c \in held'[u], NEW d \in held'[v],
               c.job = d.job, c.attempt = d.attempt
        PROVE  u = v /\ c = d
    <3>1. CASE u = w /\ v = w
      BY <1>0, <1>1, <2>2, <2>3, <3>1 DEF TypeOK
    <3>2. CASE u # w /\ v # w
      BY <1>0, <1>1, <2>3, <3>2 DEF Inv, TypeOK, ClaimsAreUnique
    <3>3. CASE u = w /\ v # w
      BY <1>0, <1>1, <2>1, <2>3, <3>3 DEF TypeOK
    <3>4. CASE u # w /\ v = w
      BY <1>0, <1>1, <2>1, <2>3, <3>4 DEF TypeOK
    <3> QED BY <3>1, <3>2, <3>3, <3>4
  <2> QED BY <2>3 DEF ClaimsAreUnique
<1>6. JobAgreesWithLastRun'
  <2>1. ASSUME NEW j \in Jobs, job'[j] \in {"running", "retry_wait"} \cup Finished
        PROVE  run'[j] # <<>> /\ run'[j][AttemptCount(j)'] = job'[j]
    <3>1. CASE j \in S
      <4>1. job'[j] = "running" /\ Len(run'[j]) = AttemptCount(j) + 1
            /\ run'[j][AttemptCount(j) + 1] = "running"
        BY <1>0, <3>1, TakeAttempts DEF Take, AttemptCount
      <4>2. run'[j] # <<>>
        BY <1>0, <4>1, EmptySeq
      <4> QED BY <1>0, <4>1, <4>2 DEF AttemptCount
    <3>2. CASE j \notin S
      BY <1>0, <2>1, <3>2, TakeAttempts DEF Inv, Take, AttemptCount, JobAgreesWithLastRun
    <3> QED BY <3>1, <3>2
  <2> QED BY <2>1 DEF JobAgreesWithLastRun
<1>7. FailedIsDeadLettered'
  BY DEF Inv, TypeOK, FailedIsDeadLettered, Take
<1> QED BY <1>2, <1>3, <1>4, <1>5, <1>6, <1>7 DEF Inv

\* Behind the fence, the attempt a finishing call writes to is the last one
\* of its job and still open.
LEMMA FencedAttempt ==
    ASSUME Inv, NEW w \in Workers, NEW c \in held[w], HoldsLease(c)
    PROVE  /\ c.job \in Jobs
           /\ job[c.job] = "running"
           /\ c.attempt = AttemptCount(c.job)
           /\ c.attempt \in 1..Len(run[c.job])
           /\ run[c.job][c.attempt] = "running"
<1>1. c.job \in Jobs /\ c.attempt \in Nat \ {0}
  BY DEF Inv, TypeOK, Claim
<1>2. job[c.job] = "running" /\ c.attempt = AttemptCount(c.job)
  BY <1>1 DEF Inv, HoldsLease, LeaseWhileRunning
<1>3. c.attempt \in 1..Len(run[c.job])
  BY <1>1, <1>2 DEF AttemptCount
<1>4. run[c.job][c.attempt] = "running"
  BY <1>1, <1>2 DEF Inv, JobAgreesWithLastRun
<1> QED BY <1>1, <1>2, <1>3, <1>4

\* Recording an outcome overwrites that one element.
LEMMA RecordRun ==
    ASSUME Inv, NEW w \in Workers, NEW c \in held[w], HoldsLease(c),
           NEW status \in RunStatus, Record(c, status)
    PROVE  /\ run' \in [Jobs -> Seq(RunStatus)]
           /\ \A j \in Jobs :
                /\ AttemptCount(j)' = AttemptCount(j)
                /\ \A k \in 1..AttemptCount(j) :
                     run'[j][k] = IF j = c.job /\ k = c.attempt THEN status ELSE run[j][k]
<1>1. /\ c.job \in Jobs /\ c.attempt \in 1..Len(run[c.job])
      /\ run \in [Jobs -> Seq(RunStatus)]
  BY FencedAttempt DEF Inv, TypeOK
<1>2. run' = [run EXCEPT ![c.job] = [run[c.job] EXCEPT ![c.attempt] = status]]
  BY <1>1 DEF Record
<1>3. /\ run'[c.job] \in Seq(RunStatus)
      /\ Len(run'[c.job]) = Len(run[c.job])
      /\ \A k \in 1..Len(run[c.job]) :
           run'[c.job][k] = IF k = c.attempt THEN status ELSE run[c.job][k]
  BY <1>1, <1>2, ExceptSeq
<1>4. \A j \in Jobs : j # c.job => run'[j] = run[j]
  BY <1>1, <1>2
<1>5. run' \in [Jobs -> Seq(RunStatus)]
  BY <1>1, <1>2, <1>3
<1> QED BY <1>3, <1>4, <1>5 DEF AttemptCount

LEMMA FinishInv ==
    ASSUME Inv, NEW w \in Workers, NEW c \in held[w], Finish(w, c)
    PROVE  Inv'
<1>1. PICK status \in RunStatus \ {"running"} :
        Record(c, status) /\ (status = "failed" => c.job \in dlq')
  BY FinishShape DEF Inv
<1>2. /\ HoldsLease(c)
      /\ held' = [held EXCEPT ![w] = @ \ {c}]
      /\ UNCHANGED <<opOf, scan, retries, abandons>>
      /\ op' \in [Ops -> OpStatus]
      /\ dlq \subseteq dlq' /\ dlq' \subseteq Jobs
  BY FinishShape DEF Inv, Drop
<1>3. /\ job' = [job EXCEPT ![c.job] = status]
      /\ lease' = [lease EXCEPT ![c.job] = 0]
      /\ c.job \in Jobs /\ c.attempt = AttemptCount(c.job)
      /\ c.attempt \in 1..AttemptCount(c.job)
  BY <1>1, <1>2, FencedAttempt DEF Record, AttemptCount
<1>4. /\ run' \in [Jobs -> Seq(RunStatus)]
      /\ \A j \in Jobs :
           /\ AttemptCount(j)' = AttemptCount(j)
           /\ \A k \in 1..AttemptCount(j) :
                run'[j][k] = IF j = c.job /\ k = c.attempt THEN status ELSE run[j][k]
  BY <1>1, <1>2, RecordRun
<1>5. TypeOK'
  <2>1. job' \in [Jobs -> JobStatus]
    BY <1>3 DEF Inv, TypeOK, JobStatus, RunStatus
  <2>2. held' \in [Workers -> SUBSET Claim]
    BY <1>2 DEF Inv, TypeOK
  <2>3. lease' \in [Jobs -> Nat]
    BY <1>3 DEF Inv, TypeOK
  <2> QED BY <1>2, <1>4, <2>1, <2>2, <2>3 DEF Inv, TypeOK
<1>6. LeaseWhileRunning'
  <2>1. ASSUME NEW j \in Jobs
        PROVE  /\ (lease'[j] # 0) <=> (job'[j] = "running")
               /\ lease'[j] # 0 => lease'[j] = AttemptCount(j)'
    BY <1>3, <1>4 DEF Inv, TypeOK, LeaseWhileRunning
  <2> QED BY <2>1 DEF LeaseWhileRunning
<1>7. ClaimsAreUnique'
  BY <1>2 DEF Inv, TypeOK, ClaimsAreUnique
<1>8. ClaimsAreRecorded'
  BY <1>2, <1>4 DEF Inv, TypeOK, ClaimsAreRecorded, Claim
<1>9. JobAgreesWithLastRun'
  <2>1. ASSUME NEW j \in Jobs, job'[j] \in {"running", "retry_wait"} \cup Finished
        PROVE  run'[j] # <<>> /\ run'[j][AttemptCount(j)'] = job'[j]
    <3>1. run[j] # <<>> /\ (j # c.job => run[j][AttemptCount(j)] = job[j])
      BY <1>3, <2>1, EmptySeq DEF Inv, TypeOK, JobAgreesWithLastRun, AttemptCount
    <3>2. AttemptCount(j) \in Nat \ {0}
      BY <3>1, EmptySeq DEF Inv, TypeOK, AttemptCount
    <3>3. run'[j] # <<>>
      BY <1>4, <3>2, EmptySeq DEF AttemptCount
    <3>4. AttemptCount(j)' = AttemptCount(j) /\ AttemptCount(j) \in 1..AttemptCount(j)
      BY <1>4, <3>2
    <3>5. CASE j = c.job
      BY <1>3, <1>4, <3>3, <3>4, <3>5 DEF Inv, TypeOK
    <3>6. CASE j # c.job
      BY <1>3, <1>4, <3>1, <3>3, <3>4, <3>6 DEF Inv, TypeOK
    <3> QED BY <3>5, <3>6
  <2> QED BY <2>1 DEF JobAgreesWithLastRun
<1>10. FailedIsDeadLettered'
  BY <1>1, <1>2, <1>3 DEF Inv, TypeOK, FailedIsDeadLettered
<1> QED BY <1>5, <1>6, <1>7, <1>8, <1>9, <1>10 DEF Inv

\* Steps that only move claims and selected rows: the phase of one claim
\* changes, or claims disappear.
LEMMA ControlInv ==
    ASSUME Inv, UNCHANGED rows, held' \in [Workers -> SUBSET Claim],
           scan' \in [Workers -> SUBSET Jobs], retries' \in Nat, abandons' \in Nat,
           ClaimsAreUnique', ClaimsAreRecorded'
    PROVE  Inv'
BY DEF Inv, TypeOK, rows, LeaseWhileRunning, JobAgreesWithLastRun, FailedIsDeadLettered,
       AttemptCount

LEMMA PhaseInv ==
    ASSUME Inv, NEW w \in Workers, NEW c \in held[w], NEW phase \in Phase,
           held' = [held EXCEPT ![w] = (@ \ {c}) \cup {[c EXCEPT !.phase = phase]}],
           UNCHANGED <<rows, scan, retries, abandons>>
    PROVE  Inv'
<1> DEFINE d == [c EXCEPT !.phase = phase]
<1>1. c \in Claim /\ d \in Claim /\ d.job = c.job /\ d.attempt = c.attempt
  <2>1. c \in Claim
    BY DEF Inv, TypeOK
  <2> QED BY <2>1 DEF Claim
<1>2. held' \in [Workers -> SUBSET Claim]
  BY <1>1 DEF Inv, TypeOK
<1>3. ClaimsAreRecorded'
  BY <1>1 DEF Inv, TypeOK, ClaimsAreRecorded, AttemptCount, rows
<1>4. ClaimsAreUnique'
  <2> HIDE DEF d
  <2>1. \A v \in Workers : held'[v] = IF v = w THEN (held[w] \ {c}) \cup {d} ELSE held[v]
    BY DEF Inv, TypeOK, d
  <2> QED BY <1>1, <2>1 DEF Inv, ClaimsAreUnique
<1> QED BY <1>2, <1>3, <1>4, ControlInv DEF Inv, TypeOK

LEMMA WorkerStepInv ==
    ASSUME Inv, NEW w \in Workers, WorkerStep(w)
    PROVE  Inv'
<1>1. CASE ClaimNow(w)
  <2>1. PICK S \in Batches : Take(w, S)
    BY <1>1 DEF ClaimNow
  <2> QED BY <1>1, <2>1, TakeInv DEF ClaimNow, Batches, Inv, TypeOK
<1>2. CASE ClaimScan(w)
  <2>1. scan' \in [Workers -> SUBSET Jobs]
    BY <1>2 DEF ClaimScan, Batches, Inv, TypeOK
  <2>2. ClaimsAreUnique' /\ ClaimsAreRecorded'
    BY <1>2 DEF ClaimScan, Inv, ClaimsAreUnique, ClaimsAreRecorded, AttemptCount, rows
  <2> QED BY <1>2, <2>1, <2>2, ControlInv DEF ClaimScan, Inv, TypeOK
<1>3. CASE ClaimLock(w)
  BY <1>3, TakeInv DEF ClaimLock, Inv, TypeOK
<1>4. ASSUME NEW c \in held[w], Start(w, c)
      PROVE  Inv'
  BY <1>4, PhaseInv DEF Start, Phase
<1>5. ASSUME NEW c \in held[w], ObserveCancel(w, c)
      PROVE  Inv'
  BY <1>5, PhaseInv DEF ObserveCancel, Phase
<1>6. ASSUME NEW c \in held[w], LeaseLost(w, c)
      PROVE  Inv'
  <2>1. held' \in [Workers -> SUBSET Claim] /\ \A v \in Workers : held'[v] \subseteq held[v]
    BY <1>6 DEF LeaseLost, Drop, Inv, TypeOK
  <2>2. ClaimsAreUnique' /\ ClaimsAreRecorded'
    BY <1>6, <2>1 DEF LeaseLost, Inv, ClaimsAreUnique, ClaimsAreRecorded, AttemptCount, rows
  <2> QED BY <1>6, <2>1, <2>2, ControlInv DEF LeaseLost, Inv, TypeOK
<1> QED BY <1>1, <1>2, <1>3, <1>4, <1>5, <1>6, FinishInv DEF WorkerStep

LEMMA AbandonInv ==
    ASSUME Inv, NEW w \in Workers, Abandon(w)
    PROVE  Inv'
<1>1. /\ held' \in [Workers -> SUBSET Claim] /\ \A v \in Workers : held'[v] \subseteq held[v]
      /\ scan' \in [Workers -> SUBSET Jobs]
      /\ retries' \in Nat /\ abandons' \in Nat
  BY DEF Abandon, Inv, TypeOK
<1>2. ClaimsAreUnique' /\ ClaimsAreRecorded'
  BY <1>1 DEF Abandon, Inv, ClaimsAreUnique, ClaimsAreRecorded, AttemptCount, rows
<1> QED BY <1>1, <1>2, ControlInv DEF Abandon

LEMMA InitInv == Init => Inv
<1> SUFFICES ASSUME Init PROVE Inv
  OBVIOUS
<1>1. TypeOK
  BY EmptySeq DEF Init, TypeOK, OpStatus, JobStatus
<1> QED BY <1>1 DEF Init, Inv, LeaseWhileRunning, ClaimsAreUnique, ClaimsAreRecorded,
                    JobAgreesWithLastRun, FailedIsDeadLettered, Finished

LEMMA NextInv == Inv /\ [Next]_vars => Inv'
<1> SUFFICES ASSUME Inv, [Next]_vars PROVE Inv'
  OBVIOUS
<1>1. CASE UNCHANGED vars
  BY <1>1 DEF vars, Inv, TypeOK, LeaseWhileRunning, ClaimsAreUnique, ClaimsAreRecorded,
              JobAgreesWithLastRun, FailedIsDeadLettered, AttemptCount
<1>2. CASE Next
  BY <1>2, SubmitInv, RequestCancellationInv, RetryJobInv, WorkerStepInv, AbandonInv DEF Next
<1> QED BY <1>1, <1>2

-----------------------------------------------------------------------------
(* Theorems *)

\* The inductive invariant holds of every behaviour of the job runtime.
THEOREM Invariance == Spec => []Inv
BY InitInv, NextInv, PTL DEF Spec

\* Every variable keeps its type.
THEOREM TypeCorrect == Spec => []TypeOK
<1>1. Inv => TypeOK
  BY DEF Inv
<1> QED BY <1>1, Invariance, PTL

\* The lease of a job is held exactly while it runs, by its last attempt.
THEOREM LeaseCorrect == Spec => []LeaseWhileRunning
<1>1. Inv => LeaseWhileRunning
  BY DEF Inv
<1> QED BY <1>1, Invariance, PTL

\* No two claims carry the same token, even through stale claims.
THEOREM UniqueClaims == Spec => []ClaimsAreUnique
<1>1. Inv => ClaimsAreUnique
  BY DEF Inv
<1> QED BY <1>1, Invariance, PTL

\* The job row and the row of its last attempt agree.
THEOREM JobAndRunAgree == Spec => []JobAgreesWithLastRun
<1>1. Inv => JobAgreesWithLastRun
  BY DEF Inv
<1> QED BY <1>1, Invariance, PTL

\* Every failed job has a dead letter.
THEOREM FailuresAreDeadLettered == Spec => []FailedIsDeadLettered
<1>1. Inv => FailedIsDeadLettered
  BY DEF Inv
<1> QED BY <1>1, Invariance, PTL

\* An outcome is written behind the fence, to an attempt that is still open;
\* a claim appends to the history; nothing else touches it.
THEOREM RunOutcomesAreFinal == Spec => RunOutcomeIsFinal
<1> DEFINE Final == \A j \in Jobs : \A k \in 1..AttemptCount(j) :
        run[j][k] # "running" => k \in DOMAIN run'[j] /\ run'[j][k] = run[j][k]
<1>1. ASSUME Inv, [Next]_vars
      PROVE  Final
  <2>0. \A j \in Jobs : DOMAIN run[j] = 1..AttemptCount(j) /\ AttemptCount(j) \in Nat
    BY <1>1, LenProperties DEF Inv, TypeOK, AttemptCount
  <2>1. CASE UNCHANGED run
    BY <2>0, <2>1
  <2>2. ASSUME NEW w \in Workers, NEW S \in SUBSET Jobs, Take(w, S)
        PROVE  Final
    <3> SUFFICES ASSUME NEW j \in Jobs, NEW k \in 1..AttemptCount(j)
                 PROVE  k \in DOMAIN run'[j] /\ run'[j][k] = run[j][k]
      OBVIOUS
    <3>1. CASE j \in S
      <4>1. run[j] \in Seq(RunStatus) /\ "running" \in RunStatus
        BY <1>1 DEF Inv, TypeOK, RunStatus
      <4>2. run'[j] = Append(run[j], "running")
        BY <2>2, <3>1 DEF Take
      <4> QED BY <4>1, <4>2, AppendProperties, LenProperties DEF AttemptCount
    <3>2. CASE j \notin S
      BY <2>0, <2>2, <3>2 DEF Take
    <3> QED BY <3>1, <3>2
  <2>3. ASSUME NEW w \in Workers, NEW c \in held[w], Finish(w, c)
        PROVE  Final
    <3>1. PICK status \in RunStatus : Record(c, status)
      BY <1>1, <2>3, FinishShape DEF Inv
    <3>2. HoldsLease(c) /\ run[c.job][c.attempt] = "running"
      BY <1>1, <2>3, FinishShape, FencedAttempt DEF Inv
    <3>3. /\ run' \in [Jobs -> Seq(RunStatus)]
          /\ \A j \in Jobs :
               /\ AttemptCount(j)' = AttemptCount(j)
               /\ \A k \in 1..AttemptCount(j) :
                    run'[j][k] = IF j = c.job /\ k = c.attempt THEN status ELSE run[j][k]
      BY <1>1, <3>1, <3>2, RecordRun
    <3>4. \A j \in Jobs : DOMAIN run'[j] = 1..AttemptCount(j)
      BY <3>3, LenProperties DEF AttemptCount
    <3> QED BY <3>2, <3>3, <3>4
  <2>4. CASE UNCHANGED vars
    BY <2>1, <2>4 DEF vars
  <2>5. ASSUME NEW w \in Workers, WorkerStep(w)
        PROVE  Final
    <3>1. CASE ClaimNow(w)
      BY <2>2, <3>1 DEF ClaimNow, Batches
    <3>2. CASE ClaimLock(w)
      BY <1>1, <2>2, <3>2 DEF ClaimLock, Inv, TypeOK
    <3>3. CASE \E c \in held[w] : Finish(w, c)
      BY <2>3, <3>3
    <3>4. CASE ClaimScan(w) \/ \E c \in held[w] : Start(w, c) \/ ObserveCancel(w, c) \/ LeaseLost(w, c)
      BY <2>1, <3>4 DEF ClaimScan, Start, ObserveCancel, LeaseLost, rows
    <3> QED BY <2>5, <3>1, <3>2, <3>3, <3>4 DEF WorkerStep
  <2>6. CASE \/ \E o \in Ops : Submit(o) \/ RequestCancellation(o)
             \/ \E j \in Jobs : RetryJob(j)
             \/ \E w \in Workers : Abandon(w)
    BY <2>1, <2>6 DEF Submit, RequestCancellation, RetryJob, Abandon, rows
  <2> QED BY <1>1, <2>4, <2>5, <2>6 DEF Next
<1>2. ASSUME Inv, [Next]_vars
      PROVE  [Final]_vars
  BY <1>1, <1>2
<1> QED BY <1>2, Invariance, PTL DEF Spec, RunOutcomeIsFinal

\* Only the worker that passes the fence ends a running job.
THEOREM HolderFinishes == Spec => OnlyHolderFinishes
<1> DEFINE ByHolder == \A j \in Jobs : job[j] = "running" /\ job'[j] # "running" =>
        \E w \in Workers : \E c \in held[w] :
            c.job = j /\ c.attempt = AttemptCount(j) /\ c \notin held'[w]
<1>1. ASSUME Inv, [Next]_vars
      PROVE  ByHolder
  <2> SUFFICES ASSUME NEW j \in Jobs, job[j] = "running", job'[j] # "running"
               PROVE  \E w \in Workers : \E c \in held[w] :
                        c.job = j /\ c.attempt = AttemptCount(j) /\ c \notin held'[w]
    OBVIOUS
  <2>0. PICK w \in Workers : \E c \in held[w] : Finish(w, c)
    <3>1. ASSUME NEW o \in Ops, Submit(o) \/ RequestCancellation(o)
          PROVE  FALSE
      BY <1>1, <3>1 DEF Submit, RequestCancellation, Claimable, Inv, TypeOK
    <3>2. ASSUME NEW i \in Jobs, RetryJob(i)
          PROVE  FALSE
      BY <1>1, <3>2 DEF RetryJob, Inv, TypeOK
    <3>3. ASSUME NEW v \in Workers, \/ ClaimNow(v) \/ ClaimScan(v) \/ ClaimLock(v) \/ Abandon(v)
                                    \/ \E d \in held[v] : \/ Start(v, d) \/ ObserveCancel(v, d)
                                                          \/ LeaseLost(v, d)
          PROVE  FALSE
      BY <3>3 DEF ClaimNow, ClaimScan, ClaimLock, Abandon, Start, ObserveCancel, LeaseLost,
                  Take, rows
    <3>4. CASE UNCHANGED vars
      BY <3>4 DEF vars
    <3> QED BY <1>1, <3>1, <3>2, <3>3, <3>4 DEF Next, WorkerStep
  <2>1. PICK c \in held[w] : Finish(w, c)
    BY <2>0
  <2>2. /\ HoldsLease(c)
        /\ held' = [held EXCEPT ![w] = @ \ {c}]
        /\ \E status \in RunStatus : job' = [job EXCEPT ![c.job] = status]
    BY <1>1, <2>1, FinishShape DEF Inv, Record, Drop
  <2>3. c.job = j
    BY <1>1, <2>2 DEF Inv, TypeOK
  <2>4. c.attempt = AttemptCount(j) /\ c \notin held'[w]
    BY <1>1, <2>2, <2>3, FencedAttempt DEF Inv, TypeOK
  <2> QED BY <2>3, <2>4
<1>2. ASSUME Inv, [Next]_vars
      PROVE  [ByHolder]_vars
  BY <1>1, <1>2
<1> QED BY <1>2, Invariance, PTL DEF Spec, OnlyHolderFinishes

-----------------------------------------------------------------------------
(* No operation is left behind. *)

\* Its jobs agree with it: one can be claimed, or one is running.
OpenOperationHasJob == \A o \in Ops :
    /\ op[o] \in {"queued", "retry_wait"} => \E j \in JobsOf(o) : Claimable(j)
    /\ op[o] \in {"running", "cancel_requested"} => \E j \in JobsOf(o) : job[j] = "running"

\* What a finishing call does to the job row and the operation row.
LEMMA FinishOutcome ==
    ASSUME TypeOK, NEW w \in Workers, NEW c \in held[w], Finish(w, c)
    PROVE  \E status \in RunStatus \ {"running"} :
             /\ job' = [job EXCEPT ![c.job] = status]
             /\ \/ op' = [op EXCEPT ![opOf[c.job]] = status]
                \/ op' = op /\ op[opOf[c.job]] \in Finished \cup {"cancelled"}
<1>1. CASE Complete(w, c)
  <2>1. PICK s \in {"succeeded", "partially_succeeded"} :
          Record(c, s) /\ op' = [op EXCEPT ![opOf[c.job]] = s]
    BY <1>1 DEF Complete
  <2>2. s \in RunStatus \ {"running"}
    BY DEF RunStatus, Finished
  <2> QED BY <2>1, <2>2 DEF Record
<1>2. CASE CancelClaimed(w, c)
  <2>1. "cancelled" \in RunStatus \ {"running"}
    BY DEF RunStatus, Finished
  <2> QED BY <1>2, <2>1 DEF CancelClaimed, Record
<1>3. CASE Fail(w, c)
  <2>1. PICK s \in {"retry_wait", "failed"} :
          Record(c, s) /\ op' = [op EXCEPT ![opOf[c.job]] = s]
    BY <1>3 DEF Fail
  <2>2. s \in RunStatus \ {"running"}
    BY DEF RunStatus, Finished
  <2> QED BY <2>1, <2>2 DEF Record
<1> QED BY <1>1, <1>2, <1>3 DEF Finish

\* what OpenOperationHasJob says of one operation
HasJob(o) ==
    /\ op[o] \in {"queued", "retry_wait"} => \E j \in JobsOf(o) : Claimable(j)
    /\ op[o] \in {"running", "cancel_requested"} => \E j \in JobsOf(o) : job[j] = "running"

LEMMA FinishHasJob ==
    ASSUME Inv, OpenOperationHasJob, NEW w \in Workers, NEW c \in held[w], Finish(w, c)
    PROVE  OpenOperationHasJob'
<1>1. /\ c.job \in Jobs
      /\ opOf' = opOf
      /\ op \in [Ops -> OpStatus] /\ job \in [Jobs -> JobStatus]
  BY FinishShape, FencedAttempt DEF Inv, TypeOK
<1>2. PICK status \in RunStatus \ {"running"} :
        /\ job' = [job EXCEPT ![c.job] = status]
        /\ \/ op' = [op EXCEPT ![opOf[c.job]] = status]
           \/ op' = op /\ op[opOf[c.job]] \in Finished \cup {"cancelled"}
  BY FinishOutcome DEF Inv
<1>3. ASSUME NEW o \in Ops
      PROVE  HasJob(o)'
  <2>1. HasJob(o)
    BY DEF HasJob, OpenOperationHasJob
  <2>2. CASE o # opOf[c.job]
    <3>1. op'[o] = op[o]
      BY <1>1, <1>2, <2>2
    <3>2. \A j \in Jobs : opOf[j] = o => job'[j] = job[j]
      BY <1>1, <1>2, <2>2
    <3> QED BY <1>1, <2>1, <3>1, <3>2 DEF HasJob, JobsOf, Claimable
  <2>3. CASE o = opOf[c.job] /\ op' = [op EXCEPT ![opOf[c.job]] = status]
    <3>1. op'[o] = status /\ job'[c.job] = status
      BY <1>1, <1>2, <2>3
    <3>2. status \notin {"queued", "running", "cancel_requested"}
      BY DEF RunStatus, Finished
    <3>3. c.job \in JobsOf(o)'
      BY <1>1, <2>3 DEF JobsOf
    <3> QED BY <3>1, <3>2, <3>3 DEF HasJob, Claimable
  <2>4. CASE o = opOf[c.job] /\ op' = op /\ op[opOf[c.job]] \in Finished \cup {"cancelled"}
    BY <2>4 DEF HasJob, Finished
  <2> QED BY <1>2, <2>2, <2>3, <2>4
<1> QED BY <1>3 DEF OpenOperationHasJob, HasJob

\* A claim, stale or not, only sets jobs to running, and their operations with
\* them.
LEMMA TakeHasJob ==
    ASSUME Inv, OpenOperationHasJob, NEW w \in Workers, NEW S \in SUBSET Jobs, Take(w, S)
    PROVE  OpenOperationHasJob'
<1>1. /\ opOf' = opOf
      /\ \A j \in Jobs : job'[j] = IF j \in S THEN "running" ELSE job[j]
      /\ \A o \in Ops : op'[o] = IF op[o] \in {"queued", "retry_wait"} /\ S \cap JobsOf(o) # {}
                                THEN "running" ELSE op[o]
  BY DEF Take
<1>2. ASSUME NEW o \in Ops
      PROVE  HasJob(o)'
  <2>1. HasJob(o) /\ JobsOf(o)' = JobsOf(o)
    BY <1>1 DEF HasJob, OpenOperationHasJob, JobsOf
  <2>2. CASE op[o] \in {"queued", "retry_wait"} /\ S \cap JobsOf(o) # {}
    <3>1. PICK j \in S : j \in JobsOf(o)
      BY <2>2
    <3>2. op'[o] = "running" /\ job'[j] = "running"
      BY <1>1, <2>2, <3>1
    <3> QED BY <2>1, <3>1, <3>2 DEF HasJob
  <2>3. CASE op[o] \in {"queued", "retry_wait"} /\ S \cap JobsOf(o) = {}
    <3>1. PICK j \in JobsOf(o) : Claimable(j)
      BY <2>1, <2>3 DEF HasJob
    <3>2. op'[o] = op[o] /\ job'[j] = job[j]
      BY <1>1, <2>3, <3>1 DEF JobsOf
    <3> QED BY <2>1, <2>3, <3>1, <3>2 DEF HasJob, Claimable
  <2>4. CASE op[o] \notin {"queued", "retry_wait"}
    <3>1. op'[o] = op[o] /\ \A j \in JobsOf(o) : job[j] = "running" => job'[j] = "running"
      BY <1>1, <2>4 DEF JobsOf
    <3> QED BY <2>1, <2>4, <3>1 DEF HasJob
  <2> QED BY <2>2, <2>3, <2>4
<1> QED BY <1>2 DEF OpenOperationHasJob, HasJob

LEMMA NewJobHasJob ==
    ASSUME Inv, OpenOperationHasJob, NEW n \in Jobs, job[n] = "none", NEW o,
           job' = [job EXCEPT ![n] = "queued"],
           opOf' = [opOf EXCEPT ![n] = o],
           op' = [op EXCEPT ![o] = "queued"]
    PROVE  OpenOperationHasJob'
<1>1. opOf \in [Jobs -> Ops \cup {NoOp}] /\ job \in [Jobs -> JobStatus] /\ op \in [Ops -> OpStatus]
  BY DEF Inv, TypeOK
<1>2. job'[n] = "queued" /\ opOf'[n] = o
  BY <1>1
<1>3. \A j \in Jobs : j # n => job'[j] = job[j] /\ opOf'[j] = opOf[j]
  BY <1>1
<1>4. ASSUME NEW x \in Ops
      PROVE  HasJob(x)'
  <2>1. HasJob(x)
    BY DEF HasJob, OpenOperationHasJob
  <2>2. CASE x = o
    <3>1. op'[x] = "queued" /\ n \in JobsOf(x)'
      BY <1>1, <1>2, <2>2 DEF JobsOf
    <3> QED BY <1>2, <3>1 DEF HasJob, Claimable
  <2>3. CASE x # o
    <3>1. op'[x] = op[x]
      BY <1>1, <2>3
    <3>2. \A j \in JobsOf(x) : job[j] # "none" => j \in JobsOf(x)' /\ job'[j] = job[j]
      BY <1>3 DEF JobsOf
    <3> QED BY <2>1, <3>1, <3>2 DEF HasJob, Claimable
  <2> QED BY <2>2, <2>3
<1> QED BY <1>4 DEF OpenOperationHasJob, HasJob

\* request_cancellation never leaves an operation in cancel_requested whose
\* jobs it has all cancelled: it refuses, or cancels a queued operation at once.
LEMMA RequestCancellationHasJob ==
    ASSUME Inv, OpenOperationHasJob, NEW o \in Ops, RequestCancellation(o)
    PROVE  OpenOperationHasJob'
<1>1. /\ opOf' = opOf
      /\ \A j \in Jobs : job'[j] = IF opOf[j] = o /\ Claimable(j) THEN "cancelled" ELSE job[j]
      /\ op \in [Ops -> OpStatus]
      /\ op' = [op EXCEPT ![o] = CancelTarget(op[o])]
  BY DEF RequestCancellation, Inv, TypeOK
<1>2. op[o] \in {"queued", "running", "cancel_requested"}
  BY <1>1 DEF RequestCancellation, CancelTarget, ValidOperationTransition, OperationTransitions,
              TerminalOperationStates, OpStatus
<1>3. ASSUME NEW x \in Ops
      PROVE  HasJob(x)'
  <2>1. HasJob(x) /\ JobsOf(x)' = JobsOf(x)
    BY <1>1 DEF HasJob, OpenOperationHasJob, JobsOf
  <2>2. CASE x # o
    <3>1. op'[x] = op[x] /\ \A j \in JobsOf(x) : job'[j] = job[j]
      BY <1>1, <2>2 DEF JobsOf
    <3> QED BY <2>1, <3>1 DEF HasJob, Claimable
  <2>3. CASE x = o /\ op[o] = "queued"
    BY <1>1, <2>3 DEF HasJob, CancelTarget
  <2>4. CASE x = o /\ op[o] \in {"running", "cancel_requested"}
    <3>1. op'[x] = "cancel_requested"
      BY <1>1, <2>4 DEF CancelTarget
    <3>2. PICK j \in JobsOf(x) : job[j] = "running"
      BY <2>1, <2>4 DEF HasJob
    <3>3. job'[j] = "running"
      BY <1>1, <3>2 DEF JobsOf, Claimable
    <3> QED BY <2>1, <3>1, <3>2, <3>3 DEF HasJob
  <2> QED BY <1>2, <2>2, <2>3, <2>4
<1> QED BY <1>3 DEF OpenOperationHasJob, HasJob

\* An operation that is not final has a job to claim or a running one, through
\* every interleaving of claims (stale ones too), cancellations and retries.
LEMMA OpenOperationsHaveJobs == Spec => []OpenOperationHasJob
<1>1. Init => OpenOperationHasJob
  BY DEF Init, OpenOperationHasJob
<1>2. Inv /\ OpenOperationHasJob /\ [Next]_vars => OpenOperationHasJob'
  <2> SUFFICES ASSUME Inv, OpenOperationHasJob, [Next]_vars PROVE OpenOperationHasJob'
    OBVIOUS
  <2>1. CASE UNCHANGED <<op, job, opOf>>
    BY <2>1 DEF OpenOperationHasJob, JobsOf, Claimable
  <2>2. ASSUME NEW o \in Ops, Submit(o)
        PROVE  OpenOperationHasJob'
    BY <2>2, NewJobHasJob DEF Submit
  <2>3. ASSUME NEW j \in Jobs, RetryJob(j)
        PROVE  OpenOperationHasJob'
    BY <2>3, NewJobHasJob DEF RetryJob
  <2>4. ASSUME NEW w \in Workers, WorkerStep(w)
        PROVE  OpenOperationHasJob'
    <3>1. CASE ClaimNow(w)
      BY <3>1, TakeHasJob DEF ClaimNow, Batches
    <3>2. CASE ClaimLock(w)
      BY <3>2, TakeHasJob DEF ClaimLock, Inv, TypeOK
    <3>3. CASE \E c \in held[w] : Finish(w, c)
      BY <3>3, FinishHasJob
    <3>4. CASE ClaimScan(w) \/ \E c \in held[w] : Start(w, c) \/ ObserveCancel(w, c) \/ LeaseLost(w, c)
      BY <2>1, <3>4 DEF ClaimScan, Start, ObserveCancel, LeaseLost, rows
    <3> QED BY <2>4, <3>1, <3>2, <3>3, <3>4 DEF WorkerStep
  <2>5. CASE UNCHANGED vars \/ \E w \in Workers : Abandon(w)
    BY <2>1, <2>5 DEF vars, Abandon, rows
  <2> QED BY <2>2, <2>3, <2>4, <2>5, RequestCancellationHasJob DEF Next
<1> QED BY <1>1, <1>2, Invariance, PTL DEF Spec


-----------------------------------------------------------------------------
(* The runtime implements FencedAttempts.                                  *)

\* A worker whose attempt is still the last one of its job passes the fence,
\* and a worker that selects rows has nothing in hand.
LatestHoldsLease ==
    \A w \in Workers : \A c \in held[w] : c.attempt = AttemptCount(c.job) => HoldsLease(c)

SelectsIdle == \A w \in Workers : scan[w] # {} => held[w] = {}

FenceInv == LatestHoldsLease /\ SelectsIdle

LEMMA TakeFence ==
    ASSUME Inv, LatestHoldsLease, NEW w \in Workers, NEW S \in SUBSET Jobs, Take(w, S)
    PROVE  LatestHoldsLease'
<1> DEFINE new == {[job |-> j, attempt |-> AttemptCount(j) + 1, phase |-> "waiting"] : j \in S}
<1>1. /\ \A v \in Workers : held'[v] = IF v = w THEN new ELSE held[v]
      /\ \A j \in Jobs : lease'[j] = IF j \in S THEN AttemptCount(j) + 1 ELSE lease[j]
  BY DEF Take, Inv, TypeOK
<1>2. /\ \A j \in S : AttemptCount(j)' = AttemptCount(j) + 1 /\ AttemptCount(j) \in Nat
      /\ \A j \in Jobs \ S : AttemptCount(j)' = AttemptCount(j)
  BY TakeAttempts DEF Inv, AttemptCount
<1> HIDE DEF new
<1>3. ASSUME NEW v \in Workers, NEW c \in held'[v], c.attempt = AttemptCount(c.job)'
      PROVE  lease'[c.job] = c.attempt
  <2>1. CASE c \in new
    <3>1. c.job \in S /\ c.attempt = AttemptCount(c.job) + 1
      BY <2>1 DEF new
    <3> QED BY <1>1, <3>1
  <2>2. CASE c \in held[v]
    <3>1. /\ c.job \in Jobs /\ c.attempt \in Nat /\ c.attempt <= AttemptCount(c.job)
          /\ c.attempt = AttemptCount(c.job) => lease[c.job] = c.attempt
      BY <2>2 DEF Inv, TypeOK, Claim, ClaimsAreRecorded, LatestHoldsLease, HoldsLease
    <3>2. c.job \notin S
      BY <1>2, <1>3, <3>1
    <3> QED BY <1>1, <1>2, <1>3, <3>1, <3>2
  <2> QED BY <1>1, <1>3, <2>1, <2>2
<1> QED BY <1>3 DEF LatestHoldsLease, HoldsLease

\* Claims are unique: what a finishing call does to the lease of its job
\* concerns no other claim on the last attempt.
LEMMA FinishFence ==
    ASSUME Inv, LatestHoldsLease, NEW w \in Workers, NEW c \in held[w], Finish(w, c)
    PROVE  LatestHoldsLease'
<1>1. /\ HoldsLease(c) /\ held' = [held EXCEPT ![w] = @ \ {c}]
      /\ c.job \in Jobs /\ c.attempt = AttemptCount(c.job)
  BY FinishShape, FencedAttempt DEF Inv, Drop
<1>2. PICK status \in RunStatus : Record(c, status)
  BY FinishShape DEF Inv
<1>3. /\ \A j \in Jobs : AttemptCount(j)' = AttemptCount(j)
      /\ \A j \in Jobs : j # c.job => lease'[j] = lease[j]
  BY <1>1, <1>2, RecordRun DEF Record, Inv, TypeOK
<1>4. ASSUME NEW v \in Workers, NEW d \in held'[v], d.attempt = AttemptCount(d.job)'
      PROVE  lease'[d.job] = d.attempt
  <2>1. d \in held[v] /\ ~(v = w /\ d = c) /\ d.job \in Jobs
    BY <1>1 DEF Inv, TypeOK, Claim
  <2>2. d.job # c.job
    BY <1>1, <1>3, <1>4, <2>1 DEF Inv, ClaimsAreUnique
  <2> QED BY <1>3, <1>4, <2>1, <2>2 DEF LatestHoldsLease, HoldsLease
<1> QED BY <1>4 DEF LatestHoldsLease, HoldsLease

\* Starting a job and noticing a cancellation keep its number.
LEMMA PhaseToken ==
    ASSUME TypeOK, NEW w \in Workers, NEW c \in held[w], Start(w, c) \/ ObserveCancel(w, c)
    PROVE  \E d : /\ d.job = c.job /\ d.attempt = c.attempt
                  /\ held' = [held EXCEPT ![w] = (@ \ {c}) \cup {d}]
<1>1. c \in Claim
  BY DEF TypeOK
<1>2. CASE Start(w, c)
  <2> DEFINE d == [c EXCEPT !.phase = "running"]
  <2>1. d.job = c.job /\ d.attempt = c.attempt
    BY <1>1 DEF Claim
  <2>2. held' = [held EXCEPT ![w] = (@ \ {c}) \cup {d}]
    BY <1>2 DEF Start
  <2> HIDE DEF d
  <2> QED BY <2>1, <2>2
<1>3. CASE ObserveCancel(w, c)
  <2> DEFINE d == [c EXCEPT !.phase = "cancelling"]
  <2>1. d.job = c.job /\ d.attempt = c.attempt
    BY <1>1 DEF Claim
  <2>2. held' = [held EXCEPT ![w] = (@ \ {c}) \cup {d}]
    BY <1>3 DEF ObserveCancel
  <2> HIDE DEF d
  <2> QED BY <2>1, <2>2
<1> QED BY <1>2, <1>3

LEMMA FenceInductive ==
    ASSUME Inv, FenceInv, [Next]_vars
    PROVE  FenceInv'
<1> USE DEF FenceInv
<1>1. ASSUME UNCHANGED <<lease, run>>, \A v \in Workers : held'[v] \subseteq held[v]
      PROVE  LatestHoldsLease'
  BY <1>1 DEF LatestHoldsLease, HoldsLease, AttemptCount
<1>2. ASSUME NEW o \in Ops, Submit(o) \/ RequestCancellation(o)
      PROVE  FenceInv'
  BY <1>1, <1>2 DEF Submit, RequestCancellation, SelectsIdle
<1>3. ASSUME NEW j \in Jobs, RetryJob(j)
      PROVE  FenceInv'
  BY <1>1, <1>3 DEF RetryJob, SelectsIdle
<1>4. ASSUME NEW w \in Workers, ClaimNow(w)
      PROVE  FenceInv'
  <2>1. PICK S \in SUBSET Jobs : Take(w, S)
    BY <1>4 DEF ClaimNow, Batches
  <2>2. SelectsIdle'
    BY <1>4, <2>1 DEF ClaimNow, Take, SelectsIdle, Idle, Inv, TypeOK
  <2> QED BY <2>1, <2>2, TakeFence
<1>5. ASSUME NEW w \in Workers, ClaimScan(w)
      PROVE  FenceInv'
  <2>1. SelectsIdle'
    BY <1>5 DEF ClaimScan, SelectsIdle, Idle, Inv, TypeOK
  <2> QED BY <1>1, <1>5, <2>1 DEF ClaimScan, rows
<1>6. ASSUME NEW w \in Workers, ClaimLock(w)
      PROVE  FenceInv'
  <2>1. SelectsIdle'
    BY <1>6 DEF ClaimLock, Take, SelectsIdle, Inv, TypeOK
  <2> QED BY <1>6, <2>1, TakeFence DEF ClaimLock, Inv, TypeOK
<1>7. ASSUME NEW w \in Workers, NEW c \in held[w], Start(w, c) \/ ObserveCancel(w, c)
      PROVE  FenceInv'
  <2>1. PICK d : /\ d.job = c.job /\ d.attempt = c.attempt
                 /\ held' = [held EXCEPT ![w] = (@ \ {c}) \cup {d}]
    BY <1>7, PhaseToken DEF Inv
  <2>2. UNCHANGED <<lease, run, scan>>
    BY <1>7 DEF Start, ObserveCancel, rows
  <2>3. \A v \in Workers : \A e \in held'[v] : e \in held[v] \/ (v = w /\ e = d)
    BY <2>1 DEF Inv, TypeOK
  <2>4. LatestHoldsLease'
    BY <2>1, <2>2, <2>3 DEF LatestHoldsLease, HoldsLease, AttemptCount
  <2>5. SelectsIdle'
    BY <2>1, <2>2 DEF SelectsIdle, Inv, TypeOK
  <2> QED BY <2>4, <2>5
<1>8. ASSUME NEW w \in Workers, NEW c \in held[w], Finish(w, c)
      PROVE  FenceInv'
  <2>1. SelectsIdle'
    BY <1>8, FinishShape DEF Drop, SelectsIdle, Inv, TypeOK
  <2> QED BY <1>8, <2>1, FinishFence
<1>9. ASSUME NEW w \in Workers, Abandon(w) \/ \E c \in held[w] : LeaseLost(w, c)
      PROVE  FenceInv'
  <2>1. /\ UNCHANGED <<lease, run>>
        /\ \A v \in Workers : held'[v] \subseteq held[v] /\ scan'[v] \subseteq scan[v]
    BY <1>9 DEF Abandon, LeaseLost, Drop, rows, Inv, TypeOK
  <2> QED BY <1>1, <2>1 DEF SelectsIdle
<1>10. CASE UNCHANGED vars
  BY <1>1, <1>10 DEF vars, SelectsIdle
<1> QED BY <1>2, <1>3, <1>4, <1>5, <1>6, <1>7, <1>8, <1>9, <1>10 DEF Next, WorkerStep

\* The number under which a claim is known.
Token(c) == [job |-> c.job, attempt |-> c.attempt]

LEMMA GrantedTokens == ASSUME NEW w \in Workers PROVE Granted[w] = {Token(c) : c \in held[w]}
BY DEF Granted, Token

\* Dropping a claim takes its number, and no other, from what is granted.
LEMMA DropGranted ==
    ASSUME Inv, NEW w \in Workers, NEW c \in held[w], Drop(w, c)
    PROVE  Granted' = [Granted EXCEPT ![w] = @ \ {Token(c)}]
<1>1. held' = [held EXCEPT ![w] = held[w] \ {c}] /\ held \in [Workers -> SUBSET Claim]
  BY DEF Drop, Inv, TypeOK
<1>2. \A d \in held[w] : Token(d) = Token(c) => d = c
  BY DEF Inv, ClaimsAreUnique, Token
<1>3. {Token(d) : d \in held[w] \ {c}} = {Token(d) : d \in held[w]} \ {Token(c)}
  BY <1>2
<1>4. \A v \in Workers : Granted'[v] = IF v = w THEN Granted[w] \ {Token(c)} ELSE Granted[v]
  BY <1>1, <1>3 DEF Granted, Token
<1> QED BY <1>4 DEF Granted


\* A claim grants the attempts it numbers.
LEMMA TakeGrants ==
    ASSUME Inv, NEW w \in Workers, held[w] = {}, NEW S \in SUBSET Jobs, Take(w, S)
    PROVE  Attempts!Next
<1> DEFINE new == {[job |-> j, attempt |-> AttemptCount(j) + 1, phase |-> "waiting"] : j \in S}
           tokens == {[job |-> j, attempt |-> Len(run[j]) + 1] : j \in S}
<1>1. held' = [held EXCEPT ![w] = new] /\ held \in [Workers -> SUBSET Claim]
  BY DEF Take, Inv, TypeOK
<1>2. {Token(c) : c \in new} = tokens
  <2> DEFINE claim(j) == [job |-> j, attempt |-> AttemptCount(j) + 1, phase |-> "waiting"]
             token(j) == [job |-> j, attempt |-> Len(run[j]) + 1]
  <2>1. \A j \in S : Token(claim(j)) = token(j)
    BY DEF Token, AttemptCount
  <2>2. new = {claim(j) : j \in S} /\ tokens = {token(j) : j \in S}
    OBVIOUS
  <2> HIDE DEF claim, token, new, tokens
  <2> QED BY <2>1, <2>2
<1> HIDE DEF new, tokens
<1>3. \A v \in Workers : Granted'[v] = IF v = w THEN tokens ELSE Granted[v]
  BY <1>1, <1>2 DEF Granted, Token
<1>4. Granted' = [Granted EXCEPT ![w] = tokens] /\ Granted[w] = {}
  BY <1>3 DEF Granted
<1>5. Attempts!Grant(w, S)
  BY <1>4 DEF Take, Attempts!Grant, tokens
<1> QED BY <1>5 DEF Attempts!Next

\* A finishing call decides an attempt of its worker, the last of the job.
LEMMA FinishDecides ==
    ASSUME Inv, NEW w \in Workers, NEW c \in held[w], Finish(w, c)
    PROVE  Attempts!Next
<1> DEFINE a == Token(c)
<1>1. /\ HoldsLease(c) /\ Drop(w, c) /\ abandons' = abandons
      /\ c.attempt = AttemptCount(c.job) /\ run[c.job][c.attempt] = "running"
  BY FinishShape, FencedAttempt DEF Inv
<1>2. PICK status \in RunStatus \ {"running"} : Record(c, status)
  BY FinishShape DEF Inv
<1>3. a \in Granted[w] /\ a.job = c.job /\ a.attempt = c.attempt
  BY GrantedTokens DEF Token
<1>4. Granted' = [Granted EXCEPT ![w] = @ \ {a}]
  BY <1>1, DropGranted
<1> HIDE DEF a
<1>5. Attempts!Decide(w, a, status)
  BY <1>1, <1>2, <1>3, <1>4 DEF Attempts!Decide, Attempts!Latest, AttemptCount, Record
<1> QED BY <1>2, <1>3, <1>5 DEF Attempts!Next

\* A claim whose fence matches no row is of an attempt that has a successor.
LEMMA LeaseLostToSuccessor ==
    ASSUME Inv, FenceInv, NEW w \in Workers, NEW c \in held[w], LeaseLost(w, c)
    PROVE  Attempts!Next
<1> DEFINE a == Token(c)
<1>1. a \in Granted[w] /\ a.job = c.job /\ a.attempt = c.attempt
  BY GrantedTokens DEF Token
<1>2. Granted' = [Granted EXCEPT ![w] = @ \ {a}]
  BY DropGranted DEF LeaseLost
<1>3. c.attempt # AttemptCount(c.job) /\ UNCHANGED <<run, abandons>>
  BY DEF FenceInv, LatestHoldsLease, LeaseLost, rows
<1> HIDE DEF a
<1>4. Attempts!Lose(w, a)
  BY <1>1, <1>2, <1>3 DEF Attempts!Lose, Attempts!Latest, AttemptCount
<1> QED BY <1>1, <1>4 DEF Attempts!Next

LEMMA AbandonDies ==
    ASSUME Inv, NEW w \in Workers, Abandon(w)
    PROVE  Attempts!Next
<1>1. held' = [held EXCEPT ![w] = {}] /\ held \in [Workers -> SUBSET Claim]
  BY DEF Abandon, Inv, TypeOK
<1>2. \A v \in Workers : Granted'[v] = IF v = w THEN {} ELSE Granted[v]
  BY <1>1 DEF Granted
<1>3. Granted' = [Granted EXCEPT ![w] = {}]
  BY <1>2 DEF Granted
<1>4. Attempts!Die(w)
  BY <1>3 DEF Abandon, rows, Attempts!Die
<1> QED BY <1>4 DEF Attempts!Next

\* How far a worker is with its claims is not visible.
LEMMA PhaseIsHidden ==
    ASSUME Inv, NEW w \in Workers, NEW c \in held[w], Start(w, c) \/ ObserveCancel(w, c)
    PROVE  UNCHANGED <<run, Granted, abandons>>
<1>1. PICK d : /\ d.job = c.job /\ d.attempt = c.attempt
               /\ held' = [held EXCEPT ![w] = (@ \ {c}) \cup {d}]
  BY PhaseToken DEF Inv
<1>2. Token(d) = Token(c) /\ held \in [Workers -> SUBSET Claim]
  BY <1>1 DEF Token, Inv, TypeOK
<1>3. {Token(e) : e \in (held[w] \ {c}) \cup {d}} = {Token(e) : e \in held[w]}
  BY <1>2
<1>4. \A v \in Workers : Granted'[v] = Granted[v]
  BY <1>1, <1>2, <1>3 DEF Granted, Token
<1>5. Granted' = Granted
  BY <1>4 DEF Granted
<1> QED BY <1>5 DEF Start, ObserveCancel, rows

\* The job runtime implements FencedAttempts, for any operations, jobs and
\* workers and for stale claims too.
THEOREM AttemptsAreFenced == Spec => FencesAttempts
<1>1. Init => Attempts!Init
  BY DEF Init, Attempts!Init, Granted
<1>2. Init => FenceInv
  BY DEF Init, FenceInv, LatestHoldsLease, SelectsIdle
<1>3. Inv /\ FenceInv /\ [Next]_vars => FenceInv'
  BY FenceInductive
<1>4. Inv /\ FenceInv /\ [Next]_vars => [Attempts!Next]_<<run, Granted, abandons>>
  <2> SUFFICES ASSUME Inv, FenceInv, [Next]_vars
               PROVE  Attempts!Next \/ UNCHANGED <<run, Granted, abandons>>
    OBVIOUS
  <2>1. CASE UNCHANGED <<run, held, abandons>>
    BY <2>1 DEF Granted
  <2>2. CASE \/ \E o \in Ops : Submit(o) \/ RequestCancellation(o)
             \/ \E j \in Jobs : RetryJob(j)
    BY <2>1, <2>2 DEF Submit, RequestCancellation, RetryJob
  <2>3. ASSUME NEW w \in Workers, WorkerStep(w)
        PROVE  Attempts!Next \/ UNCHANGED <<run, Granted, abandons>>
    <3>1. CASE ClaimNow(w)
      BY <3>1, TakeGrants DEF ClaimNow, Idle, Batches
    <3>2. CASE ClaimScan(w)
      BY <2>1, <3>2 DEF ClaimScan, rows
    <3>3. CASE ClaimLock(w)
      BY <3>3, TakeGrants DEF ClaimLock, FenceInv, SelectsIdle, Inv, TypeOK
    <3>4. ASSUME NEW c \in held[w], \/ Start(w, c) \/ ObserveCancel(w, c)
                                    \/ Finish(w, c) \/ LeaseLost(w, c)
          PROVE  Attempts!Next \/ UNCHANGED <<run, Granted, abandons>>
      BY <3>4, PhaseIsHidden, FinishDecides, LeaseLostToSuccessor
    <3> QED BY <2>3, <3>1, <3>2, <3>3, <3>4 DEF WorkerStep
  <2>4. CASE \E w \in Workers : Abandon(w)
    BY <2>4, AbandonDies
  <2>5. CASE UNCHANGED vars
    BY <2>1, <2>5 DEF vars
  <2> QED BY <2>2, <2>3, <2>4, <2>5 DEF Next
<1> QED BY <1>1, <1>2, <1>3, <1>4, Invariance, PTL DEF Spec, FencesAttempts, Attempts!Spec

-----------------------------------------------------------------------------
\* Unless a worker died, a running job is in the hands of one that passes the
\* fence: it was claimed again, by a stale claim, or its claim is still held.
RunningIsHeld == abandons = 0 => \A j \in Jobs : job[j] = "running" =>
    \E w \in Workers : \E c \in held[w] : c.job = j /\ HoldsLease(c)

LEMMA TakeHeld ==
    ASSUME Inv, RunningIsHeld, NEW w \in Workers, held[w] = {}, NEW S \in SUBSET Jobs, Take(w, S)
    PROVE  RunningIsHeld'
<1> DEFINE claim(j) == [job |-> j, attempt |-> AttemptCount(j) + 1, phase |-> "waiting"]
<1>1. /\ \A v \in Workers : held'[v] = IF v = w THEN {claim(j) : j \in S} ELSE held[v]
      /\ \A j \in Jobs : lease'[j] = IF j \in S THEN AttemptCount(j) + 1 ELSE lease[j]
      /\ \A j \in Jobs : job'[j] = IF j \in S THEN "running" ELSE job[j]
      /\ abandons' = abandons
  BY DEF Take, Inv, TypeOK
<1>2. ASSUME abandons = 0, NEW j \in Jobs, job'[j] = "running"
      PROVE  \E v \in Workers : \E c \in held'[v] : c.job = j /\ lease'[c.job] = c.attempt
  <2>1. CASE j \in S
    <3>1. claim(j) \in held'[w] /\ claim(j).job = j /\ lease'[j] = claim(j).attempt
      BY <1>1, <2>1
    <3> QED BY <3>1
  <2>2. CASE j \notin S
    <3>1. job[j] = "running"
      BY <1>1, <1>2, <2>2
    <3>2. PICK v \in Workers : \E c \in held[v] : c.job = j /\ lease[c.job] = c.attempt
      BY <1>2, <3>1 DEF RunningIsHeld, HoldsLease
    <3>3. v # w /\ held'[v] = held[v] /\ lease'[j] = lease[j]
      BY <1>1, <2>2, <3>2
    <3> QED BY <3>2, <3>3
  <2> QED BY <2>1, <2>2
<1> QED BY <1>1, <1>2 DEF RunningIsHeld, HoldsLease

LEMMA FinishHeld ==
    ASSUME Inv, RunningIsHeld, NEW w \in Workers, NEW c \in held[w], Finish(w, c)
    PROVE  RunningIsHeld'
<1>1. /\ held' = [held EXCEPT ![w] = @ \ {c}]
      /\ c.job \in Jobs /\ abandons' = abandons
  BY FinishShape, FencedAttempt DEF Inv, Drop
<1>2. PICK status \in RunStatus \ {"running"} : Record(c, status)
  BY FinishShape DEF Inv
<1>3. ASSUME abandons = 0, NEW j \in Jobs, job'[j] = "running"
      PROVE  \E v \in Workers : \E d \in held'[v] : d.job = j /\ lease'[d.job] = d.attempt
  <2>1. j # c.job /\ job[j] = "running" /\ lease'[j] = lease[j]
    BY <1>1, <1>2, <1>3 DEF Record, Inv, TypeOK
  <2>2. PICK v \in Workers : \E d \in held[v] : d.job = j /\ lease[d.job] = d.attempt
    BY <1>3, <2>1 DEF RunningIsHeld, HoldsLease
  <2>3. \A d \in held[v] : d.job = j => d \in held'[v]
    BY <1>1, <2>1, <2>2 DEF Inv, TypeOK
  <2> QED BY <2>1, <2>2, <2>3
<1> QED BY <1>1, <1>3 DEF RunningIsHeld, HoldsLease

LEMMA HeldInductive ==
    ASSUME Inv, FenceInv, RunningIsHeld, [Next]_vars
    PROVE  RunningIsHeld'
<1>1. ASSUME UNCHANGED <<lease, held, abandons>>,
             \A j \in Jobs : job'[j] = "running" => job[j] = "running"
      PROVE  RunningIsHeld'
  BY <1>1 DEF RunningIsHeld, HoldsLease
<1>2. ASSUME NEW o \in Ops, Submit(o) \/ RequestCancellation(o)
      PROVE  RunningIsHeld'
  BY <1>1, <1>2 DEF Submit, RequestCancellation, Inv, TypeOK
<1>3. ASSUME NEW j \in Jobs, RetryJob(j)
      PROVE  RunningIsHeld'
  BY <1>1, <1>3 DEF RetryJob, Inv, TypeOK
<1>4. ASSUME NEW w \in Workers, ClaimNow(w)
      PROVE  RunningIsHeld'
  BY <1>4, TakeHeld DEF ClaimNow, Idle, Batches
<1>5. ASSUME NEW w \in Workers, ClaimScan(w)
      PROVE  RunningIsHeld'
  BY <1>1, <1>5 DEF ClaimScan, rows
<1>6. ASSUME NEW w \in Workers, ClaimLock(w)
      PROVE  RunningIsHeld'
  BY <1>6, TakeHeld DEF ClaimLock, FenceInv, SelectsIdle, Inv, TypeOK
<1>7. ASSUME NEW w \in Workers, NEW c \in held[w], Start(w, c) \/ ObserveCancel(w, c)
      PROVE  RunningIsHeld'
  <2>1. PICK d : /\ d.job = c.job /\ d.attempt = c.attempt
                 /\ held' = [held EXCEPT ![w] = (@ \ {c}) \cup {d}]
    BY <1>7, PhaseToken DEF Inv
  <2>2. UNCHANGED <<job, lease, abandons>>
    BY <1>7 DEF Start, ObserveCancel, rows
  <2>3. \A v \in Workers : \A e \in held[v] : e \in held'[v] \/ (v = w /\ e = c /\ d \in held'[w])
    BY <2>1 DEF Inv, TypeOK
  <2>4. ASSUME abandons = 0, NEW j \in Jobs, job[j] = "running"
        PROVE  \E v \in Workers : \E e \in held'[v] : e.job = j /\ lease[e.job] = e.attempt
    <3>1. PICK v \in Workers : \E e \in held[v] : e.job = j /\ lease[e.job] = e.attempt
      BY <2>4 DEF RunningIsHeld, HoldsLease
    <3> QED BY <2>1, <2>3, <3>1
  <2> QED BY <2>2, <2>4 DEF RunningIsHeld, HoldsLease
<1>8. ASSUME NEW w \in Workers, NEW c \in held[w], LeaseLost(w, c)
      PROVE  RunningIsHeld'
  <2>1. /\ ~HoldsLease(c) /\ UNCHANGED <<job, lease, abandons>>
        /\ \A v \in Workers : \A e \in held[v] : e \in held'[v] \/ e = c
    BY <1>8 DEF LeaseLost, Drop, rows, Inv, TypeOK
  <2>2. ASSUME abandons = 0, NEW j \in Jobs, job[j] = "running"
        PROVE  \E v \in Workers : \E e \in held'[v] : e.job = j /\ lease[e.job] = e.attempt
    <3>1. PICK v \in Workers : \E e \in held[v] : e.job = j /\ lease[e.job] = e.attempt
      BY <2>2 DEF RunningIsHeld, HoldsLease
    <3> QED BY <2>1, <3>1 DEF HoldsLease
  <2> QED BY <2>1, <2>2 DEF RunningIsHeld, HoldsLease
<1>9. ASSUME NEW w \in Workers, Abandon(w)
      PROVE  RunningIsHeld'
  <2>1. abandons' # 0
    BY <1>9 DEF Abandon, Inv, TypeOK
  <2> QED BY <2>1 DEF RunningIsHeld
<1>10. CASE UNCHANGED vars
  BY <1>1, <1>10 DEF vars
<1> QED BY <1>2, <1>3, <1>4, <1>5, <1>6, <1>7, <1>8, <1>9, <1>10, FinishHeld DEF Next, WorkerStep

\* Neither a stale claim, a cancellation, a retry nor an outcome leaves an open
\* operation behind: it has a job to claim, or a running one that somebody
\* holds as long as no worker died.
THEOREM OpenOperationsAreCared == Spec => []OpenOperationIsCared
<1>1. Init => FenceInv /\ RunningIsHeld
  BY DEF Init, FenceInv, LatestHoldsLease, SelectsIdle, RunningIsHeld
<1>2. Inv /\ FenceInv /\ [Next]_vars => FenceInv'
  BY FenceInductive
<1>3. Inv /\ FenceInv /\ RunningIsHeld /\ [Next]_vars => RunningIsHeld'
  BY HeldInductive
<1>4. OpenOperationHasJob /\ RunningIsHeld => OpenOperationIsCared
  <2> SUFFICES ASSUME OpenOperationHasJob, RunningIsHeld, NEW o \in Ops,
                      op[o] \in {"running", "cancel_requested"}
               PROVE  \E j \in JobsOf(o) :
                        /\ job[j] = "running"
                        /\ abandons = 0 => \E w \in Workers : \E c \in held[w] :
                                             c.job = j /\ HoldsLease(c)
    BY DEF OpenOperationHasJob, OpenOperationIsCared
  <2>1. PICK j \in JobsOf(o) : job[j] = "running"
    BY DEF OpenOperationHasJob
  <2> QED BY <2>1 DEF RunningIsHeld, JobsOf
<1> QED BY <1>1, <1>2, <1>3, <1>4, Invariance, OpenOperationsHaveJobs, PTL DEF Spec

-----------------------------------------------------------------------------
(* What holds when no transaction commits within a claim.                  *)

\* Then no worker ever waits with a stale selection.
Fresh == \A w \in Workers : scan[w] = {}

LEMMA NoStaleScan ==
    ASSUME AtomicClaim
    PROVE  Spec => []Fresh
<1> USE DEF Fresh
<1>1. Init => Fresh
  BY DEF Init
<1>2. Inv /\ Fresh /\ [Next]_vars => Fresh'
  <2> SUFFICES ASSUME Inv, Fresh, [Next]_vars PROVE Fresh'
    OBVIOUS
  <2>1. ASSUME NEW w \in Workers, NEW c \in held[w], Finish(w, c)
        PROVE  Fresh'
    BY <2>1, FinishShape DEF Inv
  <2> QED BY <2>1 DEF Next, WorkerStep, Submit, RequestCancellation, RetryJob, ClaimNow, ClaimScan,
                ClaimLock, Start, ObserveCancel, LeaseLost, Abandon, vars, Inv, TypeOK
<1> QED BY <1>1, <1>2, Invariance, PTL DEF Spec

\* A final job row stays final: only a stale selection could revive it.
THEOREM FinalJobsStay ==
    ASSUME AtomicClaim
    PROVE  Spec => FinalJobStays
<1> DEFINE Stays == \A j \in Jobs :
                      job[j] \in Finished \cup {"cancelled"} => job'[j] = job[j]
<1>1. ASSUME Inv, Fresh, [Next]_vars
      PROVE  [Stays]_vars
  <2> SUFFICES ASSUME NEW j \in Jobs, job[j] \in Finished \cup {"cancelled"}
               PROVE  job'[j] = job[j]
    OBVIOUS
  <2> USE DEF Finished, Fresh
  <2>1. ASSUME NEW w \in Workers, NEW c \in held[w], Finish(w, c)
        PROVE  job'[j] = job[j]
    <3>1. PICK status \in RunStatus : Record(c, status)
      BY <1>1, <2>1, FinishShape DEF Inv
    <3>2. HoldsLease(c)
      BY <1>1, <2>1, FinishShape DEF Inv
    <3>3. c.job \in Jobs /\ job[c.job] = "running"
      BY <1>1, <2>1, <3>2, FencedAttempt
    <3> QED BY <1>1, <3>1, <3>3 DEF Record, Inv, TypeOK
  <2>2. ASSUME NEW w \in Workers, ClaimNow(w) \/ ClaimScan(w) \/ ClaimLock(w)
        PROVE  job'[j] = job[j]
    BY <1>1, <2>2 DEF ClaimNow, ClaimScan, ClaimLock, Take, Batches, Claimable, rows
  <2>3. ASSUME NEW w \in Workers, \/ Abandon(w)
                                  \/ \E c \in held[w] : \/ Start(w, c) \/ ObserveCancel(w, c)
                                                        \/ LeaseLost(w, c)
        PROVE  job'[j] = job[j]
    BY <2>3 DEF Abandon, Start, ObserveCancel, LeaseLost, rows
  <2>4. ASSUME NEW o \in Ops, Submit(o) \/ RequestCancellation(o)
        PROVE  job'[j] = job[j]
    BY <1>1, <2>4 DEF Submit, RequestCancellation, Claimable, Inv, TypeOK
  <2>5. ASSUME NEW i \in Jobs, RetryJob(i)
        PROVE  job'[j] = job[j]
    BY <1>1, <2>5 DEF RetryJob, Inv, TypeOK
  <2>6. CASE UNCHANGED vars
    BY <2>6 DEF vars
  <2> QED BY <1>1, <2>1, <2>2, <2>3, <2>4, <2>5, <2>6 DEF Next, WorkerStep
<1>2. Spec => []Fresh
  BY NoStaleScan
<1> QED BY <1>1, <1>2, Invariance, PTL DEF Spec, FinalJobStays

\* The operation row mirrors its job.  Inductive together with: a job row has
\* an operation that was submitted.
Mirrored ==
    /\ \A j \in Jobs : IF job[j] = "none" THEN opOf[j] = NoOp
                       ELSE opOf[j] \in Ops /\ op[opOf[j]] # "none"
    /\ OperationMirrorsJob

LEMMA FinishMirrored ==
    ASSUME Inv, Mirrored, NEW w \in Workers, NEW c \in held[w], Finish(w, c)
    PROVE  Mirrored'
<1>1. /\ c.job \in Jobs /\ job[c.job] = "running" /\ HoldsLease(c)
      /\ opOf' = opOf
  BY FinishShape, FencedAttempt DEF Inv
<1>2. opOf[c.job] \in Ops
  BY <1>1 DEF Mirrored
<1> DEFINE o == opOf[c.job]
<1>3. PICK status \in RunStatus \ {"running"} :
        /\ job' = [job EXCEPT ![c.job] = status]
        /\ \/ op' = [op EXCEPT ![o] = status]
           \/ op' = op /\ op[o] \in Finished \cup {"cancelled"}
  BY FinishOutcome DEF Inv
<1>4. \A j \in Jobs : IF job'[j] = "none" THEN opOf'[j] = NoOp
                     ELSE opOf'[j] \in Ops /\ op'[opOf'[j]] # "none"
  BY <1>1, <1>2, <1>3 DEF Mirrored, Inv, TypeOK, RunStatus, Finished
<1>5. ASSUME NEW j \in Jobs, job'[j] # "none", JobsOf(opOf[j])' = {j}
      PROVE  op'[opOf[j]] \in OperationShows(job'[j])
  <2>1. JobsOf(opOf[j]) = {j}
    BY <1>1, <1>5 DEF JobsOf
  <2>2. CASE j = c.job
    <3>1. op[o] \in {"running", "cancel_requested"}
      BY <1>1, <2>1, <2>2 DEF Mirrored, OperationMirrorsJob, OperationShows
    <3>2. op' = [op EXCEPT ![o] = status]
      BY <1>3, <3>1 DEF Finished
    <3> QED BY <1>1, <1>2, <1>3, <2>2, <3>2 DEF Inv, TypeOK, OperationShows
  <2>3. CASE j # c.job
    <3>1. opOf[j] # o
      BY <1>1, <2>1, <2>3 DEF JobsOf
    <3>2. job'[j] = job[j]
      BY <1>1, <1>3, <2>3 DEF Inv, TypeOK
    <3>3. opOf[j] \in Ops
      BY <1>5, <3>2 DEF Mirrored
    <3>4. op'[opOf[j]] = op[opOf[j]]
      BY <1>2, <1>3, <3>1, <3>3 DEF Inv, TypeOK
    <3> QED BY <1>5, <2>1, <3>2, <3>4 DEF Mirrored, OperationMirrorsJob
  <2> QED BY <2>2, <2>3
<1> QED BY <1>1, <1>4, <1>5 DEF Mirrored, OperationMirrorsJob

LEMMA TakeMirrored ==
    ASSUME Inv, Mirrored, NEW w \in Workers, NEW S \in Batches, Take(w, S)
    PROVE  Mirrored'
<1>1. S \subseteq Jobs /\ \A j \in S : job[j] \in {"queued", "retry_wait"}
  BY DEF Batches, Claimable
<1>2. /\ opOf' = opOf
      /\ \A j \in Jobs : job'[j] = IF j \in S THEN "running" ELSE job[j]
      /\ \A o \in Ops : op'[o] = IF op[o] \in {"queued", "retry_wait"} /\ S \cap JobsOf(o) # {}
                                THEN "running" ELSE op[o]
  BY DEF Take
<1>3. \A j \in Jobs : IF job'[j] = "none" THEN opOf'[j] = NoOp
                     ELSE opOf'[j] \in Ops /\ op'[opOf'[j]] # "none"
  BY <1>1, <1>2 DEF Mirrored
<1>4. ASSUME NEW j \in Jobs, job'[j] # "none", JobsOf(opOf[j])' = {j}
      PROVE  op'[opOf[j]] \in OperationShows(job'[j])
  <2>1. /\ JobsOf(opOf[j]) = {j}
        /\ job[j] # "none"
        /\ opOf[j] \in Ops
        /\ op[opOf[j]] \in OperationShows(job[j])
    BY <1>1, <1>2, <1>4 DEF JobsOf, Mirrored, OperationMirrorsJob
  <2>2. CASE j \in S
    BY <1>1, <1>2, <2>1, <2>2 DEF OperationShows
  <2>3. CASE j \notin S
    BY <1>2, <2>1, <2>3
  <2> QED BY <2>2, <2>3
<1> QED BY <1>2, <1>3, <1>4 DEF Mirrored, OperationMirrorsJob

LEMMA NewJobMirrored ==
    ASSUME Inv, Mirrored, NEW n \in Jobs, job[n] = "none", NEW o \in Ops,
           op[o] = "none" \/ \E j \in Jobs : job[j] # "none" /\ opOf[j] = o,
           job' = [job EXCEPT ![n] = "queued"],
           opOf' = [opOf EXCEPT ![n] = o],
           op' = [op EXCEPT ![o] = "queued"]
    PROVE  Mirrored'
<1>1. \A j \in Jobs : IF job'[j] = "none" THEN opOf'[j] = NoOp
                     ELSE opOf'[j] \in Ops /\ op'[opOf'[j]] # "none"
  BY DEF Mirrored, Inv, TypeOK
<1>2. ASSUME NEW j \in Jobs, job'[j] # "none", {i \in Jobs : opOf'[i] = opOf'[j]} = {j}
      PROVE  op'[opOf'[j]] \in OperationShows(job'[j])
  <2>1. CASE j = n
    BY <2>1 DEF Inv, TypeOK, OperationShows
  <2>2. CASE j # n
    <3>1. opOf'[j] = opOf[j] /\ job'[j] = job[j] /\ opOf[j] # o /\ opOf[j] \in Ops
      BY <1>2, <2>2 DEF Inv, TypeOK, JobsOf, Mirrored
    <3>2. JobsOf(opOf[j]) = {j}
      BY <1>2, <3>1, NoOpAssumption DEF Inv, TypeOK, JobsOf, Mirrored
    <3> QED BY <1>2, <3>1, <3>2 DEF Inv, TypeOK, Mirrored, OperationMirrorsJob
  <2> QED BY <2>1, <2>2
<1> QED BY <1>1, <1>2 DEF Mirrored, OperationMirrorsJob, JobsOf

LEMMA RequestCancellationMirrored ==
    ASSUME Inv, Mirrored, NEW o \in Ops, RequestCancellation(o)
    PROVE  Mirrored'
<1>1. /\ opOf' = opOf
      /\ op' = [op EXCEPT ![o] = CancelTarget(op[o])]
      /\ \A j \in Jobs : job'[j] = IF opOf[j] = o /\ job[j] \in {"queued", "retry_wait"}
                                  THEN "cancelled" ELSE job[j]
      /\ op[o] # "retry_wait"
      /\ op[o] \notin Finished \cup {"none", "cancelled"}
  BY DEF RequestCancellation, Claimable, ValidOperationTransition, OperationTransitions,
         CancelTarget, TerminalOperationStates, Finished
<1>2. \A j \in Jobs : IF job'[j] = "none" THEN opOf'[j] = NoOp
                     ELSE opOf'[j] \in Ops /\ op'[opOf'[j]] # "none"
  BY <1>1, NoOpAssumption DEF Mirrored, Inv, TypeOK, CancelTarget
<1>3. ASSUME NEW j \in Jobs, job'[j] # "none", JobsOf(opOf[j])' = {j}
      PROVE  op'[opOf[j]] \in OperationShows(job'[j])
  <2>1. /\ JobsOf(opOf[j]) = {j} /\ job[j] # "none" /\ opOf[j] \in Ops
        /\ op[opOf[j]] \in OperationShows(job[j])
    BY <1>1, <1>3 DEF JobsOf, Mirrored, OperationMirrorsJob
  <2>2. CASE opOf[j] # o
    BY <1>1, <2>1, <2>2 DEF Inv, TypeOK
  <2>3. CASE opOf[j] = o
    <3>1. op'[o] = CancelTarget(op[o])
      BY <1>1 DEF Inv, TypeOK
    <3>2. CASE job[j] = "running"
      BY <1>1, <2>1, <2>3, <3>1, <3>2 DEF OperationShows, CancelTarget
    <3>3. CASE job[j] # "running"
      BY <1>1, <2>1, <2>3, <3>1, <3>3 DEF OperationShows, CancelTarget, Inv, TypeOK, JobStatus,
                                          Finished
    <3> QED BY <3>2, <3>3
  <2> QED BY <2>2, <2>3
<1> QED BY <1>1, <1>2, <1>3 DEF Mirrored, OperationMirrorsJob

\* With claims that nothing interleaves, the row of an operation that was
\* never retried always shows the status of its job.
THEOREM OperationsMirrorJobs ==
    ASSUME AtomicClaim
    PROVE  Spec => []OperationMirrorsJob
<1>1. Init => Mirrored
  BY DEF Init, Mirrored, OperationMirrorsJob
<1>2. Inv /\ Fresh /\ Mirrored /\ [Next]_vars => Mirrored'
  <2> SUFFICES ASSUME Inv, Fresh, Mirrored, [Next]_vars PROVE Mirrored'
    OBVIOUS
  <2>1. CASE UNCHANGED <<op, job, opOf>>
    BY <2>1 DEF Mirrored, OperationMirrorsJob, JobsOf
  <2>2. ASSUME NEW o \in Ops, Submit(o)
        PROVE  Mirrored'
    BY <2>2, NewJobMirrored DEF Submit
  <2>3. ASSUME NEW j \in Jobs, RetryJob(j)
        PROVE  Mirrored'
    <3>1. job[j] # "none" /\ opOf[j] \in Ops
      BY <2>3 DEF RetryJob, Mirrored
    <3> QED BY <2>3, <3>1, NewJobMirrored DEF RetryJob
  <2>4. ASSUME NEW w \in Workers, WorkerStep(w)
        PROVE  Mirrored'
    <3>1. CASE ClaimNow(w)
      BY <3>1, TakeMirrored DEF ClaimNow
    <3>2. CASE ClaimLock(w)
      BY <3>2 DEF ClaimLock, Fresh
    <3>3. CASE \E c \in held[w] : Finish(w, c)
      BY <3>3, FinishMirrored
    <3>4. CASE ClaimScan(w) \/ \E c \in held[w] : Start(w, c) \/ ObserveCancel(w, c) \/ LeaseLost(w, c)
      BY <2>1, <3>4 DEF ClaimScan, Start, ObserveCancel, LeaseLost, rows
    <3> QED BY <2>4, <3>1, <3>2, <3>3, <3>4 DEF WorkerStep
  <2>5. CASE UNCHANGED vars \/ \E w \in Workers : Abandon(w)
    BY <2>1, <2>5 DEF vars, Abandon, rows
  <2> QED BY <2>2, <2>3, <2>4, <2>5, RequestCancellationMirrored DEF Next
<1>3. Mirrored => OperationMirrorsJob
  BY DEF Mirrored
<1>4. Spec => []Fresh
  BY NoStaleScan
<1> QED BY <1>1, <1>2, <1>3, <1>4, Invariance, PTL DEF Spec
-----------------------------------------------------------------------------
\* A job that waits has an attempt left, and one that does not exist has none.
BudgetLeft ==
    \A j \in Jobs :
        /\ AttemptCount(j) <= MaxAttempts
        /\ job[j] = "none" => AttemptCount(j) = 0
        /\ Claimable(j) => AttemptCount(j) < MaxAttempts

LEMMA FinishBudget ==
    ASSUME Inv, BudgetLeft, NEW w \in Workers, NEW c \in held[w], Finish(w, c)
    PROVE  BudgetLeft'
<1>1. /\ c.job \in Jobs /\ job[c.job] = "running"
      /\ c.attempt = AttemptCount(c.job) /\ c.attempt \in DOMAIN run[c.job]
  BY FinishShape, FencedAttempt DEF Inv, TypeOK, AttemptCount
<1>2. PICK status \in RunStatus \ {"running"} : Record(c, status)
  BY FinishShape DEF Inv
<1>3. \A j \in Jobs : AttemptCount(j)' = AttemptCount(j)
  BY <1>1, <1>2 DEF Record, AttemptCount, Inv, TypeOK
<1>4. \A j \in Jobs \ {c.job} : job'[j] = job[j]
  BY <1>2 DEF Record
<1>5. job'[c.job] # "none" /\ (Claimable(c.job)' => c.attempt < MaxAttempts)
  <2>1. CASE Fail(w, c)
    BY <1>1, <2>1 DEF Fail, Record, Claimable, Inv, TypeOK
  <2>2. CASE Complete(w, c)
    BY <1>1, <2>2 DEF Complete, Record, Claimable, Inv, TypeOK
  <2>3. CASE CancelClaimed(w, c)
    BY <1>1, <2>3 DEF CancelClaimed, Record, Claimable, Inv, TypeOK
  <2> QED BY <2>1, <2>2, <2>3 DEF Finish
<1> QED BY <1>1, <1>3, <1>4, <1>5 DEF BudgetLeft, Claimable

LEMMA TakeBudget ==
    ASSUME Inv, BudgetLeft, NEW w \in Workers, NEW S \in Batches, Take(w, S)
    PROVE  BudgetLeft'
<1>1. S \in SUBSET Jobs /\ \A j \in S : Claimable(j)
  BY DEF Batches
<1>2. /\ \A j \in S : AttemptCount(j)' = AttemptCount(j) + 1 /\ AttemptCount(j) \in Nat
      /\ \A j \in Jobs \ S : AttemptCount(j)' = AttemptCount(j)
  BY <1>1, TakeAttempts DEF Inv, AttemptCount
<1>3. \A j \in Jobs : job'[j] = IF j \in S THEN "running" ELSE job[j]
  BY DEF Take
<1> QED BY <1>1, <1>2, <1>3, MaxAttemptsAssumption DEF BudgetLeft, Claimable

\* With claims that nothing interleaves, no job is run more often than
\* max_attempts allows.
THEOREM AttemptsAreBounded ==
    ASSUME AtomicClaim
    PROVE  Spec => []AttemptsWithinBudget
<1>1. Init => BudgetLeft
  BY MaxAttemptsAssumption DEF Init, BudgetLeft, AttemptCount, Claimable
<1>2. Inv /\ Fresh /\ BudgetLeft /\ [Next]_vars => BudgetLeft'
  <2> SUFFICES ASSUME Inv, Fresh, BudgetLeft, [Next]_vars PROVE BudgetLeft'
    OBVIOUS
  <2>1. CASE UNCHANGED <<job, run>>
    BY <2>1 DEF BudgetLeft, AttemptCount, Claimable
  <2>2. ASSUME run' = run, NEW n \in Jobs, job[n] = "none",
               job' = [job EXCEPT ![n] = "queued"]
        PROVE  BudgetLeft'
    BY <2>2, MaxAttemptsAssumption DEF BudgetLeft, AttemptCount, Claimable, Inv, TypeOK
  <2>3. ASSUME NEW o \in Ops, Submit(o)
        PROVE  BudgetLeft'
    BY <2>2, <2>3 DEF Submit
  <2>4. ASSUME NEW j \in Jobs, RetryJob(j)
        PROVE  BudgetLeft'
    BY <2>2, <2>4 DEF RetryJob
  <2>5. ASSUME NEW o \in Ops, RequestCancellation(o)
        PROVE  BudgetLeft'
    <3>1. run' = run /\ \A j \in Jobs : job'[j] \in {job[j], "cancelled"}
      BY <2>5 DEF RequestCancellation
    <3> QED BY <3>1 DEF BudgetLeft, AttemptCount, Claimable
  <2>6. ASSUME NEW w \in Workers, WorkerStep(w)
        PROVE  BudgetLeft'
    <3>1. CASE ClaimNow(w)
      BY <3>1, TakeBudget DEF ClaimNow
    <3>2. CASE ClaimLock(w)
      BY <3>2 DEF ClaimLock, Fresh
    <3>3. CASE \E c \in held[w] : Finish(w, c)
      BY <3>3, FinishBudget
    <3>4. CASE ClaimScan(w) \/ \E c \in held[w] : Start(w, c) \/ ObserveCancel(w, c) \/ LeaseLost(w, c)
      BY <2>1, <3>4 DEF ClaimScan, Start, ObserveCancel, LeaseLost, rows
    <3> QED BY <2>6, <3>1, <3>2, <3>3, <3>4 DEF WorkerStep
  <2>7. CASE UNCHANGED vars \/ \E w \in Workers : Abandon(w)
    BY <2>1, <2>7 DEF vars, Abandon, rows
  <2> QED BY <2>3, <2>4, <2>5, <2>6, <2>7 DEF Next
<1>3. BudgetLeft => AttemptsWithinBudget
  BY DEF BudgetLeft, AttemptsWithinBudget
<1>4. Spec => []Fresh
  BY NoStaleScan
<1> QED BY <1>1, <1>2, <1>3, <1>4, Invariance, PTL DEF Spec
=============================================================================

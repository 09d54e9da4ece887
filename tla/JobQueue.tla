------------------------------ MODULE JobQueue ------------------------------
(***************************************************************************)
(* The PostgreSQL-backed job runtime of platform-api: modules/jobs.py and  *)
(* the loops that drive it (rag_worker.py, worker.py).  An asynchronous    *)
(* operation owns one job, or several after an administrator retried it.   *)
(* Worker processes claim jobs in batches under a lease, run them one      *)
(* after the other and record the outcome in the job row, in the row of    *)
(* the attempt (ops_job_run) and in the operation row.  API handlers       *)
(* cancel operations and retry jobs meanwhile.                             *)
(*                                                                         *)
(* One action is one committed database transaction, except that the claim *)
(* is two steps when AtomicClaim is FALSE: its SELECT takes a snapshot,    *)
(* and the rows are locked and updated later.  The status test is in the   *)
(* subquery `fair`, which PostgreSQL does not re-evaluate after locking.   *)
(***************************************************************************)
EXTENDS Naturals, Sequences, FiniteSets

CONSTANTS Ops,          \* operations, one per (workspace, type, idempotency key)
          Jobs,         \* identities of job rows
          Workers,      \* worker processes of the one queue modelled
          NoOp,         \* the operation of a job row that does not exist
          WorkspaceOf,  \* the workspace of each operation
          Cancellable,  \* the operations submitted with cancellable = TRUE
          MaxAttempts,  \* ops_job.max_attempts
          Queue,        \* "rag" (rag_worker.py) or "platform" (worker.py)
          AtomicClaim,  \* TRUE: no transaction commits within a claim
          MaxRetries,   \* bound: how many jobs administrators re-create
          MaxAbandons   \* bound: how many times a worker drops its batch

ASSUME NoOpAssumption == NoOp \notin Ops
ASSUME MaxAttemptsAssumption == MaxAttempts \in Nat \ {0}
ASSUME QueueAssumption == Queue \in {"rag", "platform"}
ASSUME AtomicClaimAssumption == AtomicClaim \in BOOLEAN
ASSUME BoundsAssumption == MaxRetries \in Nat /\ MaxAbandons \in Nat

VARIABLES op,        \* status of each operation
          job,       \* status of each job
          opOf,      \* ops_job.operation_id
          lease,     \* lease token: the attempt it was drawn for, 0 for NULL
          run,       \* ops_job_run: the status of each attempt, in order
          dlq,       \* jobs with a row in ops_job_dlq
          scan,      \* rows a claim has selected and not yet locked
          held,      \* the ClaimedJob values a worker holds
          retries,   \* how many jobs were re-created
          abandons   \* how many batches were dropped

rows == <<op, job, opOf, lease, run, dlq>>
vars == <<op, job, opOf, lease, run, dlq, scan, held, retries, abandons>>

-----------------------------------------------------------------------------
(* Statuses and the transition table of jobs.py *)

TerminalOperationStates ==
    {"succeeded", "partially_succeeded", "failed", "cancelled", "expired"}

OperationTransitions ==
    [queued           |-> {"running", "cancelled", "expired"},
     running          |-> {"retry_wait", "cancel_requested", "succeeded",
                           "partially_succeeded", "failed"},
     retry_wait       |-> {"running", "cancel_requested", "failed"},
     cancel_requested |-> {"cancelled", "succeeded", "partially_succeeded", "failed"}]

OpStatus == {"none"} \cup DOMAIN OperationTransitions \cup TerminalOperationStates

Finished == {"succeeded", "partially_succeeded", "failed"}
JobStatus == {"none", "queued", "running", "retry_wait", "cancelled"} \cup Finished
RunStatus == {"running", "retry_wait", "cancelled"} \cup Finished
Phase == {"waiting", "running", "cancelling"}

Claim == [job : Jobs, attempt : Nat \ {0}, phase : Phase]

\* validate_operation_transition raises unless this holds
ValidOperationTransition(current, target) ==
    \/ current = target
    \/ /\ current \in DOMAIN OperationTransitions
       /\ target \in OperationTransitions[current]

-----------------------------------------------------------------------------
AttemptCount(j) == Len(run[j])

JobsOf(o) == {j \in Jobs : opOf[j] = o}

\* The status test of `fair`.  Its lease test is always true of such rows
\* (LeaseWhileRunning).  Due times, priorities, LIMIT and the rows passed over
\* by SKIP LOCKED are abstracted: a claim may select any of these rows.
Claimable(j) == job[j] \in {"queued", "retry_wait"}

\* DISTINCT ON (workspace_id): at most one row per workspace
OnePerWorkspace(S) ==
    \A i, j \in S : WorkspaceOf[opOf[i]] = WorkspaceOf[opOf[j]] => i = j

\* The fence of every finishing statement: WHERE id = .. AND lease_token = ..
HoldsLeaseMutant(c) == TRUE
HoldsLease(c) == lease[c.job] = c.attempt

Retryable == Queue = "rag"

Drop(w, c) == held' = [held EXCEPT ![w] = @ \ {c}]

-----------------------------------------------------------------------------
(* API handlers *)

\* submit_operation: an operation and its first job, both queued.  A
\* repeated submission with the same key returns the existing row.
Submit(o) ==
    /\ op[o] = "none"
    /\ \E j \in Jobs :
        /\ job[j] = "none"
        /\ op' = [op EXCEPT ![o] = "queued"]
        /\ job' = [job EXCEPT ![j] = "queued"]
        /\ opOf' = [opOf EXCEPT ![j] = o]
    /\ UNCHANGED <<lease, run, dlq, scan, held, retries, abandons>>

CancelTarget(status) ==
    IF status \in {"queued", "retry_wait"} THEN "cancelled" ELSE "cancel_requested"

\* request_cancellation, on behalf of cancel_operation and cancel_job.  The
\* handler raises, and changes nothing, when the table refuses the target.
RequestCancellationMutant(o) ==
    /\ o \in Cancellable
    /\ op[o] \notin TerminalOperationStates \cup {"none"}
    /\ ValidOperationTransition(op[o], CancelTarget(op[o]))
    /\ op' = [op EXCEPT ![o] = CancelTarget(op[o])]
    /\ job' = [j \in Jobs |-> IF opOf[j] = o /\ job[j] \notin Finished
                              THEN "cancelled" ELSE job[j]]
    /\ UNCHANGED <<opOf, lease, run, dlq, scan, held, retries, abandons>>
RequestCancellationUnleasedMutant(o) ==
    /\ o \in Cancellable
    /\ op[o] \notin TerminalOperationStates \cup {"none"}
    /\ ValidOperationTransition(op[o], CancelTarget(op[o]))
    /\ op' = [op EXCEPT ![o] = CancelTarget(op[o])]
    /\ job' = [j \in Jobs |-> IF opOf[j] = o /\ Claimable(j)
                              THEN "cancelled" ELSE job[j]]
    /\ lease' = [j \in Jobs |-> IF opOf[j] = o THEN 0 ELSE lease[j]]
    /\ UNCHANGED <<opOf, run, dlq, scan, held, retries, abandons>>
RequestCancellation(o) ==
    /\ o \in Cancellable
    /\ op[o] \notin TerminalOperationStates \cup {"none"}
    /\ ValidOperationTransition(op[o], CancelTarget(op[o]))
    /\ op' = [op EXCEPT ![o] = CancelTarget(op[o])]
    /\ job' = [j \in Jobs |-> IF opOf[j] = o /\ Claimable(j)
                              THEN "cancelled" ELSE job[j]]
    /\ UNCHANGED <<opOf, lease, run, dlq, scan, held, retries, abandons>>

\* retry_job, also reached through replay_dead_letter: a new job under the
\* same operation.  The source row keeps its status and may be retried again.
RetryJob(j) ==
    /\ job[j] \in {"failed", "cancelled"}
    /\ retries < MaxRetries
    /\ retries' = retries + 1
    /\ \E n \in Jobs :
        /\ job[n] = "none"
        /\ job' = [job EXCEPT ![n] = "queued"]
        /\ opOf' = [opOf EXCEPT ![n] = opOf[j]]
    /\ op' = [op EXCEPT ![opOf[j]] = "queued"]
    /\ UNCHANGED <<lease, run, dlq, scan, held, abandons>>

-----------------------------------------------------------------------------
(* claim_jobs *)

\* The UPDATE, the INSERT of the run rows and the guarded update of the
\* operations, for the rows S the statement has locked.
TakeUnnumberedMutant(w, S) ==
    /\ job' = [j \in Jobs |-> IF j \in S THEN "running" ELSE job[j]]
    /\ run' = [j \in Jobs |-> IF j \in S /\ run[j] = <<>> THEN <<"running">> ELSE run[j]]
    /\ lease' = [j \in Jobs |-> IF j \in S THEN 1 ELSE lease[j]]
    /\ op' = [o \in Ops |->
                IF op[o] \in {"queued", "retry_wait"} /\ S \cap JobsOf(o) # {}
                THEN "running" ELSE op[o]]
    /\ held' = [held EXCEPT ![w] = {[job |-> j, attempt |-> 1, phase |-> "waiting"] : j \in S}]
    /\ UNCHANGED <<opOf, dlq, retries, abandons>>
Take(w, S) ==
    /\ job' = [j \in Jobs |-> IF j \in S THEN "running" ELSE job[j]]
    /\ run' = [j \in Jobs |-> IF j \in S THEN Append(run[j], "running") ELSE run[j]]
    /\ lease' = [j \in Jobs |-> IF j \in S THEN AttemptCount(j) + 1 ELSE lease[j]]
    /\ op' = [o \in Ops |->
                IF op[o] \in {"queued", "retry_wait"} /\ S \cap JobsOf(o) # {}
                THEN "running" ELSE op[o]]
    /\ held' = [held EXCEPT ![w] =
                  {[job |-> j, attempt |-> AttemptCount(j) + 1, phase |-> "waiting"] : j \in S}]
    /\ UNCHANGED <<opOf, dlq, retries, abandons>>

\* a worker asks for work once it is done with its previous batch
Idle(w) == held[w] = {} /\ scan[w] = {}

Batches ==
    {S \in SUBSET {j \in Jobs : Claimable(j)} : S # {} /\ OnePerWorkspace(S)}

ClaimNow(w) ==
    /\ AtomicClaim
    /\ Idle(w)
    /\ \E S \in Batches : Take(w, S)
    /\ UNCHANGED scan

ClaimScan(w) ==
    /\ ~AtomicClaim
    /\ Idle(w)
    /\ \E S \in Batches : scan' = [scan EXCEPT ![w] = S]
    /\ UNCHANGED <<rows, held, retries, abandons>>

ClaimLock(w) ==
    /\ scan[w] # {}
    /\ Take(w, scan[w])
    /\ scan' = [scan EXCEPT ![w] = {}]

-----------------------------------------------------------------------------
(* The loop over the batch: process_rag_jobs and process_platform_jobs *)

\* The first heartbeat of a job, whose answer both loops ignore.  Jobs of a
\* batch run one at a time.
Start(w, c) ==
    /\ c.phase = "waiting"
    /\ \A d \in held[w] : d.phase = "waiting"
    /\ held' = [held EXCEPT ![w] = (@ \ {c}) \cup {[c EXCEPT !.phase = "running"]}]
    /\ UNCHANGED <<rows, scan, retries, abandons>>

\* The job code decides to stop: it reads the operation's status, or finds
\* that the document, chunk or dataset is gone, or the work plan cancelled.
ObserveCancel(w, c) ==
    /\ c.phase = "running"
    /\ held' = [held EXCEPT ![w] = (@ \ {c}) \cup {[c EXCEPT !.phase = "cancelling"]}]
    /\ UNCHANGED <<rows, scan, retries, abandons>>

\* What complete_job, cancel_claimed_job and fail_job write in common.
RecordMutant(c, status) ==
    /\ job' = [job EXCEPT ![c.job] = status]
    /\ lease' = [lease EXCEPT ![c.job] = 0]
    /\ UNCHANGED run
Record(c, status) ==
    /\ job' = [job EXCEPT ![c.job] = status]
    /\ lease' = [lease EXCEPT ![c.job] = 0]
    /\ run' = [run EXCEPT ![c.job][c.attempt] = status]

\* A finishing statement whose fence matches no row changes nothing.
LeaseLost(w, c) ==
    /\ c.phase # "waiting"
    /\ ~HoldsLease(c)
    /\ Drop(w, c)
    /\ UNCHANGED <<rows, scan, retries, abandons>>

\* complete_job: the operation's status is overwritten whatever it is.
\* Only worker.py passes partial=True.
CompletePartialMutant(w, c) ==
    /\ c.phase = "running"
    /\ HoldsLease(c)
    /\ \E status \in {"succeeded", "partial"} :
        /\ Record(c, status)
        /\ op' = [op EXCEPT ![opOf[c.job]] = status]
    /\ Drop(w, c)
    /\ UNCHANGED <<opOf, dlq, scan, retries, abandons>>
CompleteMutant(w, c) ==
    /\ c.phase = "running"
    /\ HoldsLease(c)
    /\ \E status \in {"succeeded", "partially_succeeded"} :
        /\ job' = [job EXCEPT ![c.job] = status]
        /\ lease' = [lease EXCEPT ![c.job] = 0]
        /\ run' = [run EXCEPT ![c.job][c.attempt] = status]
    /\ Drop(w, c)
    /\ UNCHANGED <<op, opOf, dlq, scan, retries, abandons>>
Complete(w, c) ==
    /\ c.phase = "running"
    /\ HoldsLease(c)
    /\ \E status \in {"succeeded", "partially_succeeded"} :
        /\ Queue = "rag" => status = "succeeded"
        /\ Record(c, status)
        /\ op' = [op EXCEPT ![opOf[c.job]] = status]
    /\ Drop(w, c)
    /\ UNCHANGED <<opOf, dlq, scan, retries, abandons>>

\* cancel_claimed_job: the only finishing call that spares a final operation.
CancelClaimed(w, c) ==
    /\ c.phase = "cancelling"
    /\ HoldsLease(c)
    /\ Record(c, "cancelled")
    /\ op' = IF op[opOf[c.job]] \in Finished \cup {"cancelled"} THEN op
             ELSE [op EXCEPT ![opOf[c.job]] = "cancelled"]
    /\ Drop(w, c)
    /\ UNCHANGED <<opOf, dlq, scan, retries, abandons>>

\* fail_job: any exception of the job, or of the finishing transaction
\* itself, which was rolled back.  worker.py passes retryable=False.
FailMutant(w, c) ==
    /\ c.phase # "waiting"
    /\ HoldsLease(c)
    /\ LET retry == Retryable /\ c.attempt < MaxAttempts
           status == IF retry THEN "retry_wait" ELSE "failed"
       IN /\ Record(c, status)
          /\ op' = [op EXCEPT ![opOf[c.job]] = status]
          /\ UNCHANGED dlq
    /\ Drop(w, c)
    /\ UNCHANGED <<opOf, scan, retries, abandons>>
FailAgainMutant(w, c) ==
    /\ c.phase # "waiting"
    /\ HoldsLease(c)
    /\ LET status == IF c.attempt <= MaxAttempts THEN "retry_wait" ELSE "failed"
       IN /\ Record(c, status)
          /\ op' = [op EXCEPT ![opOf[c.job]] = status]
          /\ dlq' = IF status = "failed" THEN dlq \cup {c.job} ELSE dlq
    /\ Drop(w, c)
    /\ UNCHANGED <<opOf, scan, retries, abandons>>
Fail(w, c) ==
    /\ c.phase # "waiting"
    /\ HoldsLease(c)
    /\ LET retry == Retryable /\ c.attempt < MaxAttempts
           status == IF retry THEN "retry_wait" ELSE "failed"
       IN /\ Record(c, status)
          /\ op' = [op EXCEPT ![opOf[c.job]] = status]
          /\ dlq' = IF retry THEN dlq ELSE dlq \cup {c.job}
    /\ Drop(w, c)
    /\ UNCHANGED <<opOf, scan, retries, abandons>>

\* The process dies, or an exception of fail_job itself escapes the batch
\* loop: the rows stay as they are and nobody holds the claims any more.
Abandon(w) ==
    /\ ~Idle(w)
    /\ abandons < MaxAbandons
    /\ abandons' = abandons + 1
    /\ held' = [held EXCEPT ![w] = {}]
    /\ scan' = [scan EXCEPT ![w] = {}]
    /\ UNCHANGED <<rows, retries>>

-----------------------------------------------------------------------------
Init ==
    /\ op = [o \in Ops |-> "none"]
    /\ job = [j \in Jobs |-> "none"]
    /\ opOf = [j \in Jobs |-> NoOp]
    /\ lease = [j \in Jobs |-> 0]
    /\ run = [j \in Jobs |-> <<>>]
    /\ dlq = {}
    /\ scan = [w \in Workers |-> {}]
    /\ held = [w \in Workers |-> {}]
    /\ retries = 0
    /\ abandons = 0

Finish(w, c) == Complete(w, c) \/ CancelClaimed(w, c) \/ Fail(w, c)

WorkerStep(w) ==
    \/ ClaimNow(w) \/ ClaimScan(w) \/ ClaimLock(w)
    \/ \E c \in held[w] :
        Start(w, c) \/ ObserveCancel(w, c) \/ Finish(w, c) \/ LeaseLost(w, c)

Next ==
    \/ \E o \in Ops : Submit(o) \/ RequestCancellation(o)
    \/ \E j \in Jobs : RetryJob(j)
    \/ \E w \in Workers : WorkerStep(w) \/ Abandon(w)

Spec == Init /\ [][Next]_vars

\* The worker loops never stop and every job handler returns or raises.
FairSpec == Spec /\ \A w \in Workers : WF_vars(WorkerStep(w))
-----------------------------------------------------------------------------
(* Properties *)

\* Every variable has its type: statuses, lease tokens, run histories, the
\* claims workers hold and the rows they have selected.
TypeOK ==
    /\ op \in [Ops -> OpStatus]
    /\ job \in [Jobs -> JobStatus]
    /\ opOf \in [Jobs -> Ops \cup {NoOp}]
    /\ lease \in [Jobs -> Nat]
    /\ run \in [Jobs -> Seq(RunStatus)]
    /\ dlq \in SUBSET Jobs
    /\ scan \in [Workers -> SUBSET Jobs]
    /\ held \in [Workers -> SUBSET Claim]
    /\ retries \in Nat
    /\ abandons \in Nat

\* A job has a lease exactly while it is running, and the token is the one of
\* its last attempt (claim_jobs sets it, every finishing call clears it).
LeaseWhileRunning ==
    \A j \in Jobs :
        /\ (lease[j] # 0) <=> (job[j] = "running")
        /\ lease[j] # 0 => lease[j] = AttemptCount(j)

\* No two claims carry the same token: even when two workers claim the same
\* row through stale snapshots, at most one of them passes the fence.
ClaimsAreUnique ==
    \A v, w \in Workers : \A c \in held[v], d \in held[w] :
        c.job = d.job /\ c.attempt = d.attempt => v = w /\ c = d

\* A claim never refers to an attempt that was not recorded.
ClaimsAreRecorded ==
    \A w \in Workers : \A c \in held[w] : c.attempt <= AttemptCount(c.job)

\* The job row and the row of its last attempt agree: the attempt is open
\* while the job runs and shows the outcome the job finished with
\* (complete_job, fail_job), whatever stale workers did in between.
JobAgreesWithLastRun ==
    \A j \in Jobs :
        job[j] \in {"running", "retry_wait"} \cup Finished =>
            run[j] # <<>> /\ run[j][AttemptCount(j)] = job[j]

\* Every failed job is in the dead-letter table, so that it can be replayed
\* (fail_job), also after it was claimed again through a stale snapshot.
FailedIsDeadLettered == \A j \in Jobs : job[j] = "failed" => j \in dlq

\* The outcome of an attempt is written once: a worker that lost its lease
\* can never overwrite a finished row of ops_job_run.
RunOutcomeIsFinal ==
    [][\A j \in Jobs : \A k \in 1..AttemptCount(j) :
        run[j][k] # "running" => k \in DOMAIN run'[j] /\ run'[j][k] = run[j][k]]_vars

\* A running job is only ended by a worker that holds its current token; a
\* cancellation request or a retry leaves it to that worker.
OnlyHolderFinishes ==
    [][\A j \in Jobs : job[j] = "running" /\ job'[j] # "running" =>
        \E w \in Workers : \E c \in held[w] :
            c.job = j /\ c.attempt = AttemptCount(j) /\ c \notin held'[w]]_vars

\* A job row that reached a final status keeps it: retries create new rows.
\* Holds when nothing commits within a claim (AtomicClaim).
FinalJobStays ==
    [][\A j \in Jobs :
        job[j] \in Finished \cup {"cancelled"} => job'[j] = job[j]]_vars

\* The attempts the workers hold, without how far they are with them.
Granted == [w \in Workers |-> {[job |-> c.job, attempt |-> c.attempt] : c \in held[w]}]

Attempts == INSTANCE FencedAttempts
                WITH attempts <- run, granted <- Granted, deaths <- abandons,
                     Outcomes <- RunStatus \ {"running"}

\* The runtime implements FencedAttempts, through stale claims, cancellations,
\* retries and deaths: an attempt is decided by the worker it was claimed for
\* or by nobody, and the fence (WHERE lease_token = ..) refuses an outcome
\* only when a later attempt exists.
FencesAttempts == Attempts!Spec

\* What the operation row shows for a job in a given status.
OperationShows(status) ==
    IF status = "running" THEN {"running", "cancel_requested"} ELSE {status}

\* An operation with a single job, never retried, shows the status of that
\* job: neither can be final without the other.
OperationMirrorsJob ==
    \A j \in Jobs : job[j] # "none" /\ JobsOf(opOf[j]) = {j} =>
        op[opOf[j]] \in OperationShows(job[j])

\* A job is never run more often than ops_job.max_attempts allows.
AttemptsWithinBudget == \A j \in Jobs : AttemptCount(j) <= MaxAttempts

\* A cancellation request, once accepted, is never forgotten: the operation
\* goes on to a final status, as OPERATION_TRANSITIONS says for it.
CancellationIsNotForgotten ==
    [][\A o \in Ops : op[o] = "cancel_requested" =>
        ValidOperationTransition(op[o], op'[o])]_vars

\* TERMINAL_OPERATION_STATES: a final operation stays as it is (the table
\* gives final statuses no successor; test_job_runtime.py:20-21).
FinalOperationStays ==
    [][\A o \in Ops : op[o] \in TerminalOperationStates => op'[o] = op[o]]_vars

\* jobs.py:222-225: a queued or retry-wait operation can be cancelled directly.
WaitingOperationCanBeCancelled ==
    \A o \in Cancellable : op[o] \in {"queued", "retry_wait"} =>
        ENABLED RequestCancellation(o)

\* An operation that is not final is never left behind: while it is queued or
\* waits for a retry one of its jobs can be claimed, and while it runs, with a
\* cancellation requested or not, one of its jobs is running, in the hands of
\* a worker that passes the fence unless a worker has died.
OpenOperationIsCared == \A o \in Ops :
    /\ op[o] \in {"queued", "retry_wait"} => \E j \in JobsOf(o) : Claimable(j)
    /\ op[o] \in {"running", "cancel_requested"} =>
         \E j \in JobsOf(o) :
            /\ job[j] = "running"
            /\ abandons = 0 => \E w \in Workers : \E c \in held[w] : c.job = j /\ HoldsLease(c)

\* the rows of a job whose worker is gone: its lease runs out and nobody looks
Stranded(o) == \E j \in JobsOf(o) :
    job[j] = "running" /\ \A w \in Workers : \A c \in held[w] : c.job # j

\* Every submitted operation reaches a final status, with any number of
\* competing workers, cancellations and retries, unless a worker drops its
\* batch and leaves a job of this very operation running.
OperationsTerminate == \A o \in Ops :
    op[o] # "none" ~> op[o] \in TerminalOperationStates \/ Stranded(o)
=============================================================================

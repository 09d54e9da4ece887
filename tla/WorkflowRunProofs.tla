-------------------------- MODULE WorkflowRunProofs --------------------------
(***************************************************************************)
(* TLAPS proofs about WorkflowRun, for any operations, jobs and workers    *)
(* and both settings of AtomicClaim.                                       *)
(***************************************************************************)
EXTENDS WorkflowRun, JobQueueProofs

-----------------------------------------------------------------------------
\* Every step of the composition is a step of the job runtime or leaves its
\* rows alone, so everything JobQueueProofs proves holds of it.
THEOREM RunsAreJobs == RunSpec => Spec
<1>1. RunInit => Init
  BY DEF RunInit
<1>2. [RunNext]_runVars => [Next]_vars
  <2> SUFFICES ASSUME RunNext PROVE [Next]_vars
    BY DEF runVars, queue
  <2>1. ASSUME NEW w \in Workers, NEW c \in held[w], Work(w, c)
        PROVE  [Next]_vars
    <3>1. \/ Start(w, c) \/ ObserveCancel(w, c) \/ Finish(w, c) \/ LeaseLost(w, c)
          \/ UNCHANGED vars
      BY <2>1 DEF Work, StartWork, Enter, Return, ReturnCancelled, Persist, RecordOutcome,
                  LoseWork, FailWork, Finish, queue
    <3> QED BY <3>1 DEF Next, WorkerStep
  <2>2. ASSUME NEW w \in Workers, ClaimWork(w) \/ MarkFailed(w) \/ Die(w)
        PROVE  [Next]_vars
    BY <2>2 DEF ClaimWork, MarkFailed, Die, Next, WorkerStep, queue
  <2>3. ASSUME NEW o \in Ops, StartRun(o) \/ CancelRun(o)
        PROVE  [Next]_vars
    BY <2>3 DEF StartRun, CancelRun, Next
  <2>4. ASSUME NEW j \in Jobs, Retry(j)
        PROVE  [Next]_vars
    BY <2>4 DEF Retry, Next
  <2> QED BY <2>1, <2>2, <2>3, <2>4 DEF RunNext, Serve
<1> QED BY <1>1, <1>2, PTL DEF RunSpec, Spec

\* The jobs of workflow runs keep the promises of the job runtime: their
\* attempts are fenced, and an operation that is not final is cared for.
THEOREM RunJobsAreFenced == RunSpec => FencesAttempts /\ []OpenOperationIsCared
BY RunsAreJobs, AttemptsAreFenced, OpenOperationsAreCared, PTL

-----------------------------------------------------------------------------
(* The inductive invariant.                                                *)

FlowTypes ==
    /\ flow \in [Ops -> FlowStatus]
    /\ task \in [Workers -> {"none", "enter", "graph", "record"} \cup Returned]
    /\ mark \in [Workers -> Ops \cup {NoOp}]
    /\ dropped \subseteq Ops

\* Rows and memory refer to operations that were submitted; worker.py never
\* asks for a second attempt.
Known ==
    /\ \A o \in Ops : op[o] = "none" <=> flow[o] = "none"
    /\ \A o \in Ops : op[o] # "retry_wait"
    /\ \A j \in Jobs : IF job[j] = "none" THEN opOf[j] = NoOp
                       ELSE opOf[j] \in Ops /\ op[opOf[j]] # "none"
    /\ \A w \in Workers :
        /\ \A j \in scan[w] : job[j] # "none"
        /\ \A c \in held[w] : job[c.job] # "none"
        /\ mark[w] # NoOp => op[mark[w]] # "none"

\* A worker executes one job at a time, and none while it marks a run.
OneInHand ==
    \A w \in Workers :
        /\ scan[w] # {} => held[w] = {}
        /\ \A c \in held[w] : c.phase # "waiting" =>
            /\ mark[w] = NoOp /\ task[w] # "none"
            /\ \A d \in held[w] : d.phase # "waiting" => c = d

\* When the rows of a job are about to get their outcome, its run has one, and
\* it is the same if the outcome is a cancellation.
RunIsFirst ==
    \A w \in Workers : \A c \in held[w] : c.phase # "waiting" =>
        /\ task[w] = "record" => flow[opOf[c.job]] \in Returned
        /\ c.phase = "cancelling" =>
            /\ task[w] \in {"cancelled", "record"}
            /\ task[w] = "record" => flow[opOf[c.job]] = "cancelled"

Claims(o) == \E w \in Workers : \E c \in held[w] : opOf[c.job] = o

\* Somebody will close the run of o: the worker that holds the lease of one of
\* its jobs, or one that is about to mark it; or a worker died.
Cared(o) ==
    \/ o \in dropped
    \/ \E w \in Workers : mark[w] = o
    \/ \E w \in Workers : \E c \in held[w] : opOf[c.job] = o /\ HoldsLease(c)

OpenIsCared ==
    \A o \in Ops : flow[o] \in OpenFlow =>
        Cared(o) \/ (flow[o] = "queued" /\ op[o] = "queued" /\ ~Claims(o))

Single(o) == \A i, j \in JobsOf(o) : i = j

\* An operation that was never retried and is queued has not been touched.
QueuedIsUntouched ==
    \A o \in Ops : op[o] = "queued" /\ Single(o) =>
        /\ flow[o] = "queued"
        /\ ~Claims(o)
        /\ \A w \in Workers : mark[w] # o

RunInv ==
    /\ FlowTypes /\ Known /\ OneInHand /\ RunIsFirst
    /\ OpenIsCared /\ QueuedIsUntouched /\ CancelledMeansCancelled

-----------------------------------------------------------------------------
(* What the steps have in common. *)

LEMMA ClaimFields ==
    ASSUME Inv, NEW w \in Workers, NEW c \in held[w]
    PROVE  c \in Claim /\ c.job \in Jobs /\ c.phase \in Phase /\ c.attempt \in Nat \ {0}
BY DEF Inv, TypeOK, Claim

\* The handlers of the API leave the workers and their claims alone.
LEMMA ApiFrame ==
    ASSUME Inv, RunInv, UNCHANGED <<scan, held, lease, task, mark, dropped>>,
           \A j \in Jobs : job[j] # "none" => opOf'[j] = opOf[j]
    PROVE  /\ OneInHand'
           /\ \A o \in Ops : (Claims(o)' <=> Claims(o)) /\ (Cared(o)' <=> Cared(o))
<1>1. OneInHand'
  BY DEF RunInv, OneInHand
<1>2. \A w \in Workers : \A c \in held[w] : opOf'[c.job] = opOf[c.job] /\ (HoldsLease(c)' <=> HoldsLease(c))
  BY ClaimFields DEF RunInv, Known, HoldsLease
<1> QED BY <1>1, <1>2 DEF Claims, Cared

LEMMA StartRunInv ==
    ASSUME Inv, RunInv, NEW o \in Ops, StartRun(o)
    PROVE  RunInv'
<1>1. PICK j \in Jobs : /\ job[j] = "none"
                        /\ op' = [op EXCEPT ![o] = "queued"]
                        /\ job' = [job EXCEPT ![j] = "queued"]
                        /\ opOf' = [opOf EXCEPT ![j] = o]
  BY DEF StartRun, Submit
<1>2. /\ op[o] = "none"
      /\ flow' = [flow EXCEPT ![o] = "queued"]
      /\ UNCHANGED <<scan, held, lease, task, mark, dropped>>
  BY DEF StartRun, Submit, SetFlow
<1>3. FlowTypes'
  BY <1>2 DEF RunInv, FlowTypes, FlowStatus, OpenFlow
<1>4. Known'
  BY <1>1, <1>2, ClaimFields DEF RunInv, Known, Inv, TypeOK, FlowTypes
<1>5. OneInHand' /\ \A x \in Ops : (Claims(x)' <=> Claims(x)) /\ (Cared(x)' <=> Cared(x))
  BY <1>1, <1>2, ApiFrame DEF Inv, TypeOK
<1>6. ~Claims(o) /\ \A w \in Workers : mark[w] # o
  BY <1>1, <1>2, ClaimFields, NoOpAssumption DEF RunInv, Known, Claims
<1>7. RunIsFirst'
  BY <1>1, <1>2, <1>6, ClaimFields DEF RunInv, RunIsFirst, Known, Claims, FlowTypes, Inv, TypeOK
<1>8. OpenIsCared'
  BY <1>1, <1>2, <1>5, <1>6 DEF RunInv, OpenIsCared, FlowTypes, Inv, TypeOK
<1>9. \A x \in Ops \ {o} : Single(x)' => Single(x)
  BY <1>1, NoOpAssumption DEF RunInv, Known, Single, JobsOf, Inv, TypeOK
<1>10. QueuedIsUntouched'
  BY <1>1, <1>2, <1>5, <1>6, <1>9 DEF RunInv, QueuedIsUntouched, FlowTypes, Inv, TypeOK
<1>11. CancelledMeansCancelled'
  BY <1>1, <1>2, <1>9 DEF RunInv, CancelledMeansCancelled, Single, FlowTypes, Inv, TypeOK
<1> QED BY <1>3, <1>4, <1>5, <1>7, <1>8, <1>10, <1>11 DEF RunInv

LEMMA CancelRunInv ==
    ASSUME Inv, RunInv, NEW o \in Ops, CancelRun(o)
    PROVE  RunInv'
<1>1. /\ op[o] \notin TerminalOperationStates \cup {"none"}
      /\ op' = [op EXCEPT ![o] = CancelTarget(op[o])]
      /\ job' = [j \in Jobs |-> IF opOf[j] = o /\ Claimable(j) THEN "cancelled" ELSE job[j]]
      /\ UNCHANGED <<opOf, lease, run, dlq, scan, held, retries, abandons>>
      /\ UNCHANGED <<task, mark, dropped>>
  BY DEF CancelRun, RequestCancellation
<1>2. flow' = IF op'[o] = "cancelled" /\ flow[o] = "queued"
              THEN [flow EXCEPT ![o] = "cancelled"] ELSE flow
  BY DEF CancelRun, SetFlow
<1>3. op'[o] = IF op[o] = "queued" THEN "cancelled" ELSE "cancel_requested"
  BY <1>1 DEF CancelTarget, RunInv, Known, Inv, TypeOK
<1>4. FlowTypes'
  BY <1>1, <1>2 DEF RunInv, FlowTypes, FlowStatus, FinalFlow
<1>5. Known'
  BY <1>1, <1>2, <1>3, ClaimFields DEF RunInv, Known, Inv, TypeOK, FlowTypes, Claimable
<1>6. OneInHand' /\ \A x \in Ops : (Claims(x)' <=> Claims(x)) /\ (Cared(x)' <=> Cared(x))
  BY <1>1, ApiFrame
<1>7. RunIsFirst'
  BY <1>1, <1>2, ClaimFields DEF RunInv, RunIsFirst, FlowTypes, Returned, FinalFlow
<1>8. OpenIsCared'
  BY <1>1, <1>2, <1>3, <1>6 DEF RunInv, OpenIsCared, FlowTypes, Inv, TypeOK, OpenFlow
<1>9. QueuedIsUntouched'
  BY <1>1, <1>2, <1>3, <1>6 DEF RunInv, QueuedIsUntouched, FlowTypes, Inv, TypeOK, Single, JobsOf
<1>10. CancelledMeansCancelled'
  BY <1>1, <1>2, <1>3 DEF RunInv, CancelledMeansCancelled, QueuedIsUntouched, Single, JobsOf,
                          FlowTypes, Inv, TypeOK
<1> QED BY <1>4, <1>5, <1>6, <1>7, <1>8, <1>9, <1>10 DEF RunInv

LEMMA RetryInv ==
    ASSUME Inv, RunInv, NEW j \in Jobs, Retry(j)
    PROVE  RunInv'
<1>1. PICK n \in Jobs : /\ job[n] = "none"
                        /\ job' = [job EXCEPT ![n] = "queued"]
                        /\ opOf' = [opOf EXCEPT ![n] = opOf[j]]
  BY DEF Retry, RetryJob
<1>2. /\ job[j] # "none"
      /\ op' = [op EXCEPT ![opOf[j]] = "queued"]
      /\ UNCHANGED <<scan, held, lease, flow, task, mark, dropped>>
  BY DEF Retry, RetryJob, flows
<1>3. opOf[j] \in Ops /\ op[opOf[j]] # "none" /\ opOf[n] = NoOp
  BY <1>1, <1>2 DEF RunInv, Known
<1>4. FlowTypes'
  BY <1>2 DEF RunInv, FlowTypes
<1>5. Known'
  BY <1>1, <1>2, <1>3, ClaimFields DEF RunInv, Known, Inv, TypeOK
<1>6. OneInHand' /\ \A x \in Ops : (Claims(x)' <=> Claims(x)) /\ (Cared(x)' <=> Cared(x))
  BY <1>1, <1>2, ApiFrame DEF Inv, TypeOK
<1>7. RunIsFirst'
  BY <1>1, <1>2, ClaimFields DEF RunInv, RunIsFirst, Known, Inv, TypeOK
<1>8. OpenIsCared'
  BY <1>2, <1>3, <1>6 DEF RunInv, OpenIsCared, Inv, TypeOK
<1>9. \A x \in Ops : Single(x)' => Single(x) /\ x # opOf[j]
  <2>1. \A i \in Jobs : opOf'[i] = IF i = n THEN opOf[j] ELSE opOf[i]
    BY <1>1 DEF Inv, TypeOK
  <2>2. j # n /\ opOf[n] \notin Ops
    BY <1>1, <1>2, <1>3, NoOpAssumption
  <2>3. \A x \in Ops : Single(x)' => x # opOf[j]
    BY <2>1, <2>2 DEF Single, JobsOf
  <2>4. ASSUME NEW x \in Ops, Single(x)'
        PROVE  Single(x)
    <3>1. JobsOf(x) \subseteq JobsOf(x)'
      BY <2>1, <2>2 DEF JobsOf
    <3> QED BY <2>4, <3>1 DEF Single, JobsOf
  <2> QED BY <2>3, <2>4
<1>10. QueuedIsUntouched' /\ CancelledMeansCancelled'
  BY <1>2, <1>3, <1>6, <1>9, ZenonT(30) DEF RunInv, QueuedIsUntouched, CancelledMeansCancelled, Single,
                                Inv, TypeOK
<1> QED BY <1>4, <1>5, <1>6, <1>7, <1>8, <1>10 DEF RunInv

-----------------------------------------------------------------------------
(* The worker: claims. *)

LEMMA ScanInv ==
    ASSUME Inv, RunInv, NEW w \in Workers, Free(w), ClaimScan(w), UNCHANGED flows
    PROVE  RunInv'
<1>1. PICK S \in Batches : scan' = [scan EXCEPT ![w] = S]
  BY DEF ClaimScan
<1>2. /\ held[w] = {} /\ UNCHANGED <<op, job, opOf, lease, held, flow, task, mark, dropped>>
      /\ \A j \in S : j \in Jobs /\ Claimable(j)
  BY DEF ClaimScan, Idle, rows, flows, Batches
<1>3. FlowTypes' /\ RunIsFirst'
  BY <1>2 DEF RunInv, FlowTypes, RunIsFirst
<1>4. Known'
  BY <1>1, <1>2 DEF RunInv, Known, Claimable, Inv, TypeOK
<1>5. OneInHand'
  BY <1>1, <1>2 DEF RunInv, OneInHand, Inv, TypeOK
<1>6. OpenIsCared' /\ QueuedIsUntouched' /\ CancelledMeansCancelled'
  BY <1>2 DEF RunInv, OpenIsCared, QueuedIsUntouched, CancelledMeansCancelled, Cared, Claims,
              HoldsLease, Single, JobsOf
<1> QED BY <1>3, <1>4, <1>5, <1>6 DEF RunInv

\* A worker that takes the rows S holds their leases from then on.
LEMMA TakeRunInv ==
    ASSUME Inv, RunInv, NEW w \in Workers, NEW S \in SUBSET Jobs, Free(w), held[w] = {},
           \A j \in S : job[j] # "none",
           Take(w, S), scan' \in [Workers -> SUBSET Jobs],
           scan'[w] = {}, \A v \in Workers \ {w} : scan'[v] = scan[v],
           UNCHANGED flows
    PROVE  RunInv'
<1> DEFINE mine == {[job |-> j, attempt |-> AttemptCount(j) + 1, phase |-> "waiting"] : j \in S}
<1>1. /\ job' = [j \in Jobs |-> IF j \in S THEN "running" ELSE job[j]]
      /\ lease' = [j \in Jobs |-> IF j \in S THEN AttemptCount(j) + 1 ELSE lease[j]]
      /\ op' = [o \in Ops |-> IF op[o] \in {"queued", "retry_wait"} /\ S \cap JobsOf(o) # {}
                               THEN "running" ELSE op[o]]
      /\ held' = [held EXCEPT ![w] = mine]
      /\ opOf' = opOf /\ UNCHANGED <<flow, task, mark, dropped>>
  BY DEF Take, flows
<1>2. /\ held'[w] = mine
      /\ \A v \in Workers \ {w} : held'[v] = held[v]
      /\ \A c \in mine : c.job \in S /\ c.phase = "waiting" /\ HoldsLease(c)'
      /\ \A j \in S : \E c \in mine : c.job = j
  <2>1. held'[w] = mine /\ \A v \in Workers \ {w} : held'[v] = held[v]
    BY <1>1 DEF Inv, TypeOK
  <2>2. \A j \in S : lease'[j] = AttemptCount(j) + 1
    BY <1>1
  <2>3. ASSUME NEW c \in mine
        PROVE  c.job \in S /\ c.phase = "waiting" /\ HoldsLease(c)'
    BY <2>2 DEF HoldsLease
  <2>4. ASSUME NEW j \in S
        PROVE  \E c \in mine : c.job = j
    <3>1. [job |-> j, attempt |-> AttemptCount(j) + 1, phase |-> "waiting"] \in mine
      OBVIOUS
    <3> QED BY <3>1
  <2> QED BY <2>1, <2>3, <2>4
<1> HIDE DEF mine
<1>3. FlowTypes'
  BY <1>1 DEF RunInv, FlowTypes
<1>4. Known'
  <2>1. \A o \in Ops : op'[o] = op[o] \/ (op'[o] = "running" /\ op[o] # "none")
    BY <1>1
  <2>2. \A j \in Jobs : job'[j] = "none" <=> job[j] = "none"
    BY <1>1
  <2>3. \A v \in Workers : \A c \in held'[v] : c.job \in Jobs /\ job[c.job] # "none"
    BY <1>1, <1>2, ClaimFields DEF RunInv, Known
  <2>4. \A v \in Workers : \A j \in scan'[v] : j \in Jobs /\ job[j] # "none"
    BY DEF RunInv, Known, Inv, TypeOK
  <2> QED BY <1>1, <2>1, <2>2, <2>3, <2>4 DEF RunInv, Known, FlowTypes
<1>5. OneInHand'
  BY <1>1, <1>2 DEF RunInv, OneInHand
<1>6. RunIsFirst'
  BY <1>1, <1>2 DEF RunInv, RunIsFirst
<1>7. \A o \in Ops : /\ Claims(o)' => Claims(o) \/ S \cap JobsOf(o) # {}
                     /\ Cared(o) => Cared(o)'
                     /\ S \cap JobsOf(o) # {} => Cared(o)'
  <2> SUFFICES ASSUME NEW o \in Ops
               PROVE  /\ Claims(o)' => Claims(o) \/ S \cap JobsOf(o) # {}
                      /\ Cared(o) => Cared(o)'
                      /\ S \cap JobsOf(o) # {} => Cared(o)'
    OBVIOUS
  <2>1. S \cap JobsOf(o) # {} => Cared(o)'
    BY <1>1, <1>2 DEF Cared, JobsOf
  <2>2. ASSUME Claims(o)'
        PROVE  Claims(o) \/ S \cap JobsOf(o) # {}
    BY <1>1, <1>2, <2>2 DEF Claims, JobsOf
  <2>3. ASSUME NEW v \in Workers, NEW c \in held[v], opOf[c.job] = o, HoldsLease(c), c.job \notin S
        PROVE  Cared(o)'
    <3>1. c \in held'[v] /\ opOf'[c.job] = o /\ HoldsLease(c)'
      BY <1>1, <1>2, <2>3, ClaimFields DEF HoldsLease
    <3> QED BY <3>1 DEF Cared
  <2>4. ASSUME NEW v \in Workers, NEW c \in held[v], opOf[c.job] = o, c.job \in S
        PROVE  Cared(o)'
    BY <2>1, <2>4 DEF JobsOf
  <2>5. ASSUME Cared(o) PROVE Cared(o)'
    <3>1. CASE o \in dropped \/ \E v \in Workers : mark[v] = o
      BY <1>1, <3>1 DEF Cared
    <3> QED BY <2>3, <2>4, <2>5, <3>1 DEF Cared
  <2> QED BY <2>1, <2>2, <2>5
<1>8. OpenIsCared'
  BY <1>1, <1>7 DEF RunInv, OpenIsCared
<1>9. QueuedIsUntouched' /\ CancelledMeansCancelled'
  BY <1>1, <1>7 DEF RunInv, QueuedIsUntouched, CancelledMeansCancelled, Single, JobsOf
<1> QED BY <1>3, <1>4, <1>5, <1>6, <1>8, <1>9 DEF RunInv

LEMMA ClaimWorkInv ==
    ASSUME Inv, RunInv, NEW w \in Workers, ClaimWork(w)
    PROVE  RunInv'
<1>1. CASE ClaimNow(w)
  <2>1. PICK S \in Batches : Take(w, S)
    BY <1>1 DEF ClaimNow
  <2>2. S \in SUBSET Jobs /\ \A j \in S : job[j] # "none"
    BY DEF Batches, Claimable
  <2>3. held[w] = {} /\ scan[w] = {} /\ scan' = scan /\ Free(w) /\ UNCHANGED flows
    BY <1>1 DEF ClaimNow, Idle, ClaimWork
  <2> QED BY <2>1, <2>2, <2>3, TakeRunInv DEF Inv, TypeOK
<1>2. CASE ClaimScan(w)
  BY <1>2, ScanInv DEF ClaimWork
<1>3. CASE ClaimLock(w)
  <2>1. scan[w] \in SUBSET Jobs /\ \A j \in scan[w] : job[j] # "none"
    BY DEF RunInv, Known, Inv, TypeOK
  <2>2. held[w] = {} /\ Take(w, scan[w]) /\ scan' = [scan EXCEPT ![w] = {}]
    BY <1>3 DEF ClaimLock, RunInv, OneInHand
  <2>3. /\ scan' \in [Workers -> SUBSET Jobs] /\ scan'[w] = {}
        /\ \A v \in Workers \ {w} : scan'[v] = scan[v]
    BY <2>2 DEF Inv, TypeOK
  <2> QED BY <2>1, <2>2, <2>3, TakeRunInv DEF ClaimWork
<1> QED BY <1>1, <1>2, <1>3 DEF ClaimWork

-----------------------------------------------------------------------------
(* The worker: the job in hand. *)

\* A change of phase leaves every claim where it is.
LEMMA Rephase ==
    ASSUME Inv, NEW w \in Workers, NEW c \in held[w], NEW p \in Phase,
           held' = [held EXCEPT ![w] = (@ \ {c}) \cup {[c EXCEPT !.phase = p]}],
           UNCHANGED <<opOf, lease, mark, dropped>>
    PROVE  \A o \in Ops : (Claims(o)' <=> Claims(o)) /\ (Cared(o)' <=> Cared(o))
<1> DEFINE n == [c EXCEPT !.phase = p]
<1>1. n.job = c.job /\ n.attempt = c.attempt
  BY ClaimFields DEF Claim
<1>2. /\ held'[w] = (held[w] \ {c}) \cup {n}
      /\ \A v \in Workers \ {w} : held'[v] = held[v]
  BY DEF Inv, TypeOK
<1> HIDE DEF n
<1>3. \A v \in Workers : \A d \in held'[v] : \E e \in held[v] : e.job = d.job /\ e.attempt = d.attempt
  BY <1>1, <1>2
<1>4. \A v \in Workers : \A d \in held[v] : \E e \in held'[v] : e.job = d.job /\ e.attempt = d.attempt
  BY <1>1, <1>2
<1>5. ASSUME NEW o \in Ops, NEW v \in Workers, NEW d \in held[v], opOf[d.job] = o
      PROVE  Claims(o)' /\ (HoldsLease(d) => Cared(o)')
  <2>1. PICK e \in held'[v] : e.job = d.job /\ e.attempt = d.attempt
    BY <1>4
  <2> QED BY <1>5, <2>1 DEF Claims, Cared, HoldsLease
<1>6. ASSUME NEW o \in Ops, NEW v \in Workers, NEW d \in held'[v], opOf[d.job] = o
      PROVE  Claims(o) /\ (HoldsLease(d)' => Cared(o))
  <2>1. PICK e \in held[v] : e.job = d.job /\ e.attempt = d.attempt
    BY <1>3
  <2> QED BY <1>6, <2>1 DEF Claims, Cared, HoldsLease
<1> QED BY <1>5, <1>6 DEF Claims, Cared

LEMMA StartWorkInv ==
    ASSUME Inv, RunInv, NEW w \in Workers, NEW c \in held[w], StartWork(w, c)
    PROVE  RunInv'
<1> DEFINE n == [c EXCEPT !.phase = "running"]
<1>1. /\ \A d \in held[w] : d.phase = "waiting"
      /\ held' = [held EXCEPT ![w] = (@ \ {c}) \cup {n}]
      /\ task' = [task EXCEPT ![w] = "enter"]
      /\ mark[w] = NoOp
      /\ UNCHANGED <<op, job, opOf, lease, scan, flow, mark, dropped>>
  BY DEF StartWork, Start, Free, Goto, rows
<1>2. n.job = c.job /\ n.phase = "running"
  BY ClaimFields DEF Claim
<1>3. /\ held'[w] = (held[w] \ {c}) \cup {n}
      /\ \A v \in Workers \ {w} : held'[v] = held[v]
      /\ task'[w] = "enter"
      /\ \A v \in Workers \ {w} : task'[v] = task[v]
  BY <1>1 DEF Inv, TypeOK, RunInv, FlowTypes
<1>4. \A o \in Ops : (Claims(o)' <=> Claims(o)) /\ (Cared(o)' <=> Cared(o))
  BY <1>1, Rephase DEF Phase
<1> HIDE DEF n
<1>5. FlowTypes'
  BY <1>1 DEF RunInv, FlowTypes
<1>6. Known'
  BY <1>1, <1>2, <1>3 DEF RunInv, Known
<1>7. OneInHand'
  BY <1>1, <1>2, <1>3 DEF RunInv, OneInHand
<1>8. RunIsFirst'
  BY <1>1, <1>2, <1>3 DEF RunInv, RunIsFirst
<1>9. OpenIsCared' /\ QueuedIsUntouched' /\ CancelledMeansCancelled'
  BY <1>1, <1>4 DEF RunInv, OpenIsCared, QueuedIsUntouched, CancelledMeansCancelled, Single, JobsOf
<1> QED BY <1>5, <1>6, <1>7, <1>8, <1>9 DEF RunInv

LEMMA EnterInv ==
    ASSUME Inv, RunInv, NEW w \in Workers, NEW c \in held[w], Enter(w, c)
    PROVE  RunInv'
<1> DEFINE o == opOf[c.job]
<1>1. /\ c.phase # "waiting" /\ task[w] = "enter"
      /\ UNCHANGED <<op, job, opOf, lease, scan, held, mark, dropped>>
  BY DEF Enter, At, queue, vars
<1>2. o \in Ops /\ op[o] # "none" /\ flow[o] # "none" /\ flow[o] \in Returned \cup OpenFlow
  BY ClaimFields DEF RunInv, Known, FlowTypes, FlowStatus, Returned
<1>3. \/ /\ flow[o] \in Returned /\ task' = [task EXCEPT ![w] = "record"]
         /\ flow' = flow \/ (flow[o] = "pending_approval" /\ flow' = [flow EXCEPT ![o] = "failed"])
      \/ /\ flow[o] \in OpenFlow /\ task' = [task EXCEPT ![w] = "graph"]
         /\ flow' = [flow EXCEPT ![o] = "running"]
  BY <1>2 DEF Enter, Goto, SetFlow
<1> HIDE DEF o
<1>4. /\ \A x \in Ops \ {o} : flow'[x] = flow[x]
      /\ task'[w] \in {"record", "graph"} /\ \A v \in Workers \ {w} : task'[v] = task[v]
      /\ task'[w] = "record" => flow'[o] \in Returned
      /\ flow[o] \in Returned => flow'[o] \in Returned
      /\ flow[o] = "cancelled" => flow'[o] = "cancelled"
      /\ flow'[o] \in OpenFlow => flow[o] \in OpenFlow
      /\ flow'[o] # "none"
  BY <1>2, <1>3 DEF RunInv, FlowTypes, Returned, FinalFlow, OpenFlow
<1>5. FlowTypes'
  BY <1>1, <1>3 DEF RunInv, FlowTypes, FlowStatus, FinalFlow, OpenFlow
<1>6. Known'
  BY <1>1, <1>2, <1>4 DEF RunInv, Known
<1>7. OneInHand'
  BY <1>1, <1>4 DEF RunInv, OneInHand
<1>8. RunIsFirst'
  <2> SUFFICES ASSUME NEW v \in Workers, NEW d \in held[v], d.phase # "waiting"
               PROVE  /\ task'[v] = "record" => flow'[opOf[d.job]] \in Returned
                      /\ d.phase = "cancelling" =>
                            /\ task'[v] \in {"cancelled", "record"}
                            /\ task'[v] = "record" => flow'[opOf[d.job]] = "cancelled"
    BY <1>1 DEF RunIsFirst
  <2>1. opOf[d.job] \in Ops
    BY ClaimFields DEF RunInv, Known
  <2>2. CASE v = w
    <3>1. d = c /\ d.phase # "cancelling"
      BY <1>1, <2>2 DEF RunInv, OneInHand, RunIsFirst
    <3> QED BY <1>4, <2>2, <3>1 DEF o
  <2>3. CASE v # w
    BY <1>4, <2>1, <2>3 DEF RunInv, RunIsFirst
  <2> QED BY <2>2, <2>3
<1>9. \A x \in Ops : (Claims(x)' <=> Claims(x)) /\ (Cared(x)' <=> Cared(x))
  BY <1>1 DEF Claims, Cared, HoldsLease
<1>10. Claims(o)
  BY DEF Claims, o
<1>11. OpenIsCared'
  BY <1>1, <1>4, <1>9, <1>10 DEF RunInv, OpenIsCared
<1>12. QueuedIsUntouched'
  BY <1>1, <1>4, <1>9, <1>10 DEF RunInv, QueuedIsUntouched, Single, JobsOf
<1>13. CancelledMeansCancelled'
  BY <1>1, <1>4 DEF RunInv, CancelledMeansCancelled, Single, JobsOf
<1> QED BY <1>5, <1>6, <1>7, <1>8, <1>11, <1>12, <1>13 DEF RunInv

LEMMA ReturnInv ==
    ASSUME Inv, RunInv, NEW w \in Workers, NEW c \in held[w], Return(w, c)
    PROVE  RunInv'
<1>1. PICK status \in Returned \ {"cancelled"} : task' = [task EXCEPT ![w] = status]
  BY DEF Return, Goto
<1>2. /\ c.phase # "waiting" /\ task[w] = "graph"
      /\ UNCHANGED <<op, job, opOf, lease, scan, held, flow, mark, dropped>>
  BY DEF Return, At, queue, vars
<1>3. FlowTypes'
  BY <1>1, <1>2 DEF RunInv, FlowTypes
<1>4. /\ task'[w] \notin {"none", "record"}
      /\ \A v \in Workers \ {w} : task'[v] = task[v]
  BY <1>1 DEF RunInv, FlowTypes, Returned, FinalFlow
<1>5. Known'
  BY <1>2 DEF RunInv, Known
<1>6. OneInHand'
  BY <1>2, <1>4 DEF RunInv, OneInHand
<1>7. \A d \in held[w] : d.phase # "cancelling"
  BY <1>2 DEF RunInv, RunIsFirst
<1>8. RunIsFirst'
  BY <1>2, <1>4, <1>7 DEF RunInv, RunIsFirst
<1>9. OpenIsCared' /\ QueuedIsUntouched' /\ CancelledMeansCancelled'
  BY <1>2 DEF RunInv, OpenIsCared, QueuedIsUntouched, CancelledMeansCancelled, Cared, Claims,
              HoldsLease, Single, JobsOf
<1> QED BY <1>3, <1>5, <1>6, <1>8, <1>9 DEF RunInv

LEMMA ReturnCancelledInv ==
    ASSUME Inv, RunInv, NEW w \in Workers, NEW c \in held[w], ReturnCancelled(w, c)
    PROVE  RunInv'
<1> DEFINE n == [c EXCEPT !.phase = "cancelling"]
<1>1. /\ c.phase = "running" /\ task[w] = "graph"
      /\ held' = [held EXCEPT ![w] = (@ \ {c}) \cup {n}]
      /\ task' = [task EXCEPT ![w] = "cancelled"]
      /\ UNCHANGED <<op, job, opOf, lease, scan, flow, mark, dropped>>
  BY DEF ReturnCancelled, ObserveCancel, At, Goto, rows
<1>2. n.job = c.job /\ n.phase = "cancelling"
  BY ClaimFields DEF Claim
<1>3. /\ held'[w] = (held[w] \ {c}) \cup {n}
      /\ \A v \in Workers \ {w} : held'[v] = held[v]
      /\ task'[w] = "cancelled"
      /\ \A v \in Workers \ {w} : task'[v] = task[v]
  BY <1>1 DEF Inv, TypeOK, RunInv, FlowTypes
<1>4. \A o \in Ops : (Claims(o)' <=> Claims(o)) /\ (Cared(o)' <=> Cared(o))
  BY <1>1, Rephase DEF Phase
<1>5. \A d \in held[w] : d # c => d.phase = "waiting"
  BY <1>1 DEF RunInv, OneInHand
<1> HIDE DEF n
<1>6. FlowTypes'
  BY <1>1 DEF RunInv, FlowTypes, Returned, FinalFlow
<1>7. Known'
  BY <1>1, <1>2, <1>3 DEF RunInv, Known
<1>8. OneInHand'
  BY <1>1, <1>2, <1>3, <1>5 DEF RunInv, OneInHand
<1>9. RunIsFirst'
  BY <1>1, <1>2, <1>3, <1>5 DEF RunInv, RunIsFirst
<1>10. OpenIsCared' /\ QueuedIsUntouched' /\ CancelledMeansCancelled'
  BY <1>1, <1>4 DEF RunInv, OpenIsCared, QueuedIsUntouched, CancelledMeansCancelled, Single, JobsOf
<1> QED BY <1>6, <1>7, <1>8, <1>9, <1>10 DEF RunInv

LEMMA PersistInv ==
    ASSUME Inv, RunInv, NEW w \in Workers, NEW c \in held[w], Persist(w, c)
    PROVE  RunInv'
<1> DEFINE o == opOf[c.job]
<1>1. PICK status \in Returned :
        c.phase # "waiting" /\ task[w] = status /\ flow' = [flow EXCEPT ![o] = status]
  BY DEF Persist, At, SetFlow
<1>2. /\ flow[o] = "running"
      /\ task' = [task EXCEPT ![w] = "record"]
      /\ UNCHANGED <<op, job, opOf, lease, scan, held, mark, dropped>>
  BY DEF Persist, Goto, queue, vars
<1>3. o \in Ops /\ op[o] # "none"
  BY ClaimFields DEF RunInv, Known
<1> HIDE DEF o
<1>4. /\ flow'[o] = status /\ \A x \in Ops \ {o} : flow'[x] = flow[x]
      /\ task'[w] = "record" /\ \A v \in Workers \ {w} : task'[v] = task[v]
      /\ status \notin OpenFlow \cup {"none"}
  BY <1>1, <1>2, <1>3 DEF RunInv, FlowTypes, Returned, FinalFlow, OpenFlow
<1>5. FlowTypes'
  BY <1>1, <1>2 DEF RunInv, FlowTypes, FlowStatus, Returned
<1>6. Known'
  BY <1>2, <1>3, <1>4 DEF RunInv, Known
<1>7. OneInHand'
  BY <1>2, <1>4 DEF RunInv, OneInHand
<1>8. RunIsFirst'
  <2> SUFFICES ASSUME NEW v \in Workers, NEW d \in held[v], d.phase # "waiting"
               PROVE  /\ task'[v] = "record" => flow'[opOf[d.job]] \in Returned
                      /\ d.phase = "cancelling" =>
                            /\ task'[v] \in {"cancelled", "record"}
                            /\ task'[v] = "record" => flow'[opOf[d.job]] = "cancelled"
    BY <1>2 DEF RunIsFirst
  <2>1. opOf[d.job] \in Ops
    BY ClaimFields DEF RunInv, Known
  <2>2. CASE v = w
    <3>1. d = c
      BY <1>1, <2>2 DEF RunInv, OneInHand
    <3>2. d.phase = "cancelling" => status = "cancelled"
      BY <1>1, <2>2 DEF RunInv, RunIsFirst, Returned, FinalFlow
    <3> QED BY <1>4, <2>2, <3>1, <3>2 DEF o
  <2>3. CASE v # w
    <3>1. task[v] = "record" => opOf[d.job] # o
      BY <1>2 DEF RunInv, RunIsFirst, Returned, FinalFlow
    <3> QED BY <1>4, <2>1, <2>3, <3>1 DEF RunInv, RunIsFirst
  <2> QED BY <2>2, <2>3
<1>9. \A x \in Ops : (Claims(x)' <=> Claims(x)) /\ (Cared(x)' <=> Cared(x))
  BY <1>2 DEF Claims, Cared, HoldsLease
<1>10. Claims(o)
  BY DEF Claims, o
<1>11. OpenIsCared'
  BY <1>2, <1>4, <1>9 DEF RunInv, OpenIsCared
<1>12. QueuedIsUntouched'
  BY <1>2, <1>4, <1>9, <1>10 DEF RunInv, QueuedIsUntouched, Single, JobsOf
<1>13. CancelledMeansCancelled'
  BY <1>2, <1>4 DEF RunInv, CancelledMeansCancelled, Single, JobsOf
<1> QED BY <1>5, <1>6, <1>7, <1>8, <1>11, <1>12, <1>13 DEF RunInv

-----------------------------------------------------------------------------
(* The worker: the end of a job. *)

\* Dropping the claim c only concerns the run of its operation.
LEMMA DropFrame ==
    ASSUME Inv, NEW w \in Workers, NEW c \in held[w], Drop(w, c), opOf' = opOf,
           \A j \in Jobs \ {c.job} : lease'[j] = lease[j],
           dropped' = dropped, NEW n,
           \A v \in Workers : mark'[v] = mark[v] \/ (mark[v] = NoOp /\ mark'[v] = n)
    PROVE  /\ held'[w] = held[w] \ {c} /\ \A v \in Workers \ {w} : held'[v] = held[v]
           /\ \A o \in Ops : Claims(o)' => Claims(o)
           /\ \A o \in Ops \ {opOf[c.job]} : Cared(o) => Cared(o)'
<1>1. held'[w] = held[w] \ {c} /\ \A v \in Workers \ {w} : held'[v] = held[v]
  BY DEF Drop, Inv, TypeOK
<1>2. \A o \in Ops : Claims(o)' => Claims(o)
  BY <1>1 DEF Claims
<1>3. ASSUME NEW o \in Ops \ {opOf[c.job]}, Cared(o)
      PROVE  Cared(o)'
  <2>1. ASSUME NEW v \in Workers, NEW d \in held[v], opOf[d.job] = o, HoldsLease(d)
        PROVE  Cared(o)'
    <3>1. d.job \in Jobs \ {c.job}
      BY <2>1, ClaimFields
    <3> QED BY <1>1, <2>1, <3>1 DEF Cared, HoldsLease
  <2>2. ASSUME NEW v \in Workers, mark[v] = o
        PROVE  Cared(o)'
    BY <2>2, NoOpAssumption DEF Cared
  <2> QED BY <1>3, <2>1, <2>2 DEF Cared
<1> QED BY <1>1, <1>2, <1>3

LEMMA RecordOutcomeInv ==
    ASSUME Inv, RunInv, NEW w \in Workers, NEW c \in held[w], RecordOutcome(w, c)
    PROVE  RunInv'
<1> DEFINE o == opOf[c.job]
<1>1. /\ c.phase # "waiting" /\ task[w] = "record" /\ task' = [task EXCEPT ![w] = "none"]
      /\ Drop(w, c)
      /\ UNCHANGED <<opOf, scan, flow, mark, dropped>>
  BY DEF RecordOutcome, At, Goto, Complete, CancelClaimed
<1>2. \E status \in JobStatus \ {"none"} : Record(c, status)
  BY DEF RecordOutcome, Complete, CancelClaimed, JobStatus, Finished
<1>3. o \in Ops /\ op[o] # "none" /\ flow[o] \in Returned
  BY <1>1, ClaimFields DEF RunInv, Known, RunIsFirst
<1>4. \/ op' = [op EXCEPT ![o] = "succeeded"]
      \/ flow[o] = "cancelled" /\ op' = [op EXCEPT ![o] = "cancelled"]
      \/ op' = op /\ op[o] \in Finished \cup {"cancelled"}
  <2>1. CASE Complete(w, c) /\ op'[o] = "succeeded"
    BY <1>3, <2>1 DEF Complete, Inv, TypeOK
  <2>2. CASE CancelClaimed(w, c)
    <3>1. flow[o] = "cancelled"
      BY <1>1, <2>2 DEF CancelClaimed, RunInv, RunIsFirst
    <3> QED BY <2>2, <3>1 DEF CancelClaimed
  <2> QED BY <2>1, <2>2 DEF RecordOutcome
<1>5. /\ held'[w] = held[w] \ {c} /\ \A v \in Workers \ {w} : held'[v] = held[v]
      /\ \A x \in Ops : Claims(x)' => Claims(x)
      /\ \A x \in Ops \ {o} : Cared(x) => Cared(x)'
  BY <1>1, <1>2, DropFrame DEF Record, Inv, TypeOK
<1> HIDE DEF o
<1>6. /\ \A x \in Ops \ {o} : op'[x] = op[x]
      /\ op'[o] \notin {"none", "queued", "retry_wait"}
      /\ op'[o] = "cancelled" => op[o] = "cancelled" \/ flow[o] = "cancelled"
  BY <1>3, <1>4 DEF Inv, TypeOK, Finished
<1>7. FlowTypes'
  BY <1>1 DEF RunInv, FlowTypes
<1>8. Known'
  <2>1. \A j \in Jobs : job'[j] = "none" <=> job[j] = "none"
    BY <1>2, ClaimFields DEF RunInv, Known, Record, Inv, TypeOK
  <2>2. /\ \A x \in Ops : (op'[x] = "none" <=> op[x] = "none")
        /\ \A x \in Ops : op'[x] # "retry_wait"
    BY <1>3, <1>6 DEF RunInv, Known
  <2>3. \A v \in Workers : /\ \A j \in scan[v] : j \in Jobs
                           /\ \A d \in held'[v] : d \in held[v] /\ d.job \in Jobs
    BY <1>5, ClaimFields DEF Inv, TypeOK
  <2> QED BY <1>1, <2>1, <2>2, <2>3 DEF RunInv, Known, FlowTypes
<1>9. \A d \in held[w] : d # c => d.phase = "waiting"
  BY <1>1 DEF RunInv, OneInHand
<1>10. \A v \in Workers \ {w} : task'[v] = task[v]
  BY <1>1 DEF RunInv, FlowTypes
<1>11. OneInHand' /\ RunIsFirst'
  BY <1>1, <1>5, <1>9, <1>10 DEF RunInv, OneInHand, RunIsFirst
<1>12. flow[o] \notin OpenFlow
  BY <1>3 DEF Returned, FinalFlow, OpenFlow
<1>13. OpenIsCared'
  BY <1>1, <1>5, <1>6, <1>12 DEF RunInv, OpenIsCared
<1>14. QueuedIsUntouched' /\ CancelledMeansCancelled'
  BY <1>1, <1>5, <1>6 DEF RunInv, QueuedIsUntouched, CancelledMeansCancelled, Single, JobsOf
<1> QED BY <1>7, <1>8, <1>11, <1>13, <1>14 DEF RunInv

LEMMA LoseWorkInv ==
    ASSUME Inv, RunInv, NEW w \in Workers, NEW c \in held[w], LoseWork(w, c)
    PROVE  RunInv'
<1>1. /\ c.phase # "waiting" /\ ~HoldsLease(c) /\ Drop(w, c)
      /\ task' = [task EXCEPT ![w] = "none"]
      /\ UNCHANGED <<op, job, opOf, lease, scan, flow, mark, dropped>>
  BY DEF LoseWork, LeaseLost, Goto, rows
<1>2. /\ held'[w] = held[w] \ {c} /\ \A v \in Workers \ {w} : held'[v] = held[v]
      /\ \A x \in Ops : Claims(x)' => Claims(x)
  BY <1>1, DropFrame
<1>3. \A x \in Ops : Cared(x) => Cared(x)'
  BY <1>1, <1>2 DEF Cared, HoldsLease
<1>4. \A d \in held[w] : d # c => d.phase = "waiting"
  BY <1>1 DEF RunInv, OneInHand
<1>5. \A v \in Workers \ {w} : task'[v] = task[v]
  BY <1>1 DEF RunInv, FlowTypes
<1>6. FlowTypes' /\ Known'
  BY <1>1, <1>2 DEF RunInv, FlowTypes, Known
<1>7. OneInHand' /\ RunIsFirst'
  BY <1>1, <1>2, <1>4, <1>5 DEF RunInv, OneInHand, RunIsFirst
<1>8. OpenIsCared' /\ QueuedIsUntouched' /\ CancelledMeansCancelled'
  BY <1>1, <1>2, <1>3 DEF RunInv, OpenIsCared, QueuedIsUntouched, CancelledMeansCancelled,
                          Single, JobsOf
<1> QED BY <1>6, <1>7, <1>8 DEF RunInv

LEMMA FailWorkInv ==
    ASSUME Inv, RunInv, NEW w \in Workers, NEW c \in held[w], FailWork(w, c)
    PROVE  RunInv'
<1> DEFINE o == opOf[c.job]
<1>1. /\ c.phase # "waiting" /\ Drop(w, c)
      /\ task' = [task EXCEPT ![w] = "none"] /\ mark' = [mark EXCEPT ![w] = o]
      /\ UNCHANGED <<opOf, scan, flow, dropped>>
  BY DEF FailWork, Fail, Goto
<1>2. Record(c, "failed") /\ op' = [op EXCEPT ![o] = "failed"]
  BY WorkflowAssumption DEF FailWork, Fail, Retryable
<1>3. o \in Ops /\ op[o] # "none"
  BY ClaimFields DEF RunInv, Known
<1>4. /\ mark[w] = NoOp /\ mark'[w] = o
      /\ \A v \in Workers \ {w} : mark'[v] = mark[v] /\ task'[v] = task[v]
  BY <1>1 DEF RunInv, OneInHand, FlowTypes
<1>5. /\ held'[w] = held[w] \ {c} /\ \A v \in Workers \ {w} : held'[v] = held[v]
      /\ \A x \in Ops : Claims(x)' => Claims(x)
      /\ \A x \in Ops \ {o} : Cared(x) => Cared(x)'
  <2>1. \A v \in Workers : mark'[v] = mark[v] \/ (mark[v] = NoOp /\ mark'[v] = o)
    BY <1>4
  <2>2. \A j \in Jobs \ {c.job} : lease'[j] = lease[j]
    BY <1>2 DEF Record, Inv, TypeOK
  <2> HIDE DEF o
  <2>3. \A x \in Ops \ {opOf[c.job]} : Cared(x) => Cared(x)'
    BY <1>1, <2>1, <2>2, DropFrame
  <2>4. /\ held'[w] = held[w] \ {c} /\ \A v \in Workers \ {w} : held'[v] = held[v]
        /\ \A x \in Ops : Claims(x)' => Claims(x)
    BY <1>1, <2>1, <2>2, DropFrame
  <2> QED BY <2>3, <2>4 DEF o
<1> HIDE DEF o
<1>6. op'[o] = "failed" /\ \A x \in Ops \ {o} : op'[x] = op[x]
  BY <1>2, <1>3 DEF Inv, TypeOK
<1>7. FlowTypes'
  BY <1>1, <1>3 DEF RunInv, FlowTypes
<1>8. Known'
  <2>1. \A j \in Jobs : job'[j] = "none" <=> job[j] = "none"
    BY <1>2, ClaimFields DEF RunInv, Known, Record, Inv, TypeOK
  <2>2. /\ \A x \in Ops : (op'[x] = "none" <=> op[x] = "none")
        /\ \A x \in Ops : op'[x] # "retry_wait"
    BY <1>3, <1>6 DEF RunInv, Known
  <2>3. \A v \in Workers : /\ \A j \in scan[v] : j \in Jobs
                           /\ \A d \in held'[v] : d \in held[v] /\ d.job \in Jobs
    BY <1>5, ClaimFields DEF Inv, TypeOK
  <2>4. \A v \in Workers : mark'[v] # NoOp => op[mark'[v]] # "none"
    BY <1>3, <1>4 DEF RunInv, Known
  <2>5. \A v \in Workers : mark'[v] # NoOp => mark'[v] \in Ops
    BY <1>3, <1>4 DEF RunInv, FlowTypes
  <2> QED BY <1>1, <2>1, <2>2, <2>3, <2>4, <2>5 DEF RunInv, Known
<1>9. \A d \in held[w] : d # c => d.phase = "waiting"
  BY <1>1 DEF RunInv, OneInHand
<1>10. OneInHand' /\ RunIsFirst'
  BY <1>1, <1>4, <1>5, <1>9 DEF RunInv, OneInHand, RunIsFirst
<1>11. \A x \in Ops : x = o => Cared(x)'
  BY <1>4 DEF Cared
<1>12. OpenIsCared'
  BY <1>1, <1>5, <1>6, <1>11 DEF RunInv, OpenIsCared
<1>13. QueuedIsUntouched' /\ CancelledMeansCancelled'
  BY <1>1, <1>4, <1>5, <1>6 DEF RunInv, QueuedIsUntouched, CancelledMeansCancelled, Single, JobsOf
<1> QED BY <1>7, <1>8, <1>10, <1>12, <1>13 DEF RunInv

LEMMA MarkFailedInv ==
    ASSUME Inv, RunInv, NEW w \in Workers, MarkFailed(w)
    PROVE  RunInv'
<1> DEFINE o == mark[w]
<1>1. /\ o # NoOp /\ mark' = [mark EXCEPT ![w] = NoOp]
      /\ flow' = IF flow[o] \in OpenFlow THEN [flow EXCEPT ![o] = "failed"] ELSE flow
      /\ UNCHANGED <<op, job, opOf, lease, scan, held, task, dropped>>
  BY DEF MarkFailed, SetFlow, queue, vars
<1>2. o \in Ops /\ op[o] # "none"
  BY <1>1 DEF RunInv, FlowTypes, Known
<1>3. /\ mark'[w] = NoOp /\ \A v \in Workers \ {w} : mark'[v] = mark[v]
      /\ \A d \in held[w] : d.phase = "waiting"
  BY <1>1 DEF RunInv, FlowTypes, OneInHand
<1> HIDE DEF o
<1>4. /\ \A x \in Ops : flow'[x] = flow[x] \/ (flow[x] \in OpenFlow /\ flow'[x] = "failed")
      /\ flow'[o] \notin OpenFlow
  BY <1>1, <1>2 DEF RunInv, FlowTypes, OpenFlow
<1>5. FlowTypes'
  BY <1>1 DEF RunInv, FlowTypes, FlowStatus, FinalFlow
<1>6. Known'
  BY <1>1, <1>2, <1>3, <1>4 DEF RunInv, Known, OpenFlow
<1>7. OneInHand'
  BY <1>1, <1>3 DEF RunInv, OneInHand
<1>8. RunIsFirst'
  BY <1>1, <1>4, ClaimFields DEF RunInv, RunIsFirst, Known, Returned, FinalFlow, OpenFlow
<1>9. \A x \in Ops : /\ Claims(x)' <=> Claims(x)
                     /\ x # o => (Cared(x) => Cared(x)')
  BY <1>1, <1>3 DEF Claims, Cared, HoldsLease, o
<1>10. OpenIsCared'
  BY <1>1, <1>4, <1>9 DEF RunInv, OpenIsCared, OpenFlow
<1>11. QueuedIsUntouched'
  <2>1. \A x \in Ops : op[x] = "queued" /\ Single(x) => x # o
    BY <1>1 DEF RunInv, QueuedIsUntouched, o
  <2> QED BY <1>1, <1>2, <1>3, <1>9, <2>1, NoOpAssumption
          DEF RunInv, QueuedIsUntouched, Single, JobsOf, FlowTypes
<1>12. CancelledMeansCancelled'
  BY <1>1, <1>4 DEF RunInv, CancelledMeansCancelled, OpenFlow, Single, JobsOf
<1> QED BY <1>5, <1>6, <1>7, <1>8, <1>10, <1>11, <1>12 DEF RunInv

LEMMA DieInv ==
    ASSUME Inv, RunInv, NEW w \in Workers, Die(w)
    PROVE  RunInv'
<1>1. /\ held' = [held EXCEPT ![w] = {}]
      /\ scan' = [scan EXCEPT ![w] = {}] \/ scan' = scan
      /\ UNCHANGED <<op, job, opOf, lease, flow>>
  BY DEF Die, Abandon, rows, queue, vars, Inv, TypeOK
<1>2. /\ task' = [task EXCEPT ![w] = "none"] /\ mark' = [mark EXCEPT ![w] = NoOp]
      /\ dropped' = dropped \cup {opOf[c.job] : c \in held[w]} \cup ({mark[w]} \ {NoOp})
  BY DEF Die, Goto
<1>3. /\ held'[w] = {} /\ mark'[w] = NoOp
      /\ \A v \in Workers \ {w} : held'[v] = held[v] /\ task'[v] = task[v] /\ mark'[v] = mark[v]
      /\ \A v \in Workers : scan'[v] = scan[v] \/ scan'[v] = {}
  BY <1>1, <1>2 DEF Inv, TypeOK, RunInv, FlowTypes
<1>4. FlowTypes'
  <2>1. \A c \in held[w] : opOf[c.job] \in Ops
    BY ClaimFields DEF RunInv, Known
  <2> QED BY <1>1, <1>2, <2>1 DEF RunInv, FlowTypes
<1>5. Known'
  BY <1>1, <1>3, NoOpAssumption DEF RunInv, Known
<1>6. OneInHand' /\ RunIsFirst'
  BY <1>1, <1>3 DEF RunInv, OneInHand, RunIsFirst
<1>7. \A x \in Ops : Claims(x)' => Claims(x)
  BY <1>1, <1>3 DEF Claims
<1>8. ASSUME NEW x \in Ops, Cared(x)
      PROVE  Cared(x)'
  <2>1. ASSUME NEW v \in Workers, NEW d \in held[v], opOf[d.job] = x, HoldsLease(d)
        PROVE  Cared(x)'
    <3>1. CASE v = w
      BY <1>2, <2>1, <3>1 DEF Cared
    <3>2. CASE v # w
      BY <1>1, <1>3, <2>1, <3>2 DEF Cared, HoldsLease
    <3> QED BY <3>1, <3>2
  <2>2. ASSUME NEW v \in Workers, mark[v] = x
        PROVE  Cared(x)'
    BY <1>2, <1>3, <2>2, NoOpAssumption DEF Cared
  <2>3. x \in dropped => Cared(x)'
    BY <1>2 DEF Cared
  <2> QED BY <1>8, <2>1, <2>2, <2>3 DEF Cared
<1>9. OpenIsCared'
  BY <1>1, <1>7, <1>8 DEF RunInv, OpenIsCared
<1>10. QueuedIsUntouched' /\ CancelledMeansCancelled'
  BY <1>1, <1>3, <1>7, NoOpAssumption DEF RunInv, QueuedIsUntouched, CancelledMeansCancelled,
                                          Single, JobsOf
<1> QED BY <1>4, <1>5, <1>6, <1>9, <1>10 DEF RunInv

-----------------------------------------------------------------------------
(* Putting the steps together. *)

LEMMA RunInitInv == RunInit => RunInv
BY NoOpAssumption DEF RunInit, Init, RunInv, FlowTypes, FlowStatus, Known, OneInHand, RunIsFirst,
   OpenIsCared, OpenFlow, QueuedIsUntouched, CancelledMeansCancelled

LEMMA RunNextInv == Inv /\ RunInv /\ [RunNext]_runVars => RunInv'
<1> SUFFICES ASSUME Inv, RunInv, [RunNext]_runVars PROVE RunInv'
  OBVIOUS
<1>1. ASSUME NEW w \in Workers, NEW c \in held[w], Work(w, c)
      PROVE  RunInv'
  BY <1>1, StartWorkInv, EnterInv, ReturnInv, ReturnCancelledInv, PersistInv, RecordOutcomeInv,
     LoseWorkInv, FailWorkInv DEF Work
<1>2. ASSUME NEW w \in Workers, ClaimWork(w) \/ MarkFailed(w) \/ Die(w)
      PROVE  RunInv'
  BY <1>2, ClaimWorkInv, MarkFailedInv, DieInv
<1>3. ASSUME NEW o \in Ops, StartRun(o) \/ CancelRun(o)
      PROVE  RunInv'
  BY <1>3, StartRunInv, CancelRunInv
<1>4. CASE UNCHANGED runVars
  BY <1>4 DEF runVars, queue, vars, flows, RunInv, FlowTypes, Known, OneInHand, RunIsFirst,
              OpenIsCared, QueuedIsUntouched, CancelledMeansCancelled, Cared, Claims, HoldsLease,
              Single, JobsOf
<1> QED BY <1>1, <1>2, <1>3, <1>4, RetryInv DEF RunNext, Serve

THEOREM RunInvariance == RunSpec => [](Inv /\ RunInv)
<1>1. RunSpec => []Inv
  BY RunsAreJobs, Invariance, PTL
<1> QED BY <1>1, RunInitInv, RunNextInv, PTL DEF RunSpec

\* The runs, and the workers that execute them, have their types.
THEOREM RunTypes == RunSpec => []RunTypeOK
<1>1. Inv /\ RunInv => RunTypeOK
  BY DEF Inv, RunInv, FlowTypes, RunTypeOK
<1> QED BY <1>1, RunInvariance, PTL

\* The rows of a run and of its operation do not drift apart: when the
\* operation is final the run is closed, or a worker is still busy with it, or
\* one died.
THEOREM RunsAreClosed == RunSpec => []FinalOperationClosesRun
<1>1. Inv /\ RunInv => FinalOperationClosesRun
  <2> SUFFICES ASSUME RunInv, NEW o \in Ops, op[o] \in TerminalOperationStates,
                      flow[o] \in OpenFlow, o \notin dropped
               PROVE  \E w \in Workers : Busy(w, o)
    BY DEF FinalOperationClosesRun
  <2>1. op[o] # "queued"
    BY DEF TerminalOperationStates
  <2>2. Cared(o)
    BY <2>1 DEF RunInv, OpenIsCared
  <2> QED BY <2>2 DEF Cared, Busy
<1> QED BY <1>1, RunInvariance, PTL

\* A run that was cancelled, and never retried, is not executed to another end.
THEOREM CancelledRuns == RunSpec => []CancelledMeansCancelled
<1>1. Inv /\ RunInv => CancelledMeansCancelled
  BY DEF RunInv
<1> QED BY <1>1, RunInvariance, PTL

\* No worker, retry or late failure changes a run that has ended.
THEOREM EndedRunsStay == RunSpec => EndedRunStays
<1>1. Inv /\ RunInv /\ [RunNext]_runVars =>
        [\A o \in Ops : flow[o] \in FinalFlow => flow'[o] = flow[o]]_runVars
  <2> SUFFICES ASSUME Inv, RunInv, RunNext, NEW o \in Ops, flow[o] \in FinalFlow
               PROVE  flow'[o] = flow[o]
    OBVIOUS
  <2>1. ASSUME NEW x \in Ops, StartRun(x) \/ CancelRun(x)
        PROVE  flow'[o] = flow[o]
    BY <2>1 DEF StartRun, Submit, CancelRun, SetFlow, RunInv, Known, FlowTypes, FinalFlow
  <2>2. ASSUME NEW w \in Workers, NEW c \in held[w], Enter(w, c) \/ Persist(w, c)
        PROVE  flow'[o] = flow[o]
    BY <2>2 DEF Enter, Persist, SetFlow, RunInv, FlowTypes, FinalFlow, Returned
  <2>3. ASSUME NEW w \in Workers, MarkFailed(w)
        PROVE  flow'[o] = flow[o]
    BY <2>3 DEF MarkFailed, SetFlow, RunInv, FlowTypes, FinalFlow, OpenFlow
  <2>4. CASE UNCHANGED flow
    BY <2>4
  <2> QED BY <2>1, <2>2, <2>3, <2>4 DEF RunNext, Serve, Work, Retry, ClaimWork, StartWork, Return,
             ReturnCancelled, RecordOutcome, LoseWork, FailWork, Die, flows
<1> QED BY <1>1, RunInvariance, PTL DEF RunSpec, EndedRunStays
=============================================================================

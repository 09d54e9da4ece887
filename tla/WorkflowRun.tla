----------------------------- MODULE WorkflowRun -----------------------------
(***************************************************************************)
(* The runs of workflows (start_workflow_run in modules/workflows.py and   *)
(* process_workflow_run_job, mark_workflow_run_failed in worker.py), on    *)
(* top of the job runtime that executes them.  Every operation is that of  *)
(* one run.                                                                *)
(*                                                                         *)
(* The row of a run and the rows of its job are written by different       *)
(* transactions, and only the latter are fenced by the lease: a worker     *)
(* that has lost its job, or that executes a job an administrator created  *)
(* again, still writes to the run.                                         *)
(***************************************************************************)
EXTENDS JobQueue

ASSUME WorkflowAssumption == Queue = "platform"

FinalFlow == {"succeeded", "failed", "cancelled"}
OpenFlow == {"queued", "running"}
FlowStatus == {"none", "pending_approval"} \cup OpenFlow \cup FinalFlow

\* what the graph may return
Returned == FinalFlow \cup {"pending_approval"}

VARIABLES
    flow,    \* pf_workflow_run.status of each operation
    task,    \* where process_workflow_run_job of a worker stands
    mark,    \* the operation whose run a worker is about to mark failed
    dropped  \* history: operations whose worker died with them in hand

queue == vars
flows == <<flow, task, mark, dropped>>
runVars == <<queue, flows>>

Free(w) == task[w] = "none" /\ mark[w] = NoOp

Goto(w, label) == task' = [task EXCEPT ![w] = label]
SetFlow(o, status) == flow' = [flow EXCEPT ![o] = status]

-----------------------------------------------------------------------------
(* API handlers *)

\* start_workflow_run: the operation, its job and the run in one transaction
StartRun(o) ==
    /\ Submit(o)
    /\ SetFlow(o, "queued")
    /\ UNCHANGED <<task, mark, dropped>>

\* mutant: the run is left to a worker
CancelRunMutant(o) ==
    /\ RequestCancellation(o)
    /\ UNCHANGED flows

\* request_cancellation: a run that waits with its operation is cancelled too
CancelRun(o) ==
    /\ RequestCancellation(o)
    /\ IF op'[o] = "cancelled" /\ flow[o] = "queued"
       THEN SetFlow(o, "cancelled") ELSE UNCHANGED flow
    /\ UNCHANGED <<task, mark, dropped>>

Retry(j) == RetryJob(j) /\ UNCHANGED flows

-----------------------------------------------------------------------------
(* the worker *)

ClaimWork(w) ==
    /\ Free(w)
    /\ ClaimNow(w) \/ ClaimScan(w) \/ ClaimLock(w)
    /\ UNCHANGED flows

StartWork(w, c) ==
    /\ Free(w)
    /\ Start(w, c)
    /\ Goto(w, "enter")
    /\ UNCHANGED <<flow, mark, dropped>>

\* c is the job in hand, and its handler is at a point of the code
At(w, c, label) == c.phase # "waiting" /\ task[w] = label

\* mutant: an approval that waited too long expires
EnterMutant(w, c) ==
    LET o == opOf[c.job] IN
    /\ At(w, c, "enter")
    /\ IF flow[o] \in Returned
       THEN /\ Goto(w, "record")
            /\ \/ UNCHANGED flow
               \/ flow[o] = "pending_approval" /\ SetFlow(o, "expired")
       ELSE /\ Goto(w, "graph")
            /\ SetFlow(o, "running")
    /\ UNCHANGED <<queue, mark, dropped>>

\* The first transaction: a run that is over is skipped, and its job then
\* completes; an approval that waited too long fails.
Enter(w, c) ==
    LET o == opOf[c.job] IN
    /\ At(w, c, "enter")
    /\ IF flow[o] \in Returned
       THEN /\ Goto(w, "record")
            /\ \/ UNCHANGED flow
               \/ flow[o] = "pending_approval" /\ SetFlow(o, "failed")
       ELSE /\ Goto(w, "graph")
            /\ SetFlow(o, "running")
    /\ UNCHANGED <<queue, mark, dropped>>

Cancelling(o) == op[o] \in {"cancel_requested", "cancelled"}

\* execute_graph returns.  A success is preceded by a look at the lease and at
\* the operation (but for a graph whose last node is an approval with a fallback
\* branch, left out here); a failed node or an approval is not.
Return(w, c) ==
    /\ At(w, c, "graph")
    /\ \E status \in Returned \ {"cancelled"} :
        /\ status = "succeeded" => HoldsLease(c) /\ ~Cancelling(opOf[c.job])
        /\ Goto(w, status)
    /\ UNCHANGED <<queue, flow, mark, dropped>>

ReturnCancelled(w, c) ==
    /\ At(w, c, "graph") /\ HoldsLease(c) /\ Cancelling(opOf[c.job])
    /\ ObserveCancel(w, c)
    /\ Goto(w, "cancelled")
    /\ UNCHANGED <<flow, mark, dropped>>

\* mutant: the run is written whatever its status is by now
PersistMutant(w, c) ==
    LET o == opOf[c.job] IN
    /\ \E status \in Returned : At(w, c, status) /\ SetFlow(o, status)
    /\ Goto(w, "record")
    /\ UNCHANGED <<queue, mark, dropped>>

\* the last transaction; it raises when the run is not running any more
Persist(w, c) ==
    LET o == opOf[c.job] IN
    /\ \E status \in Returned : At(w, c, status) /\ SetFlow(o, status)
    /\ flow[o] = "running"
    /\ Goto(w, "record")
    /\ UNCHANGED <<queue, mark, dropped>>

\* complete_job and cancel_claimed_job
RecordOutcome(w, c) ==
    /\ At(w, c, "record")
    /\ \/ Complete(w, c) /\ op'[opOf[c.job]] = "succeeded"
       \/ CancelClaimed(w, c)
    /\ Goto(w, "none")
    /\ UNCHANGED <<flow, mark, dropped>>

\* a finishing call whose fence matches no row, wherever the job stands
LoseWork(w, c) ==
    /\ LeaseLost(w, c)
    /\ Goto(w, "none")
    /\ UNCHANGED <<flow, mark, dropped>>

\* mutant: the run is not marked
FailWorkMutant(w, c) ==
    /\ Fail(w, c)
    /\ Goto(w, "none")
    /\ UNCHANGED <<flow, mark, dropped>>

\* an exception, wherever the job stands: its rows first, then the run
FailWork(w, c) ==
    /\ Fail(w, c)
    /\ Goto(w, "none")
    /\ mark' = [mark EXCEPT ![w] = opOf[c.job]]
    /\ UNCHANGED <<flow, dropped>>

\* mutant: only a run that has started is marked
MarkFailedMutant(w) ==
    /\ mark[w] # NoOp
    /\ IF flow[mark[w]] = "running" THEN SetFlow(mark[w], "failed") ELSE UNCHANGED flow
    /\ mark' = [mark EXCEPT ![w] = NoOp]
    /\ UNCHANGED <<queue, task, dropped>>

\* mark_workflow_run_failed, a transaction of its own
MarkFailed(w) ==
    /\ mark[w] # NoOp
    /\ IF flow[mark[w]] \in OpenFlow THEN SetFlow(mark[w], "failed") ELSE UNCHANGED flow
    /\ mark' = [mark EXCEPT ![w] = NoOp]
    /\ UNCHANGED <<queue, task, dropped>>

\* the worker dies, or an exception leaves its loop, with jobs in hand or
\* between the two transactions of a failure
Die(w) ==
    /\ \/ Abandon(w)
       \/ held[w] = {} /\ mark[w] # NoOp /\ UNCHANGED queue
    /\ Goto(w, "none")
    /\ mark' = [mark EXCEPT ![w] = NoOp]
    /\ dropped' = dropped \cup {opOf[c.job] : c \in held[w]} \cup ({mark[w]} \ {NoOp})
    /\ UNCHANGED flow

-----------------------------------------------------------------------------
RunInit ==
    /\ Init
    /\ flow = [o \in Ops |-> "none"]
    /\ task = [w \in Workers |-> "none"]
    /\ mark = [w \in Workers |-> NoOp]
    /\ dropped = {}

Work(w, c) ==
    \/ StartWork(w, c) \/ Enter(w, c) \/ Return(w, c) \/ ReturnCancelled(w, c)
    \/ Persist(w, c) \/ RecordOutcome(w, c) \/ LoseWork(w, c) \/ FailWork(w, c)

Serve(w) == ClaimWork(w) \/ MarkFailed(w) \/ \E c \in held[w] : Work(w, c)

RunNext ==
    \/ \E o \in Ops : StartRun(o) \/ CancelRun(o)
    \/ \E j \in Jobs : Retry(j)
    \/ \E w \in Workers : Serve(w) \/ Die(w)

RunSpec == RunInit /\ [][RunNext]_runVars

\* the worker loops never stop, and every graph ends
RunFairSpec == RunSpec /\ \A w \in Workers : WF_runVars(Serve(w))

-----------------------------------------------------------------------------
RunTypeOK ==
    /\ TypeOK
    /\ flow \in [Ops -> FlowStatus]
    /\ task \in [Workers -> {"none", "enter", "graph", "record"} \cup Returned]
    /\ mark \in [Workers -> Ops \cup {NoOp}]
    /\ dropped \subseteq Ops

\* the worker still has something to do for the run
Busy(w, o) == mark[w] = o \/ \E c \in held[w] : opOf[c.job] = o

\* A run is not left queued or running once its operation is final, whichever
\* of the workers, cancellations and retries came in between, unless a worker
\* died: the transactions on the two rows do not drift apart.
FinalOperationClosesRun == \A o \in Ops :
    op[o] \in TerminalOperationStates /\ flow[o] \in OpenFlow /\ o \notin dropped =>
        \E w \in Workers : Busy(w, o)

\* An operation that was never retried and shows as cancelled has a cancelled
\* run: no worker that claimed it through a stale snapshot executes the run
\* to another end behind the user's back.
CancelledMeansCancelled == \A o \in Ops :
    op[o] = "cancelled" /\ (\A i, j \in JobsOf(o) : i = j) => flow[o] = "cancelled"

\* A run that has ended keeps its status: neither a second worker on its job
\* nor an administrator's retry nor a late mark_workflow_run_failed changes it.
EndedRunStays ==
    [][\A o \in Ops : flow[o] \in FinalFlow => flow'[o] = flow[o]]_runVars

\* Every run ends or waits for an approval, unless a worker dies.
RunsEnd == \A o \in Ops :
    flow[o] \in OpenFlow ~> flow[o] \notin OpenFlow \/ o \in dropped
=============================================================================

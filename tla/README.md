# TLA+ models of WorkAMA

WorkAMA is a self-hosted AI workspace. A FastAPI control plane (`apps/platform-api`)
keeps everything in PostgreSQL and talks to its background workers through tables
and NATS JetStream. A Go gateway (`apps/gateway`) relays model calls and meters them.
An agent server (`apps/agent-server`) runs agent sessions, and a sandbox fleet
(`apps/sandbox-fleet`) manages Docker containers for them. This directory holds TLA+
models of the parts whose correctness depends on the order in which several
processes act, their model-checking configurations and machine-checked proofs.

Paths below are relative to `src/`; `P/` stands for
`apps/platform-api/src/workama_platform/`.

## 1. The system

### Components

| Component | State | Operations | Interacts with |
|---|---|---|---|
| Async job runtime (`P/modules/jobs.py`, `P/rag_worker.py`, `P/worker.py`, `P/modules/knowledge.py`) | `ops_async_operation`, `ops_job`, `ops_job_run`, `ops_job_dlq` | submit, cancel, retry, replay, claim, heartbeat, complete, cancel by the worker, fail | every module that runs long work; several worker processes compete |
| Credit ledger (`P/modules/billing`, `P/modules/gateway/router.py`, `P/modules/subscriptions.py`) | `bill_account`, `bill_credit_grant`, `bill_reservation`, `bill_usage_record`, `bill_transaction` | reserve, release, settle, expire, grant, migrate, purchase, refund | gateway (HTTP), metering consumer, hourly expiry loop, payment callbacks |
| Metering delivery (`apps/gateway/internal/metering`, `P/worker.py` consumer) | JetStream stream, `ops_inbox`, the gateway's request in progress | reserve call, relay, publish, HTTP fallback, release call, redelivery, de-duplication | credit ledger |
| Outbox, automation, webhooks (`P/worker.py`, `P/modules/automation.py`, `P/modules/notification`) | `ops_outbox`, schedules, runs, deliveries | publish and mark, due schedules, retried deliveries | NATS, external HTTP |
| Workflow runs and work plans (`P/modules/workflows.py`, `P/modules/work.py`) | run, step and plan rows | start, step, approve, finish, retry | job runtime |
| Sandbox fleet (`apps/sandbox-fleet`) | table of sandboxes, Docker containers, warm pool | acquire, sleep, wake, release, reap, refill, restart clean-up | agent server, Docker |
| Agent server (`apps/agent-server`) | session events, subscribers, coordination budget | stream, replay, plan, run tools, coordinate | sandbox fleet, gateway |
| Gateway relay (`apps/gateway/internal/{server,relay,configsync,token}`) | breakers, limiters, background responses, configuration snapshot | route, fail over, cancel, poll | model providers, platform-api |
| Knowledge and memory pipeline | documents, chunks, embeddings | ingest, embed, search | job runtime |
| Sessions, approvals, messaging; identity, tenancy, administration; tools, connectors, skills; sandbox daemon; user interfaces; deployment | rows behind request handlers, client state | CRUD and adapters | the above |

### What is hard, and what makes each part correct

* **Job runtime.** Workers race for rows through `FOR UPDATE SKIP LOCKED`, and the status
  test of the claim is in a sub-query that PostgreSQL does not evaluate again after it
  has locked a row: a claim may act on an old snapshot. API handlers cancel and retry
  jobs while they run. A worker may lose a job and not know it, or die. *Correct* means:
  each attempt is decided once and by the worker that holds its token; job, attempt,
  operation and dead-letter rows tell one story; the retry budget is kept; every
  operation ends.
* **Credit ledger.** Repeated and reordered reserve, release and settle calls, expiry in
  the middle of other transactions, consumption spread over buckets, a migration step
  that runs at every start of a process. *Correct* means: the three balances are always
  the sums of the rows they summarise, no credit is created or lost, and concurrent
  requests are not let in on the same credits.
* **Metering delivery.** An ambiguous publish with a fallback over a second channel,
  redelivery after a commit whose acknowledgement was lost, at most five deliveries.
  *Correct* means: a served request is charged at most once, and exactly once unless a
  named loss occurs; a reservation is not left frozen.
* **Outbox.** Publish, then mark: at least once, never lost, marks not overwritten.
* **Sandbox fleet.** Handlers hold a row they have read, a container they have claimed and
  an archive they have taken over many awaits, while the reaper, other handlers and
  restarts move. *Correct* means: the files of one sandbox never reach another; no
  container gets out of reach except by a named failure; a sandbox past its time to live
  goes, and one whose container is gone is noticed.
* **Agent server.** Stored events, their broadcast, the replay to a new socket and the page
  that applies them are not one transaction; a command changes a row first and a Redis
  key afterwards. *Correct* means: an open page shows every stored event, none of them
  again and again; a page that keeps up is not cut off; a session without a run is not
  left busy; an accepted cancellation ends the run. Also, the budget of concurrent tasks
  must be bounded.
* **Gateway relay.** The breaker opens, probes and closes; a cancelled background response
  stays cancelled.

`PROJECT.json` lists the hazards with their lines, and the properties that cover them.

## 2. Plan

| Step | Modules | Abstract promise | State |
|---|---|---|---|
| 1 | `FencedAttempts`, `JobQueue`, `MCJobQueue`, `JobQueueProofs` | an attempt is decided once, by its worker, while it is the last | done |
| 2 | `BillingLedger`, `MCBillingLedger`, `Sums`, `SumTheorems`, `BillingLedgerProofs` | an account whose balance is the sum of its postings | done |
| 3 | `BilledRequests`, `Metering` (composed with `BillingLedger`), `MCMetering`, `MeteringProofs` | the ledger's own specification; each request is carried until it is charged once, given back, or lost by name | done |
| 4 | `PrivateWorkspaces`, `SandboxFleet`, `MCSandboxFleet`, `SandboxFleetProofs` | a container is given to one sandbox for good and holds no other's files | done |
| 5 | `EventStream`, `AgentSession` (composed with it), `MCAgentSession`, `EventStreamProofs`, `AgentSessionProofs` | every page shows the stored events | done |
| 6 | `WorkflowRun` (composed with `JobQueue`), `MCWorkflowRun`, `WorkflowRunProofs` | the run of a final operation is closed, once | done |
| 7 | work plans, composed like `WorkflowRun`; `Outbox` | plan and operation agree; at-least-once publication | planned |
| 8 | `Coordinator` (budget of agent tasks) | spending bounded by the budget plus the calls under way | planned |
| 9 | `Breaker`, `BackgroundResponse` (gateway) | final statuses stay | planned |

Parameters are CONSTANTS with named assumptions; no module uses RECURSIVE, so that all
of them can be proved about.

## 3. Module by module

### `FencedAttempts` and `JobQueue`

`FencedAttempts` is the promise: the attempts of a job are granted in order; the worker of an
attempt, and nobody else, may record its outcome, once, while it is the last one; and a worker
loses an attempt only to a later one, or by dying. `JobQueue` is the code and implements it
(`FencesAttempts`): `attempts` is `run`, `granted` is what the workers hold without their
tokens, `deaths` is `abandons`. Jobs, operations, tokens, dead letters, rows selected but not
locked and the first heartbeat are hidden, and so are cancellations and retries: to the
promise they are no steps.

One action is one committed transaction. Columns become functions: `op` (status of
`ops_async_operation`), `job`, `opOf` and `lease` (`ops_job`), `run` (the rows of
`ops_job_run` of a job, in the order of `attempt_no`), `dlq`. `scan` is what a claim
statement has selected but not locked, `held` the `ClaimedJob` values in a worker's
memory.

* A lease token is random in the code. The model writes the number of the attempt it was
  drawn for; the fence `lease_token = ..` compares a token with the token of the same
  job only, so that is all it tells apart.
* `Submit`, `RequestCancellation`, `RetryJob` are the API handlers. `RetryJob` also stands
  for the dead-letter replay, which calls it.
* `ClaimNow` is a claim within which no transaction commits (`AtomicClaim`);
  `ClaimScan` and `ClaimLock` are its snapshot and its update otherwise. Due times,
  priorities, batch limits and skipped rows are abstracted: a claim selects any
  claimable rows, at most one per workspace.
* `Start` is the first heartbeat, `ObserveCancel` the job code's decision to stop (it has
  read the operation's status, or finds that its document is gone or its work plan
  cancelled, so no request need precede it), `Complete`, `CancelClaimed`, `Fail` the three finishing calls with their fence, and
  `LeaseLost` any of them when the fence matches no row.
* `Abandon` is a worker that dies or leaves its loop with jobs in hand.

`Queue` chooses between the loop of `rag_worker.py` (retries up to `max_attempts`) and
the one of `worker.py` (`retryable=False`, partial success). One queue is modelled at a
time. The platform loop claims from the `workflow` queue in the same way.

### `WorkflowRun`

The runs of workflows on top of `JobQueue`: each action contains the action of the job
runtime that the same code executes, or leaves its rows alone. `flow` is
`pf_workflow_run.status`, `task` the point at which `process_workflow_run_job` of a worker
stands, `mark` the run for which `mark_workflow_run_failed` is still to be called.

* `StartRun` contains `Submit`, `CancelRun` contains `RequestCancellation`: these are one
  transaction over both rows.
* A job in hand is `StartWork` (the first heartbeat), `Enter` (the first transaction: a run
  that is over is skipped, an approval that waited too long fails), `Return` or
  `ReturnCancelled` (`execute_graph`, with its looks at the lease and the operation), `Persist`
  (the last transaction, conditional on `running`), and `RecordOutcome` (`complete_job` or
  `cancel_claimed_job`). `FailWork` is an exception anywhere in it, followed by `MarkFailed` in
  a transaction of its own; `LoseWork` is any finishing call that has lost the lease.
* The updates of the run do not look at the lease. That the run and its operation agree
  nevertheless is due to their guards on the status and to the order of the transactions,
  and is what the properties are about.
* `Die` is `Abandon`, or a death between the two transactions of a failure. `dropped` is a
  history variable: the operations that a dead worker had in hand.

Left out: the nodes of a graph, the events of a run, runs that a node or an automation starts
without a job, and the refusals before a run is queued (nesting, validation, a repeated
idempotency key).

### `BillingLedger`

One workspace. One action is one committed transaction: all of them lock the row of
`bill_account` before they read a balance, so they do not interleave. Transactions that
raise, or that PostgreSQL aborts to break a deadlock, are rolled back and are no step.

* `granted`, `purchased`, `frozen` are the columns of `bill_account`; `remaining` and
  `status` those of `bill_credit_grant`, whose rows are numbered in the order of
  `expires_at`; `lapsed` is the `expire` transaction of a bucket; `reservation` and
  `estimate` are `bill_reservation`; `usage` is the usage record of a request together
  with its transaction.
* `Expire`, `Reserve` and `Settle` share `UpdateBuckets`: what is due expires, then the
  loop of `consume_granted_credits_in_transaction` takes the charge from the others,
  earliest first. `Used(b, amount)` is what this loop takes from one bucket: the part of
  the amount that the earlier buckets leave.
* `Migrate` is the statement of `ensure_runtime_schema`, run at every start of a process.
  It adds a bucket for the whole granted balance although the credits have buckets. The
  model shows that it never matters: the bucket sorts last and is never reached.
* `Tick` lets one more bucket reach its `expires_at`. `Purchase` and `Refund` are the
  transactions of credit orders.

`Sums` defines sums over finite sets as the cardinality of a disjoint union. This is
unusual, but it lets the proofs use the library's theorems on cardinalities in place of
an induction.

Abstracted: orders, invoices and subscriptions beyond the credits they move; several
workspaces (they share no row); accounts from before buckets existed (`Init` is the
account that registration creates); the stale snapshot that `Migrate`'s statement may
read. A grant is for a period whose end lies ahead: the callers pass such dates, and the code
does not check them. The refunds of a payment are bounded in money and turned into credits one
by one, rounded to 1e-6 (subscriptions.py:1048-1061); the model bounds the credits, so together
they may differ from the code's by some micro-credits.

### `BilledRequests` and `Metering`

`BilledRequests` is the promise for one model call: somebody carries it from its start until
it is resolved (its credits are not frozen, and if it was served it is charged), or until it is
lost; it is charged once, and only when it was served; its credits are given back only when it
was not, by the handler while nobody else carries it. `Metering` implements it
(`BillsRequests`): `credits` is `reservation` and `price` is `usage` of the ledger; a handler in
flight and a message that will be delivered again are the `carriers`; lost is what `lost` records
and what the stream gives up (`Undelivered`). The balances, the buckets, the inbox and the
numbers of deliveries are hidden.

`Metering` is the code: the handler of a model call, the metering client, the JetStream stream
and its consumer, composed with `BillingLedger` by conjoining its actions: `Admit` contains `Reserve`,
`ReleaseCall` contains `Release`, `Charge` contains `Settle`. `LedgerStep` is everything
that happens to the ledger for other reasons, so credits can expire or be refunded
between a reservation and its settlement, and the settlement then fails.

* `phase` is where the handler stands; `message` and `deliveries` are the stream and its
  durable consumer; `inbox` is `ops_inbox`. `served` and `lost` are history variables that
  only the properties read.
* A remote call is one step, with the outcomes executed and answered, executed with the
  answer lost, and not executed. A call that is executed after its caller has given up
  has the same effect as one executed before: the caller does not look again.
* `Serve`, `Fail` and `ServeUnreserved` stand for everything up to the channel's answer
  (moderation, routing, fail-over): what matters here is which of them the handler takes.
  Embeddings and audio are metered without a reservation.
* `Publish` and `PublishFails` are `Client.Record`; a publish that fails may have stored
  its message, and the record then travels both ways. `Fallback` is the HTTP call. Both
  end in `settle_meter_in_transaction`, whose first test is for a usage record (`Charge`).
* `Consume` is a delivery whose transaction commits, acknowledged or not; `DeliveryFails`
  one that is rolled back or never commits; `RepairEvent` the endpoint that takes an
  envelope over HTTP under the name of the same consumer; `Age` the retention limit.
* `Crash` ends a handler anywhere. Nothing of a handler survives: the gateway keeps no
  record of a chat request, and nothing on the platform sweeps frozen reservations.

Abstracted: request ids are distinct (a caller that sends its own id twice shares one
reservation and one charge); an invalid envelope, which the gateway does not produce and
the consumer terminates; the retries inside the NATS client; a gateway that is configured
without metering. The cost is chosen at settlement, as the price is read there.

### `PrivateWorkspaces` and `SandboxFleet`

`PrivateWorkspaces` is the promise: a container is given to one sandbox, for good, and from
then on it holds nothing of another. `SandboxFleet` is the server process of
`apps/sandbox-fleet`, and implements it: the refinement mapping takes the history variable
`given` for the owner of a container and the contents of its volume for its files.

* `row`, `idle`, `expired` are the table `ag_sandbox` with what its two timestamps say;
  `state`, `warm`, `files` is what Docker knows of each container; `object` is the snapshot
  of each sandbox in the object store. `pool` and `refills` are `warm_pool` and the tasks
  that replace a warm container. `stray` is a history variable: the containers that a failure
  made the fleet forget.
* `req` is the memory of the request handlers, split at their awaits. `acquire` is
  `AcquireNew` or `AcquireSleeping`, then `StartBox`, `ClaimWarm` or `ClaimCold`, `Restore`,
  `Activate` or `Insert`. `exec`, the browser and each message of a terminal (which
  has read the row when the terminal was opened) are `BeginUse`, `Use`, `Touch`; `write_file` is `BeginWrite` and then the same, because it alone does not ask
  for an active row (main.py:794) and writes through one that sleeps or has ended. Reading a
  file changes nothing.
  `sleep_sandbox` is `BeginSleep`, `Archive`, `Upload`, `StopBox`, `RecordSleep`; the release
  is `BeginRelease`, `RemoveBox`, `DropSnapshot`, `RecordRelease`.
* `FillPool` is `maintain_warm_pool`, `Replenish`, `ReplenishTooLate` and `ReplenishFails` the
  ends of a task of `_replenish_once`; the creation is in the same step as what follows it,
  since nobody else sees the container before. `CleanUp(kept)` is `cleanup_warm_containers`.
  Removals fail as they do in the code: `kept` are the containers whose removal was passed
  over (main.py:500), `ReplenishTooLate` may leave its surplus container (525), and `LeaveBox`
  is a `create_container` that raises and leaves one behind (459), in a claim, a fill or a
  replenishment.
* `stray` gets what these leave, and also the container of a handler that fails, is refused by
  the index, or stops with the server before it has recorded it, and the one that a second wake
  overwrites. `BoxesWithinReach` says that nothing else gets lost: every other container is in
  the pool, in a handler or on a row. A warm container that has outlived its process is not
  stray; the next start finds it by its label.
* `reaper` is the memory of the reaper. A pass is one transaction: the ages and containers it
  acts on are those of its SELECT, its updates lock their rows and become visible at
  `ReaperCommit`. The partial unique index on the live row of a scope is `IndexAllows`.
* `Crash`, `Shutdown`, `Reconcile` and `Start` are the life of the process; `LoseBox`,
  `HandlerFails` and `ReaperDies` are lost containers and failing calls, of which there are
  `MaxTroubles` together with the restarts.

Abstracted: one workspace, so that the two limits are one, `MaxTotal`; the digest of an
archive stands for itself. Left out: metered seconds, volumes apart from their containers, the provider
checks, image routing, network policy and configuration refresh.

### `EventStream`

The events of one session on their way to the pages that show it. An event is committed
(`AppendEvent`), then the sockets subscribed at that moment are looked up (`Aim`) and sent to
concurrently (`SendLive`, `Book`), and the run waits for all of them. A page visit loads the
stored events over HTTP (`Load`), opens a socket with the last of them as its cursor
(`Select`), is subscribed (`Subscribe`), gets a greeting with a snapshot (`Hello`) and the
replay (`SendReplay`, `Book`). `Book` is what `_send_to_socket` does after the await of
`send_json`, with `DeliveryState.lock` held: the queue of pending events, and closing a
socket that has too many. `Receive` is the page, web or mobile, with its acknowledgement.

* A view is one visit with one socket. A visit is web or mobile; the two treat the snapshot
  differently: the server sends its events at the top level of the message
  (`apps/agent-server/src/workama_agent/main.py:747`), the web page looks for them in the
  payload and ignores them (`apps/web/.../ChatPage.tsx:75`), and the mobile app replaces what
  it shows by them, by an empty snapshot too (`apps/mobile/App.tsx:92`).
* `excused` is a history variable: the events that will not reach a page although they are
  stored. The code has four ways of losing one: a limit cuts it off; it is emitted between the
  SELECT of a socket and its subscription; the web page ignores the snapshot it is in; a
  snapshot wipes it out of the mobile app. `MissingIsExplained` says there is no fifth.

Left out: reconnection by the client libraries (a visit is a fresh mount) and events of other
sessions.

### `AgentSession`

The run of a session and the commands that control it, composed with `EventStream`: `Emit` is
its `AppendEvent`, and a step of the run that follows an event waits until it is sent
(`Quiet`). `status` is `ag_session.status`, `control` the Redis key; `command` is a request of
the platform that has changed the row (`Accept`) and is about to set the key (`Post`,
`PostFails`). `run` is where `_run_message` stands; `Look`, `Poll`, `Delete` are
`control_checkpoint`; `End` stands for the `finally` clauses of the four kinds of run. `lost`
and `orphan` are history variables: the key lost a command; the last run left without setting
the row.

Abstracted: approvals, tools, planner and model calls are `Work`; a cancellation from
`waiting_approval` (session/router.py:177), a status that no step modelled here reaches. Left
out: the budget and the coordination of several agents, and database failures outside the `try` blocks of a run.

## 4. Runs

All runs set `CHECK_DEADLOCK FALSE`: an instance stops when its work and its bounds are
used up, which is no defect. `MaxRetries`, `MaxAbandons`, `NumBuckets`, and the sizes of
the sets are the only bounds.

| Run | Instance | States | Shows |
|---|---|---|---|
| `JobQueueFencing` | platform queue, stale claims, 2 operations, 3 jobs, 2 workers, 1 retry, 1 abandoned batch | 882 769 | `FencedAttempts` is implemented: the fence lets the holder of the last attempt record its outcome and nobody else, even when two workers claim one row; job, attempt and dead-letter rows agree; an open operation has a job to claim, or one in the hands of a worker that may decide it unless a worker died |
| `JobQueueAtomic` | RAG queue, atomic claims, 2 operations, 3 jobs, 2 workers, 3 attempts, 1 retry, 1 abandoned batch | 164 377 | final jobs stay final, the retry budget is kept, the operation mirrors its only job, every operation terminates unless a worker that dropped its batch left one of its jobs running |
| `WorkflowRun` | platform queue, stale claims, 1 run, 2 jobs, 2 workers, 1 retry, 1 death | 88 364 | the run of a final operation is closed, a cancelled run is not executed to another end, an ended run stays as it is, every run ends |
| `BillingLedger` | 2 requests, 3 expiring buckets and the migration bucket, 1 payment, charges below and above the estimates | 299 750 | the balances agree with their rows |
| `Metering` | 2 requests, 1 expiring bucket and the migration bucket, 1 payment, 2 deliveries | 412 356 | `BilledRequests` is implemented: no order of lost calls, redeliveries and crashes charges twice, charges what was released, or strands credits or charges for another reason than a named loss; every request in flight is resolved |
| `SandboxFleet` | 2 sandboxes, 3 containers, 3 requests, 1 warm container, 1 change of files, 1 trouble | 5 965 358 | files stay private to their sandbox, and no container gets out of reach but by a named failure, whatever the handlers, the reaper, restarts and failing removals do |
| `SandboxReaper` | 2 sandboxes of one scope, 3 containers, 3 requests, no warm containers, 1 trouble | 190 676 | an expired sandbox is reaped and a lost container noticed |
| `AgentSession` | 1 page visit (web or mobile), 3 events, limits 1, 2 and 1, 2 pending events, 2 commands, 2 runs | 1 924 798 | pages miss only what is named and double at most one event; back-pressure spares a page that keeps up; no run leaves its session busy; pages catch up and cancellations end |
| `JobQueueLostCancel`, `JobQueueRevived`, `JobQueueRefusedCancel`, `BillingOverrun` | small | | one counterexample each (section 6) |

Why the bounds suffice: a race needs two workers, and a third job is what a retry makes
of one of two operations (several jobs of one operation, and jobs of different ones).
Three attempts show a first, a middle and a last one. Three expiring buckets let a charge
span a bucket, end at its edge and leave a later one alone, with one bucket expired and
one not. Two requests show one that settles while the other is frozen. Two deliveries show one
that commits without its acknowledgement and a last one. Two sandboxes and three requests
let a container or an archive of one meet the other; three containers let a replenishment come
too late, and a second wake overwrite the container of a first; one trouble is one restart, lost
container or failing call at any point, and removals of the clean-up fail beside it, any number
of them. Three events and limits of one and two let each limit cut off
an event and leave one; one view is enough because views share only the run, which any of
them may delay, and the proofs cover any number of them. Two commands show one that overtakes
another. One workflow run with a job and its retry lets two workers act on one run; runs share
no row, and the safety proofs cover any number of them. Symmetry is used only where no liveness property is checked: over the jobs and
workers of `JobQueueFencing` and of the three counterexamples about jobs, and the requests of
`BillingLedger`.

**Fairness.** `FairSpec` asks weak fairness of each worker's next step. The code gives it:
`loop` in `rag_worker.py` and `main` in `worker.py` run until the process ends, sleep for
a bounded time, and catch the exceptions of a batch; job handlers return or raise.
Nothing is asked of API handlers, nor of `Abandon`. A row whose worker died stays `running`
for good, since `claim_jobs` selects `queued` and `retry_wait` rows only and nothing else
reads `lease_until`. `OperationsTerminate` therefore excepts an operation with such a row
(`Stranded`), and only that. `RunFairSpec` of `WorkflowRun` asks the same of the worker loop
with the handler in it (`Serve`), whose graph ends: nodes have timeouts.

`FairSpec` of `Metering` asks weak fairness of a handler that has left `idle` (a goroutine
runs until it returns; the calls have timeouts) and of the delivery of each message that
the stream still delivers (the consumer is durable and reconnects without limit). It asks
nothing of their outcomes: every call and every delivery may fail.

`FairSpec` of `SandboxFleet` asks weak fairness of the reaper (a task that loops with a bounded
sleep, until an exception ends it: the properties except that), of `Reconcile` and `Start` (a
server that is down is restarted by its container's policy), and strong fairness of `GrowIdle`
(time passes: a row that is again and again unused becomes idle). Handlers may stop anywhere.

`FairSpec` of `AgentSession` asks weak fairness of the run, of the broadcast, of each view's
subscription, sending and page (tasks of an event loop and of a browser, each of which
otherwise leaves), and of a request that has changed the row and now sets or fails to set the
key. Nothing is asked of users: they need not send, open, resume or cancel.

## 5. Proofs

Checked by TLAPS for all values of the constants.

* `JobQueueProofs`: `Inv` is inductive. Each part needs the others: a fresh token is new
  because claims refer to recorded attempts only (`ClaimsAreRecorded`); a worker that passes
  the fence holds the token of the last attempt (`LeaseWhileRunning`), and it is the only one
  (`ClaimsAreUnique`); its outcome lands in an attempt that is still open
  (`JobAgreesWithLastRun`). From it follow the action properties `RunOutcomeIsFinal` and
  `OnlyHolderFinishes`.
  `AttemptsAreFenced` is the refinement of `FencedAttempts`. It needs the converse of the
  fence, which `Inv` does not say: whoever holds the last attempt of a job does pass it, since
  nothing but a later claim or an outcome touches the lease (`LatestHoldsLease`), and a worker
  that selects rows has nothing in hand (`SelectsIdle`); both are in `FenceInv`.
  `OpenOperationsAreCared` is the safety core of `OperationsTerminate`, and does not ask for
  atomic claims: an operation that is not final has a job to claim or a running one
  (`OpenOperationHasJob`), because a cancellation either refuses or, of a running operation,
  leaves the running jobs alone; and a running job is held through the fence until a worker
  dies (`RunningIsHeld`).
  `FinalJobStays` and `OperationMirrorsJob` are proved under the hypothesis
  `AtomicClaim = TRUE`, without which they are false; so is `AttemptsWithinBudget`, where a
  job that may be claimed has an attempt left (`BudgetLeft`).
* `WorkflowRunProofs`: `RunsAreJobs` says that the composition implements `JobQueue`, so the
  theorems above hold of the jobs of runs (`RunJobsAreFenced`). `RunInv` is the inductive invariant: a worker has
  one job in hand and none while it marks a run; an outcome is written to the run before it
  is written to the operation (`RunIsFirst`); and an open run is queued and untouched, or
  the holder of the lease, a worker about to mark it or a death accounts for it
  (`OpenIsCared`). From it follow the three safety properties and `EndedRunStays`, for any
  number of runs, jobs, workers, retries and deaths and for stale claims too.
* `SumTheorems`: laws of the sums of `Sums`. The central one, `TotalTaken`, says that a
  loop which visits buckets in order and takes from each the smaller of what it has and
  what is still missing takes exactly the amount wanted: numbering the units of all
  buckets in this order is a bijection, and the units taken are those up to the amount.
* `BillingLedgerProofs`: all five properties of the run `BillingLedger`.
  `FrozenIsReserved` and `GrantedIsBacked` are inductive relative to `TypeOK`.
  `BalanceIsAccounted` needs `LapsedIsExpired` (a bucket has an `expire` transaction only
  once its status says so), so that expiry books each bucket once.
  `ReservationsAreCovered` needs `SettledIsBilled` in addition: a reservation is settled
  by the call that charges it.

* `MeteringProofs`: `LedgerImplemented` says that every step of the composition is a step
  of `BillingLedger` or leaves it alone, so the theorems above hold of the composed
  system. `DeliveryInv` is the inductive invariant: per request, how far the handler is
  bounds what its reservation, usage record and message can be (a released request has
  no message; credits are not frozen once there is a usage record). A step is for one
  request; `OneAtATime` shows that the others are untouched. The invariants of the run
  `Metering` follow, and `ChargedOnce`. `RequestsAreBilled` is the refinement of
  `BilledRequests`: `StepCarries` shows for every step that whoever stops carrying a request
  leaves it resolved or lost and that no loss is taken back, which is where `DeliveryInv` is
  needed; what the step does to reservation, usage record and `served` then selects the action
  of the promise.
* `SandboxFleetProofs`: `FleetInvariant` is the inductive invariant: who may hold a container
  (a handler that claimed it, the rows and the reaper's plan of its sandbox, the pool), so
  that nobody writes into a container that was given to another; and that rows, archives and
  objects of a sandbox hold its own files only. Its part `ReachInv` is `BoxesWithinReach` made
  inductive: while the server is down a warm label does for a place in the pool, which is why a
  clean-up that goes by labels and live rows is enough; `ReachStep` carries it over a step that
  changes few containers. From the invariant follow `FleetKeepsBoxesWithinReach` and
  `FleetKeepsWorkspacesPrivate`, the refinement: `Spec` implies the specification of
  `PrivateWorkspaces` under the mapping of section 3. Neither needs a removal to succeed or a
  row to be active when a file is written.
* `EventStreamProofs`: three invariants, each relative to the one before, for any number of
  pages and all limits. `StreamInvariant` gives `NothingElseIsMissed` (`MissingIsExplained`). What a page will still get
  is spread over the replay cursor, the event being emitted, the channel and the snapshot;
  each step moves an event from one of these to the next, and the invariant bounds each of
  them by what is stored. `QueueInvariant` gives `OnlyUnheardIsPending` (`PendingIsUnheard`):
  the pending events, and the one that a sender still has in hand, occur in this order in what
  the page has not received yet, and the first of them is not acknowledged; so they are popped
  as they are received, and only unreceived events count against the limit.
  `FlowInvariant` gives `OnlyOneDouble` (`AtMostOneDouble`): what a page shows, followed by what
  is on its way, has no event twice except the last one that was stored when it subscribed;
  replayed events end there and live ones do not start before it.
* `AgentSessionProofs`: `SessionIsAStream` says that the composition implements `StreamSpec`,
  so what is proved of the stream holds of it (`SessionShowsItsEvents`,
  `SessionOnlyUnheardIsPending`, `SessionOnlyOneDouble`); `BusySessions` is
  `BusyIsExplained`, with what the row can be at each point of a run.

Assumptions are those named in the modules: finite sets of requests and payments, amounts
that are natural numbers, at least one bucket, at least one delivery, `NoOp` outside `Ops`. The code computes
exactly, on `NUMERIC` columns quantised to 1e-6 credits; that is the unit of the model.

Only model-checked: the liveness properties (`OperationsTerminate`, `RunsEnd`,
`EveryRequestResolves`, `ExpiredIsReaped`, `BrokenBoxIsNoticed`, `CancelEndsRun`,
`PagesCatchUp`), which are beyond this prover. Every other property of a passing run is proved.

## 6. Where the code and its own statements differ

* `JobQueueLostCancel`: `fail_job` (`P/modules/jobs.py:199`) writes `retry_wait` into an
  operation in `cancel_requested`; the transition table of the module (line 24) does not
  allow it. The accepted cancellation is forgotten.
* `JobQueueRevived`: a claim with an old snapshot sets a cancelled job to `running`
  (`jobs.py:112`), and its completion ends the cancelled operation as `succeeded`.
* `JobQueueRefusedCancel`: cancelling an operation in `retry_wait` always raises
  (`jobs.py:227`), against the comment above it.
* `BillingOverrun`: a settlement may charge more than was frozen
  (`P/modules/billing/metering.py:125`), against `reservations.py:36-37` and its test.

`retry_job` overwrites the status of an operation too, so `CancellationIsNotForgotten` is
not a property of runs with retries in any case.

The models of workflow runs, of the agent server and of the fleet reach further states that the code's
authors may want to look at. No run is spent on them; each is a behaviour the models have,
and a reason for a clause of a property.

* The outcome of a run and that of its operation may differ, although each closes when the
  other does: a run whose graph returns `failed` completes its job, so the operation shows
  `succeeded` (`P/worker.py:2359`); the retried job of a failed run is skipped and its operation
  becomes `succeeded` while the run stays `failed` (worker.py:1281); a worker that has lost its
  lease may finish a run whose lease holder then fails. `FinalOperationClosesRun` therefore
  asks that the run is closed, not how.
* A run that waits for an approval completes its job, and nothing claims it again: the timeout
  of worker.py:1281-1302 is reached only if the job is repeated for another reason.
* "Events are persisted before delivery; reconnect replay remains authoritative"
  (`apps/agent-server/src/workama_agent/main.py:218`): replay misses the events named under
  `EventStream`, and a page that subscribes between the commit and the broadcast of an event
  gets it twice (`AtMostOneDouble` says that this is all).
* `_control_session` sets the Redis key after its commit: a request that is overtaken puts an
  older command there, and a key that no run consumed hits the next run (`lost`,
  `CancelEndsRun`). A run that ends on an invalid command leaves its session `running`
  (main.py:551-553, `orphan`). The last UPDATE of a run revives an archived session, and that of a
  plan turns `cancelling` into `idle`.
* A stalled subscriber stalls the run: an event is sent to all sockets at once, but the run
  waits for the slowest (`asyncio.gather`, agent main.py:226).
* A sandbox that a handler and the reaper put to sleep at once may keep the digest of one
  archive and the object of the other, and then cannot be woken.
* Containers run on that nothing refers to: each cause of `stray` is one that the run reaches
  (without it TLC finds `BoxesWithinReach` violated), and no part of the fleet looks for cold
  ones. `write_file` changes a sandbox whose row was released or has failed, as long as its
  container runs.

## 7. Not modelled

What section 2 lists as planned, and: the content of jobs (parsing, embedding, model
calls), request handlers that are single transactions over their own rows, adapters to
external programs, user interfaces, deployment. The reasons are in `PROJECT.json`.

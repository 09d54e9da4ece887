---------------------------- MODULE SandboxFleet ----------------------------
(***************************************************************************)
(* The sandbox fleet (apps/sandbox-fleet/src/workama_sandbox/main.py): the *)
(* rows of ag_sandbox, the Docker containers behind them, the pool of warm *)
(* containers, the snapshots in the object store, the request handlers and *)
(* the reaper of one server process, and its restarts.                     *)
(*                                                                         *)
(* A handler is split where it awaits: the row it has read, the container  *)
(* it holds and the archive it has taken are in its memory, and the others *)
(* move meanwhile.  One pass of the reaper is one transaction: until it    *)
(* commits, its updates are invisible and lock their rows.                 *)
(***************************************************************************)
EXTENDS Naturals, Sequences, FiniteSets

CONSTANTS
    Sandboxes,    \* ids of rows, drawn in order: they only have to be new
    Scopes,       \* sessions and workflows, of one workspace
    Containers,   \* ids of containers, drawn in order
    Requests,     \* API requests, begun in order
    None,         \* no container, no archive, nobody
    MaxTotal,     \* the smaller of sandbox_max_total, sandbox_max_per_workspace
    PrewarmSize,  \* sandbox_prewarm_size
    MaxWrites,    \* bound: changes of the files of all sandboxes
    MaxTroubles   \* bound: restarts, lost containers, failing calls except in the clean-up

ASSUME FleetAssumption ==
    /\ Sandboxes \subseteq Nat /\ Containers \subseteq Nat /\ Requests \subseteq Nat
    /\ None \notin Sandboxes \cup Containers \cup Scopes \cup [by : Sandboxes \cup {None}, version : 0..MaxWrites]
    /\ {MaxTotal, PrewarmSize, MaxWrites, MaxTroubles} \subseteq Nat

\* the contents of /workspace; the digest of an archive stands for itself
Files == [by : Sandboxes \cup {None}, version : 0..MaxWrites]
NoFiles == [by |-> None, version |-> 0]

Rows == [scope : Scopes \cup {None}, box : Containers \cup {None},
         status : {"none", "active", "sleeping", "released", "failed"},
         digest : Files \cup {None}]
NoRow == [scope |-> None, box |-> None, status |-> "none", digest |-> None]

\* the memory of a request handler: the sandbox it is about, the row it
\* read, the container it claimed and the archive it took
Handlers == [pc : {"ready", "start", "claim", "restore", "activate", "insert",
                   "run", "touch", "archive", "upload", "stop", "slept",
                   "remove", "drop", "removed", "done"},
             id : Sandboxes \cup {None}, seen : Rows,
             box : Containers \cup {None}, copy : Files \cup {None}]
Ready == [pc |-> "ready", id |-> None, seen |-> NoRow, box |-> None, copy |-> None]
Done == [Ready EXCEPT !.pc = "done"]

\* the memory of the reaper: what the rows of its SELECT call for and their
\* containers, the row it is busy with, and its uncommitted updates
Plans == {"none", "keep", "expire", "suspend"}
Outcomes == {"none", "released", "failed", "sleeping"}
Reapers == [pc : {"waiting", "next", "upload", "stop", "mark", "dead"},
            plan : [Sandboxes -> Plans], box : [Sandboxes -> Containers \cup {None}],
            at : Sandboxes \cup {None}, outcome : Outcomes,
            copy : [Sandboxes -> Files \cup {None}],
            pending : [Sandboxes -> Outcomes]]
Waiting == [pc |-> "waiting", plan |-> [s \in Sandboxes |-> "none"],
            box |-> [s \in Sandboxes |-> None], at |-> None, outcome |-> "none",
            copy |-> [s \in Sandboxes |-> None],
            pending |-> [s \in Sandboxes |-> "none"]]

VARIABLES
    row,      \* ag_sandbox
    idle,     \* the rows not used for sandbox_idle_seconds
    expired,  \* the rows older than sandbox_ttl_seconds
    state,    \* what Docker knows of each container
    warm,     \* its label workama.warm
    files,    \* the contents of its volume
    given,    \* history: the sandbox for which it was claimed
    stray,    \* history: containers that a failure made the fleet forget
    object,   \* the snapshot of each sandbox in the object store
    pool,     \* warm_pool
    refills,  \* tasks of _replenish_once under way
    req,      \* request handlers
    reaper,   \* the reaper task
    phase,    \* of the server: "down", "reconciled", "up"
    writes, troubles  \* bounded counters

table == <<row, idle, expired>>
docker == <<state, warm, files, given, stray>>
warming == <<pool, refills>>
counters == <<writes, troubles>>
vars == <<table, docker, object, warming, req, reaper, phase, counters>>

-----------------------------------------------------------------------------
Live(s) == row[s].status \in {"active", "sleeping"}
Exists(c) == c # None /\ state[c] \in {"running", "stopped"}

\* the reaper's open transaction has not locked the row, or any row of the scope
Unlocked(s) == reaper.pending[s] = "none"
ScopeUnlocked(sc) == \A s \in Sandboxes : row[s].scope = sc => Unlocked(s)

\* uq_ag_sandbox_active_scope admits a live row s of scope sc
IndexAllows(s, sc) == \A t \in Sandboxes \ {s} :
    row[t].scope = sc => IF Unlocked(t) THEN ~Live(t)
                                        ELSE reaper.pending[t] # "sleeping"

\* a request begins; its handler is at a point of the code; it goes on with
\* the memory mem, or with its memory unchanged
Begin(r, mem) ==
    /\ phase = "up" /\ req[r] = Ready
    /\ \A q \in Requests : q < r => req[q] # Ready
    /\ req' = [req EXCEPT ![r] = mem]
At(r, label) == phase = "up" /\ req[r].pc = label
Go(r, mem) == req' = [req EXCEPT ![r] = mem]
Goto(r, label) == Go(r, [req[r] EXCEPT !.pc = label])

\* only the id of the sandbox is still needed
Leave(r, label) == Go(r, [Ready EXCEPT !.pc = label, !.id = req[r].id])

SetState(c, st) == state' = [state EXCEPT ![c] = st]

\* create_container: a new volume, a new container that runs
New(c) == state[c] = "none" /\ \A d \in Containers : d < c => state[d] # "none"
Create(c, label) ==
    /\ New(c)
    /\ SetState(c, "running")
    /\ warm' = [warm EXCEPT ![c] = label]

Trouble == troubles < MaxTroubles /\ troubles' = troubles + 1 /\ UNCHANGED writes

\* those of B that exist, and that nothing refers to from now on
Strand(B) == stray' = stray \cup {c \in B : Exists(c)}

\* create_container raises, and its container stays: it was created but not
\* started, or agentd does not answer and the removal fails as well
LeaveBox(c, label) ==
    /\ New(c)
    /\ \E st \in {"running", "stopped"} : SetState(c, st)
    /\ warm' = [warm EXCEPT ![c] = label]
    /\ stray' = stray \cup {c}
    /\ Trouble

\* a committed update of a row; it also sets last_active_at, or leaves the
\* row in a status in which that is not looked at
Update(s, r) ==
    /\ row' = [row EXCEPT ![s] = r]
    /\ idle' = idle \ {s}
    /\ UNCHANGED expired

-----------------------------------------------------------------------------
(* acquire *)

Unused(s) ==
    /\ row[s] = NoRow
    /\ \A r \in Requests : req[r].id # s
    /\ \A c \in Containers : given[c] # s

\* the scope has no live row and there is capacity: a new sandbox
AcquireNew(r, sc, s) ==
    /\ \A t \in Sandboxes : row[t].scope = sc => ~Live(t)
    /\ Cardinality({t \in Sandboxes : row[t].status = "active"}) < MaxTotal
    /\ Unused(s) /\ \A t \in Sandboxes : t < s => ~Unused(t)
    /\ Begin(r, [Ready EXCEPT !.pc = "claim", !.id = s, !.seen.scope = sc])
    /\ UNCHANGED <<table, docker, object, warming, reaper, phase, counters>>

\* the scope has a sleeping row (an active one is answered with as it is)
AcquireSleeping(r, s) ==
    /\ row[s].status = "sleeping"
    /\ Begin(r, [Ready EXCEPT !.pc = IF Exists(row[s].box) THEN "start" ELSE "claim",
                              !.id = s, !.seen = row[s]])
    /\ UNCHANGED <<table, docker, object, warming, reaper, phase, counters>>

StartBox(r) ==
    LET c == req[r].seen.box IN
    /\ At(r, "start")
    /\ \/ Exists(c) /\ SetState(c, "running") /\ Leave(r, "activate")
       \/ ~Exists(c) /\ UNCHANGED state /\ Goto(r, "claim")
    /\ UNCHANGED <<table, warm, files, given, stray, object, warming, reaper, phase, counters>>

\* where a handler goes with the container it has claimed
Claimed(r, c) == Go(r, [req[r] EXCEPT
    !.pc = IF req[r].seen.status = "sleeping" THEN "restore" ELSE "insert", !.box = c])

Give(c, s) == given' = [given EXCEPT ![c] = s]

\* a mutant: the container is looked at but not taken out of the pool
ClaimWarmMutant(r) ==
    /\ At(r, "claim")
    /\ pool # <<>>
    /\ Claimed(r, Head(pool))
    /\ Give(Head(pool), req[r].id)
    /\ refills' = refills + 1
    /\ UNCHANGED <<table, state, warm, files, stray, object, pool, reaper, phase, counters>>

\* the oldest warm container, and a task to replace it
ClaimWarm(r) ==
    /\ At(r, "claim")
    /\ pool # <<>>
    /\ Claimed(r, Head(pool))
    /\ Give(Head(pool), req[r].id)
    /\ pool' = Tail(pool)
    /\ refills' = refills + 1
    /\ UNCHANGED <<table, state, warm, files, stray, object, reaper, phase, counters>>

\* the pool is empty, or the image is not the default one
ClaimCold(r, c) ==
    /\ At(r, "claim")
    /\ Claimed(r, c)
    /\ Create(c, FALSE)
    /\ Give(c, req[r].id)
    /\ UNCHANGED <<table, files, stray, object, warming, reaper, phase, counters>>

ClaimFails(r) ==
    /\ At(r, "claim")
    /\ Go(r, Done)
    /\ UNCHANGED <<docker, counters>> \/ \E c \in Containers : LeaveBox(c, FALSE)
    /\ UNCHANGED <<table, files, given, object, warming, reaper, phase>>

\* restore_snapshot: an object that is gone or has another digest raises,
\* and nobody removes the container
Restore(r) ==
    LET q == req[r] IN
    /\ At(r, "restore")
    /\ IF object[q.id] = q.seen.digest /\ Exists(q.box)
       THEN files' = [files EXCEPT ![q.box] = object[q.id]] /\ UNCHANGED stray /\ Goto(r, "activate")
       ELSE UNCHANGED files /\ Strand({q.box}) /\ Go(r, Done)
    /\ UNCHANGED <<table, state, warm, given, object, warming, reaper, phase, counters>>

\* the row becomes active, whatever it is by now, unless the index forbids it;
\* a container that another wake has recorded meanwhile is overwritten
Activate(r) ==
    LET q == req[r]
        w == [row[q.id] EXCEPT !.status = "active", !.box = IF q.box = None THEN @ ELSE q.box] IN
    /\ At(r, "activate")
    /\ ScopeUnlocked(row[q.id].scope)
    /\ Go(r, Done)
    /\ IF IndexAllows(q.id, row[q.id].scope)
       THEN Update(q.id, w) /\ Strand({row[q.id].box} \ {w.box})
       ELSE UNCHANGED table /\ Strand({q.box})
    /\ UNCHANGED <<state, warm, files, given, object, warming, reaper, phase, counters>>

\* the INSERT fails when the id or the scope has got a row, and nobody removes
\* the container
Insert(r) ==
    LET q == req[r] IN
    /\ At(r, "insert")
    /\ ScopeUnlocked(q.seen.scope)
    /\ Go(r, Done)
    /\ IF row[q.id] = NoRow /\ IndexAllows(q.id, q.seen.scope)
       THEN /\ Update(q.id, [NoRow EXCEPT !.scope = q.seen.scope, !.box = q.box,
                                          !.status = "active"])
            /\ UNCHANGED stray
       ELSE UNCHANGED table /\ Strand({q.box})
    /\ UNCHANGED <<state, warm, files, given, object, warming, reaper, phase, counters>>

-----------------------------------------------------------------------------
(* exec, browser, terminal, files: the call to the container, then         *)
(* last_active_at; reading a file changes nothing                          *)

\* a handler has read the row of s, and goes on in its container
Read(r, s, label) ==
    /\ Begin(r, [Ready EXCEPT !.pc = label, !.id = s, !.seen = row[s]])
    /\ UNCHANGED <<table, docker, object, warming, reaper, phase, counters>>

\* exec, the browser and the terminal ask for an active row; a message of a
\* terminal goes by the row that was read when the terminal was opened
BeginUse(r, s) == row[s].status = "active" /\ Read(r, s, "run")

\* write_file does not: it goes on with a row that sleeps or has ended
BeginWrite(r, s) == row[s] # NoRow /\ Read(r, s, "run")

\* agentd, if it runs, leaves the files as they are or changes them
Use(r) ==
    LET q == req[r] IN
    /\ At(r, "run")
    /\ IF state[q.seen.box] = "running" THEN Leave(r, "touch") ELSE Go(r, Done)
    /\ \/ UNCHANGED <<files, writes>>
       \/ /\ state[q.seen.box] = "running"
          /\ writes < MaxWrites
          /\ writes' = writes + 1
          /\ files' = [files EXCEPT ![q.seen.box] = [by |-> q.id, version |-> writes + 1]]
    /\ UNCHANGED <<table, state, warm, given, stray, object, warming, reaper, phase, troubles>>

Touch(r) ==
    LET s == req[r].id IN
    /\ At(r, "touch")
    /\ Unlocked(s)
    /\ Go(r, Done)
    /\ Update(s, row[s])
    /\ UNCHANGED <<docker, object, warming, reaper, phase, counters>>

-----------------------------------------------------------------------------
(* sleep_sandbox *)

BeginSleep(r, s) == row[s].status = "active" /\ Read(r, s, "archive")

Archive(r) ==
    LET c == req[r].seen.box IN
    /\ At(r, "archive")
    /\ Go(r, IF Exists(c) THEN [req[r] EXCEPT !.pc = "upload", !.copy = files[c]] ELSE Done)
    /\ UNCHANGED <<table, docker, object, warming, reaper, phase, counters>>

Upload(r) ==
    /\ At(r, "upload")
    /\ Goto(r, "stop")
    /\ object' = [object EXCEPT ![req[r].id] = req[r].copy]
    /\ UNCHANGED <<table, docker, warming, reaper, phase, counters>>

StopBox(r) ==
    LET c == req[r].seen.box IN
    /\ At(r, "stop")
    /\ \/ Exists(c) /\ SetState(c, "stopped") /\ Goto(r, "slept")
       \/ ~Exists(c) /\ UNCHANGED state /\ Go(r, Done)
    /\ UNCHANGED <<table, warm, files, given, stray, object, warming, reaper, phase, counters>>

\* a mutant: a status that no SELECT of the fleet looks for
SleptMutant(r, digest) == [r EXCEPT !.status = "suspended", !.digest = digest]

Slept(r, digest) == [r EXCEPT !.status = "sleeping", !.digest = digest]

RecordSleep(r) ==
    LET q == req[r] IN
    /\ At(r, "slept")
    /\ ScopeUnlocked(row[q.id].scope)
    /\ Go(r, Done)
    /\ IF IndexAllows(q.id, row[q.id].scope)
       THEN Update(q.id, Slept(row[q.id], q.copy))
       ELSE UNCHANGED table
    /\ UNCHANGED <<docker, object, warming, reaper, phase, counters>>

-----------------------------------------------------------------------------
(* release *)

BeginRelease(r, s) == row[s] # NoRow /\ Read(r, s, "remove")

RemoveBox(r) ==
    LET q == req[r] IN
    /\ At(r, "remove")
    /\ Leave(r, IF q.seen.digest = None THEN "removed" ELSE "drop")
    /\ SetState(q.seen.box, "removed")
    /\ UNCHANGED <<table, warm, files, given, stray, object, warming, reaper, phase, counters>>

\* a failure of the object store is passed over
DropSnapshot(r) ==
    /\ At(r, "drop")
    /\ Goto(r, "removed")
    /\ UNCHANGED object \/ object' = [object EXCEPT ![req[r].id] = None]
    /\ UNCHANGED <<table, docker, warming, reaper, phase, counters>>

RecordRelease(r) ==
    LET s == req[r].id IN
    /\ At(r, "removed")
    /\ Unlocked(s)
    /\ Go(r, Done)
    /\ Update(s, [row[s] EXCEPT !.status = "released"])
    /\ UNCHANGED <<docker, object, warming, reaper, phase, counters>>

-----------------------------------------------------------------------------
(* the pool of warm containers *)

\* maintain_warm_pool holds warm_lock from the test to the append
FillPool(c) ==
    /\ phase = "up"
    /\ Len(pool) < PrewarmSize
    /\ Create(c, TRUE)
    /\ pool' = Append(pool, c)
    /\ UNCHANGED <<table, files, given, stray, object, refills, req, reaper, phase, counters>>

\* it tries again after a creation that failed, whatever that has left
FillFails(c) ==
    /\ phase = "up"
    /\ Len(pool) < PrewarmSize
    /\ LeaveBox(c, TRUE)
    /\ UNCHANGED <<table, files, given, object, warming, req, reaper, phase>>

\* a task of _replenish_once ends
Replenished ==
    /\ phase = "up"
    /\ refills > 0
    /\ refills' = refills - 1
    /\ UNCHANGED <<table, files, given, object, req, reaper, phase>>

\* it has created a container outside the lock, and there is still room
Replenish(c) ==
    /\ Replenished
    /\ Len(pool) < PrewarmSize
    /\ Create(c, TRUE)
    /\ pool' = Append(pool, c)
    /\ UNCHANGED <<stray, counters>>

\* there is no room any more: the container is removed again, if that works;
\* nobody else has seen it
ReplenishTooLate(c) ==
    /\ Replenished
    /\ Len(pool) >= PrewarmSize
    /\ UNCHANGED pool
    /\ \/ New(c) /\ SetState(c, "removed") /\ UNCHANGED <<warm, stray, counters>>
       \/ LeaveBox(c, TRUE)

ReplenishFails ==
    /\ Replenished
    /\ UNCHANGED pool
    /\ UNCHANGED <<docker, counters>> \/ \E c \in Containers : LeaveBox(c, TRUE)

-----------------------------------------------------------------------------
(* the reaper *)

ReaperStep(from, mem) == phase = "up" /\ reaper.pc = from /\ reaper' = mem

\* a mutant: the pass looks at active rows only
PlanMutant(s) ==
    IF row[s].status # "active" THEN "none"
    ELSE IF s \in expired THEN "expire"
    ELSE IF s \in idle THEN "suspend" ELSE "keep"

\* what the age and the use of the row of s call for
Plan(s) ==
    IF ~Live(s) THEN "none"
    ELSE IF s \in expired THEN "expire"
    ELSE IF row[s].status = "active" /\ s \in idle THEN "suspend" ELSE "keep"

\* the SELECT; the ages of the rows are those of this moment
ReaperSelect ==
    /\ ReaperStep("waiting", [reaper EXCEPT !.pc = "next",
         !.plan = [s \in Sandboxes |-> Plan(s)],
         !.box = [s \in Sandboxes |-> IF Live(s) THEN row[s].box ELSE None]])
    /\ UNCHANGED <<table, docker, object, warming, req, phase, counters>>

\* the pass turns to the row of s
Visit(s, mem) ==
    /\ reaper.plan[s] # "none"
    /\ ReaperStep("next", [mem EXCEPT !.plan[s] = "none"])
    /\ UNCHANGED <<table, warm, files, given, stray, object, warming, req, phase, counters>>

Outcome(s, o) == [reaper EXCEPT !.pc = "mark", !.at = s, !.outcome = o]

\* a mutant: NotFound is passed over
ReapMissingMutant(s) ==
    /\ ~Exists(reaper.box[s])
    /\ Visit(s, reaper)
    /\ UNCHANGED state

ReapMissing(s) ==
    /\ ~Exists(reaper.box[s])
    /\ Visit(s, Outcome(s, "failed"))
    /\ UNCHANGED state

ReapExpired(s) ==
    /\ Exists(reaper.box[s])
    /\ reaper.plan[s] = "expire"
    /\ Visit(s, Outcome(s, "released"))
    /\ SetState(reaper.box[s], "removed")

ReapKeep(s) ==
    /\ Exists(reaper.box[s])
    /\ reaper.plan[s] = "keep"
    /\ Visit(s, reaper)
    /\ UNCHANGED state

\* an idle sandbox: archive, upload, stop
ReapIdle(s) ==
    /\ Exists(reaper.box[s])
    /\ reaper.plan[s] = "suspend"
    /\ Visit(s, [reaper EXCEPT !.pc = "upload", !.at = s, !.copy[s] = files[reaper.box[s]]])
    /\ UNCHANGED state

ReaperUpload ==
    /\ ReaperStep("upload", [reaper EXCEPT !.pc = "stop"])
    /\ object' = [object EXCEPT ![reaper.at] = reaper.copy[reaper.at]]
    /\ UNCHANGED <<table, docker, warming, req, phase, counters>>

ReaperStop ==
    LET c == reaper.box[reaper.at] IN
    /\ ReaperStep("stop", Outcome(reaper.at, IF Exists(c) THEN "sleeping" ELSE "failed"))
    /\ IF Exists(c) THEN SetState(c, "stopped") ELSE UNCHANGED state
    /\ UNCHANGED <<table, warm, files, given, stray, object, warming, req, phase, counters>>

\* an exception other than NotFound rolls the pass back and ends the task
Dead == [Waiting EXCEPT !.pc = "dead"]

\* the UPDATE of one row, not committed; the index may refuse it
ReaperMark ==
    LET s == reaper.at IN
    /\ ReaperStep("mark", IF reaper.outcome = "sleeping" /\ ~IndexAllows(s, row[s].scope)
                          THEN Dead
                          ELSE [reaper EXCEPT !.pc = "next", !.at = None, !.outcome = "none",
                                  !.box[s] = None, !.pending[s] = reaper.outcome])
    /\ UNCHANGED <<table, docker, object, warming, req, phase, counters>>

ReaperCommit ==
    /\ \A s \in Sandboxes : reaper.plan[s] = "none"
    /\ ReaperStep("next", Waiting)
    /\ row' = [s \in Sandboxes |->
                CASE reaper.pending[s] = "none" -> row[s]
                  [] reaper.pending[s] = "sleeping" -> Slept(row[s], reaper.copy[s])
                  [] OTHER -> [row[s] EXCEPT !.status = reaper.pending[s]]]
    /\ idle' = {s \in idle : Unlocked(s)}
    /\ UNCHANGED <<expired, docker, object, warming, req, phase, counters>>

Reap ==
    \/ ReaperSelect \/ ReaperUpload \/ ReaperStop \/ ReaperMark \/ ReaperCommit
    \/ \E s \in Sandboxes : ReapMissing(s) \/ ReapExpired(s) \/ ReapKeep(s) \/ ReapIdle(s)

-----------------------------------------------------------------------------
(* the server process *)

\* what the process had in memory is gone; the label of a container that was
\* warm still tells the next process about it
Forget ==
    /\ phase' = "down"
    /\ Trouble
    /\ req' = [r \in Requests |-> IF req[r] = Ready THEN Ready ELSE Done]
    /\ reaper' = Waiting
    /\ pool' = <<>> /\ refills' = 0
    /\ Strand({req[r].box : r \in Requests} \ {c \in Containers : warm[c]})
    /\ UNCHANGED <<table, warm, files, given, object>>

Crash == phase # "down" /\ Forget /\ UNCHANGED state

\* a mutant: only the containers still in the pool are removed
LeftoverMutant == {c \in Containers : Exists(c) /\ \E i \in DOMAIN pool : pool[i] = c}

\* the warm containers that no live row refers to
Leftover ==
    {c \in Containers : Exists(c) /\ warm[c] /\ ~\E s \in Sandboxes : Live(s) /\ row[s].box = c}

\* cleanup_warm_containers; the failing removals, those of kept, are passed over
CleanUp(kept) ==
    /\ kept \subseteq Leftover
    /\ state' = [c \in Containers |-> IF c \in Leftover \ kept THEN "removed" ELSE state[c]]

\* the requests are done, the tasks are cancelled, the pool is removed; what
\* stays is warm, and looked at again by the next start
Shutdown ==
    /\ phase = "up"
    /\ \A r \in Requests : req[r] \in {Ready, Done}
    /\ Forget
    /\ \E kept \in SUBSET Containers : CleanUp(kept)

\* reconcile_sandboxes: one transaction before the server answers
Reconcile ==
    /\ phase = "down"
    /\ phase' = "reconciled"
    /\ row' = [s \in Sandboxes |->
                IF Live(s) /\ \/ ~Exists(row[s].box) /\ ~(row[s].status = "sleeping" /\ row[s].digest # None)
                              \/ row[s].status = "active" /\ state[row[s].box] # "running"
                THEN [row[s] EXCEPT !.status = "released"] ELSE row[s]]
    /\ UNCHANGED <<idle, expired, docker, object, warming, req, reaper, counters>>

Start ==
    /\ phase = "reconciled"
    /\ phase' = "up"
    /\ \E kept \in SUBSET Containers : CleanUp(kept) /\ Strand(kept)
    /\ UNCHANGED <<table, warm, files, given, object, warming, req, reaper, counters>>

-----------------------------------------------------------------------------
(* the environment *)

\* sandbox_idle_seconds, sandbox_ttl_seconds have passed; only the SELECT of the
\* reaper looks at them, so they may as well pass while it waits
GrowIdle(s) ==
    /\ reaper.pc = "waiting"
    /\ row[s].status = "active" /\ s \notin idle
    /\ idle' = idle \cup {s}
    /\ UNCHANGED <<row, expired, docker, object, warming, req, reaper, phase, counters>>

Expire(s) ==
    /\ reaper.pc = "waiting"
    /\ Live(s) /\ s \notin expired
    /\ expired' = expired \cup {s}
    /\ UNCHANGED <<row, idle, docker, object, warming, req, reaper, phase, counters>>

\* a container is killed, or removed behind the back of the fleet
LoseBox(c, st) ==
    /\ Trouble
    /\ Exists(c) /\ state[c] # st
    /\ SetState(c, st)
    /\ UNCHANGED <<table, warm, files, given, stray, object, warming, req, reaper, phase>>

\* a call to Docker, the object store or PostgreSQL raises; nobody removes the
\* container that was claimed
HandlerFails(r) ==
    /\ Trouble
    /\ req[r].pc \notin {"ready", "done"}
    /\ Go(r, Done)
    /\ Strand({req[r].box})
    /\ UNCHANGED <<table, state, warm, files, given, object, warming, reaper, phase>>

ReaperDies ==
    /\ Trouble
    /\ reaper.pc \notin {"waiting", "dead"}
    /\ reaper' = Dead
    /\ UNCHANGED <<table, docker, object, warming, req, phase>>

-----------------------------------------------------------------------------
Init ==
    /\ row = [s \in Sandboxes |-> NoRow]
    /\ state = [c \in Containers |-> "none"]
    /\ warm = [c \in Containers |-> FALSE]
    /\ files = [c \in Containers |-> NoFiles]
    /\ given = [c \in Containers |-> None]
    /\ stray = {}
    /\ object = [s \in Sandboxes |-> None]
    /\ idle = {} /\ expired = {}
    /\ pool = <<>> /\ refills = 0
    /\ req = [r \in Requests |-> Ready]
    /\ reaper = Waiting
    /\ phase = "up"
    /\ writes = 0 /\ troubles = 0

Handle(r) ==
    \/ \E sc \in Scopes, s \in Sandboxes : AcquireNew(r, sc, s)
    \/ \E s \in Sandboxes :
        \/ AcquireSleeping(r, s) \/ BeginUse(r, s) \/ BeginWrite(r, s)
        \/ BeginSleep(r, s) \/ BeginRelease(r, s)
    \/ StartBox(r) \/ ClaimWarm(r) \/ ClaimFails(r) \/ Restore(r) \/ Activate(r) \/ Insert(r)
    \/ \E c \in Containers : ClaimCold(r, c)
    \/ Use(r) \/ Touch(r) \/ Archive(r) \/ Upload(r) \/ StopBox(r) \/ RecordSleep(r)
    \/ RemoveBox(r) \/ DropSnapshot(r) \/ RecordRelease(r) \/ HandlerFails(r)

Warm ==
    \/ \E c \in Containers :
        FillPool(c) \/ FillFails(c) \/ Replenish(c) \/ ReplenishTooLate(c)
    \/ ReplenishFails

Environment ==
    \/ \E s \in Sandboxes : GrowIdle(s) \/ Expire(s)
    \/ \E c \in Containers, st \in {"stopped", "removed"} : LoseBox(c, st)
    \/ ReaperDies

Restart == Crash \/ Shutdown \/ Reconcile \/ Start

Next == (\E r \in Requests : Handle(r)) \/ Warm \/ Reap \/ Restart \/ Environment

Spec == Init /\ [][Next]_vars

\* the reaper runs, a server that is down comes back, time passes
FairSpec ==
    /\ Spec
    /\ WF_vars(Reap)
    /\ WF_vars(Reconcile) /\ WF_vars(Start)
    /\ \A s \in Sandboxes : SF_vars(GrowIdle(s))

-----------------------------------------------------------------------------
TypeOK ==
    /\ row \in [Sandboxes -> Rows]
    /\ idle \subseteq Sandboxes /\ expired \subseteq Sandboxes
    /\ state \in [Containers -> {"none", "running", "stopped", "removed"}]
    /\ warm \in [Containers -> BOOLEAN]
    /\ files \in [Containers -> Files]
    /\ given \in [Containers -> Sandboxes \cup {None}] /\ stray \subseteq Containers
    /\ object \in [Sandboxes -> Files \cup {None}]
    /\ pool \in Seq(Containers) /\ refills \in Nat
    /\ req \in [Requests -> Handlers]
    /\ reaper \in Reapers
    /\ phase \in {"down", "reconciled", "up"}
    /\ writes \in 0..MaxWrites /\ troubles \in 0..MaxTroubles

\* While the server is up, every container that exists can still be reached:
\* it is in the pool, in the memory of the handler that claimed it or on a row,
\* from which a release takes it.  Those that cannot are named: their removal
\* failed, or the handler that had claimed them ended or stopped with the server
\* before it recorded them, or a second wake overwrote them.  A stop of the
\* server alone makes none of a container that was created warm.
BoxesWithinReach == phase = "up" => \A c \in Containers : Exists(c) =>
    \/ \E i \in DOMAIN pool : pool[i] = c
    \/ \E r \in Requests : req[r].box = c
    \/ \E s \in Sandboxes : row[s].box = c
    \/ c \in stray

\* However acquisitions, wakes, sleeps, releases, the reaper and restarts
\* interleave, a container claimed for a sandbox is never claimed for another
\* and never holds another's files.
Workspaces == INSTANCE PrivateWorkspaces
              WITH owner <- given, Nobody <- None, Versions <- 0..MaxWrites
KeepsWorkspacesPrivate == Workspaces!Spec

\* A sandbox older than its time to live does not stay live for ever, while
\* the reaper lives, even if handlers wake it and the server restarts.
ExpiredIsReaped == \A s \in Sandboxes :
    Live(s) /\ s \in expired ~> ~Live(s) \/ reaper.pc = "dead"

\* A row does not stay active for ever on a container that was killed or
\* removed: the reaper, a wake or the start notices, while the reaper lives.
BrokenBoxIsNoticed == \A s \in Sandboxes, c \in Containers :
    row[s].status = "active" /\ row[s].box = c /\ state[c] # "running" ~>
        row[s].status # "active" \/ row[s].box # c \/ state[c] = "running"
            \/ reaper.pc = "dead"
=============================================================================

------------------------- MODULE SandboxFleetProofs -------------------------
(***************************************************************************)
(* Proofs about the sandbox fleet, for any numbers of sandboxes, scopes,   *)
(* containers and requests.                                                *)
(***************************************************************************)
EXTENDS SandboxFleet, TLAPS

-----------------------------------------------------------------------------
(* Types *)

\* The constants of a record of memory have its type.
LEMMA Memories ==
    /\ NoRow \in Rows /\ NoFiles \in Files
    /\ Ready \in Handlers /\ Done \in Handlers
    /\ Waiting \in Reapers /\ Dead \in Reapers
<1>1. NoRow \in Rows BY DEF NoRow, Rows
<1>2. NoFiles \in Files BY FleetAssumption DEF NoFiles, Files
<1>3. Ready \in Handlers BY <1>1 DEF Ready, Handlers
<1>4. Done \in Handlers BY <1>3 DEF Done, Handlers
<1>5. Waiting \in Reapers BY DEF Waiting, Reapers, Plans, Outcomes
<1>6. Dead \in Reapers BY <1>5 DEF Dead, Reapers
<1> QED BY <1>1, <1>2, <1>3, <1>4, <1>5, <1>6

\* The first state is well typed.
LEMMA InitTyped == Init => TypeOK
BY Memories, FleetAssumption DEF Init, TypeOK, Files

\* What the steps of a handler do with its memory keeps its type.
LEMMA MemoryMoves ==
    ASSUME NEW q \in Handlers
    PROVE  /\ \A label \in {"activate", "stop", "removed", "drop", "claim", "slept"} :
                [q EXCEPT !.pc = label] \in Handlers
           /\ \A label \in {"activate", "touch", "drop", "removed"} :
                [Ready EXCEPT !.pc = label, !.id = q.id] \in Handlers
           /\ \A label \in {"restore", "insert"}, c \in Containers :
                [q EXCEPT !.pc = label, !.box = c] \in Handlers
           /\ \A f \in Files : [q EXCEPT !.pc = "upload", !.copy = f] \in Handlers
<1>1. ASSUME NEW label \in {"activate", "stop", "removed", "drop", "claim", "slept"}
      PROVE  [q EXCEPT !.pc = label] \in Handlers
  BY DEF Handlers
<1>2. ASSUME NEW label \in {"activate", "touch", "drop", "removed"}
      PROVE  [Ready EXCEPT !.pc = label, !.id = q.id] \in Handlers
  BY Memories DEF Handlers
<1>3. ASSUME NEW label \in {"restore", "insert"}, NEW c \in Containers
      PROVE  [q EXCEPT !.pc = label, !.box = c] \in Handlers
  BY DEF Handlers
<1>4. ASSUME NEW f \in Files PROVE [q EXCEPT !.pc = "upload", !.copy = f] \in Handlers
  BY DEF Handlers
<1> QED BY <1>1, <1>2, <1>3, <1>4

LEMMA RowMoves ==
    ASSUME NEW w \in Rows
    PROVE  /\ \A st \in {"active", "released", "failed"} : [w EXCEPT !.status = st] \in Rows
           /\ \A c \in Containers \cup {None} : [w EXCEPT !.status = "active", !.box = c] \in Rows
           /\ \A sc \in Scopes \cup {None}, c \in Containers \cup {None} :
                [NoRow EXCEPT !.scope = sc, !.box = c, !.status = "active"] \in Rows
           /\ \A f \in Files \cup {None} : Slept(w, f) \in Rows
<1>1. ASSUME NEW st \in {"active", "released", "failed"} PROVE [w EXCEPT !.status = st] \in Rows
  BY DEF Rows
<1>2. ASSUME NEW c \in Containers \cup {None}
      PROVE  [w EXCEPT !.status = "active", !.box = c] \in Rows
  BY DEF Rows
<1>3. ASSUME NEW sc \in Scopes \cup {None}, NEW c \in Containers \cup {None}
      PROVE  [NoRow EXCEPT !.scope = sc, !.box = c, !.status = "active"] \in Rows
  BY Memories DEF Rows
<1>4. ASSUME NEW f \in Files \cup {None} PROVE Slept(w, f) \in Rows
  BY DEF Rows, Slept
<1> QED BY <1>1, <1>2, <1>3, <1>4

\* What a failure leaves behind is well typed.
LEMMA TroubleTyped == ASSUME TypeOK, Trouble PROVE troubles' \in 0..MaxTroubles /\ writes' = writes
BY FleetAssumption DEF TypeOK, Trouble

LEMMA StrandTyped ==
    ASSUME TypeOK, NEW B \in SUBSET (Containers \cup {None}), Strand(B)
    PROVE  stray' \subseteq Containers
BY DEF TypeOK, Strand, Exists

LEMMA LeaveTyped ==
    ASSUME TypeOK, NEW c \in Containers, NEW label \in BOOLEAN, LeaveBox(c, label)
    PROVE  /\ state' \in [Containers -> {"none", "running", "stopped", "removed"}]
           /\ warm' \in [Containers -> BOOLEAN] /\ stray' \subseteq Containers
           /\ troubles' \in 0..MaxTroubles /\ writes' = writes
<1>1. troubles' \in 0..MaxTroubles /\ writes' = writes
  BY TroubleTyped DEF LeaveBox
<1> QED BY <1>1 DEF TypeOK, LeaveBox, SetState

\* Every step of a request handler keeps the types.
LEMMA HandlerTyped ==
    ASSUME TypeOK, NEW r \in Requests, Handle(r),
           req[r].pc = "restore" => req[r].seen.digest # None,
           req[r].pc = "activate" => req[r].id \in Sandboxes
    PROVE  TypeOK'
<1> USE Memories DEF TypeOK, table, docker, warming, counters
<1> DEFINE q == req[r]
<1>0. q \in Handlers /\ q.seen \in Rows /\ q.id \in Sandboxes \cup {None}
        /\ q.box \in Containers \cup {None} /\ q.copy \in Files \cup {None}
        /\ q.seen.box \in Containers \cup {None} /\ q.seen.scope \in Scopes \cup {None}
  BY DEF Handlers, Rows
<1> HIDE DEF q
<1>1. ASSUME NEW sc \in Scopes, NEW s \in Sandboxes, AcquireNew(r, sc, s) PROVE TypeOK'
  <2>1. [Ready EXCEPT !.pc = "claim", !.id = s, !.seen.scope = sc] \in Handlers
    BY DEF Handlers, Ready, NoRow, Rows
  <2> QED BY <1>1, <2>1 DEF AcquireNew, Begin
<1>2. ASSUME NEW s \in Sandboxes,
             \/ AcquireSleeping(r, s) \/ BeginUse(r, s) \/ BeginWrite(r, s)
             \/ BeginSleep(r, s) \/ BeginRelease(r, s)
      PROVE  TypeOK'
  <2>1. \A label \in {"start", "claim", "run", "archive", "remove"} :
          [Ready EXCEPT !.pc = label, !.id = s, !.seen = row[s]] \in Handlers
    BY DEF Handlers, Ready
  <2> QED BY <1>2, <2>1 DEF AcquireSleeping, BeginUse, BeginWrite, BeginSleep, BeginRelease, Read, Begin
<1>3. CASE StartBox(r)
  BY <1>3, <1>0, MemoryMoves DEF StartBox, Go, Goto, Leave, SetState, q
<1>4. CASE ClaimWarm(r)
  <2>1. Head(pool) \in Containers /\ Tail(pool) \in Seq(Containers) /\ refills + 1 \in Nat
    BY <1>4 DEF ClaimWarm
  <2>2. req' \in [Requests -> Handlers]
    BY <1>4, <1>0, <2>1, MemoryMoves DEF ClaimWarm, Claimed, Go, q
  <2>3. q.id \in Sandboxes \cup {None}
    BY <1>0
  <2> QED BY <1>4, <2>1, <2>2, <2>3 DEF ClaimWarm, Give, q
<1>5. ASSUME NEW c \in Containers, ClaimCold(r, c) PROVE TypeOK'
  <2>1. req' \in [Requests -> Handlers]
    BY <1>5, <1>0, MemoryMoves DEF ClaimCold, Claimed, Go, q
  <2> QED BY <1>5, <1>0, <2>1 DEF ClaimCold, Give, Create, SetState, q
<1>6. CASE ClaimFails(r)
  <2>1. CASE UNCHANGED <<docker, counters>>
    BY <1>6, <2>1 DEF ClaimFails, Go
  <2>2. ASSUME NEW c \in Containers, LeaveBox(c, FALSE) PROVE TypeOK'
    <3>1. /\ state' \in [Containers -> {"none", "running", "stopped", "removed"}]
          /\ warm' \in [Containers -> BOOLEAN] /\ stray' \subseteq Containers
          /\ troubles' \in 0..MaxTroubles /\ writes' = writes
      BY <2>2, LeaveTyped
    <3> QED BY <1>6, <3>1 DEF ClaimFails, Go
  <2> QED BY <1>6, <2>1, <2>2 DEF ClaimFails
<1>14. CASE HandlerFails(r)
  <2>1. troubles' \in 0..MaxTroubles /\ writes' = writes
    BY <1>14, TroubleTyped DEF HandlerFails
  <2>2. stray' \subseteq Containers
    BY <1>14, <1>0, StrandTyped DEF HandlerFails, q
  <2> QED BY <1>14, <2>1, <2>2 DEF HandlerFails, Go
<1>7. CASE Restore(r)
  <2>1. CASE object[q.id] = q.seen.digest /\ Exists(q.box)
    <3>1. object[q.id] \in Files
      BY <2>1, <1>7, <1>0 DEF Restore, At, Exists, Rows, q
    <3> QED BY <1>7, <1>0, <2>1, <3>1, MemoryMoves DEF Restore, Goto, Go, q
  <2>2. CASE ~(object[q.id] = q.seen.digest /\ Exists(q.box))
    <3>1. stray' \subseteq Containers
      BY <1>7, <1>0, <2>2, StrandTyped DEF Restore, q
    <3> QED BY <1>7, <2>2, <3>1 DEF Restore, Go, q
  <2> QED BY <2>1, <2>2
<1>8. CASE Activate(r)
  <2>1. ASSUME q.id \in Sandboxes PROVE
          [row[q.id] EXCEPT !.status = "active", !.box = IF q.box = None THEN @ ELSE q.box] \in Rows
    BY <1>0, <2>1 DEF Rows
  <2>2. row' \in [Sandboxes -> Rows]
    BY <1>8, <2>1 DEF Activate, Update, q
  <2>3. q.id \in Sandboxes => row[q.id].box \in Containers \cup {None}
    BY DEF Rows
  <2>4. stray' \subseteq Containers
    <3>1. q.id \in Sandboxes
      BY <1>8 DEF Activate, At, q
    <3> QED BY <1>8, <1>0, <2>3, <3>1, StrandTyped DEF Activate, q
  <2> QED BY <1>8, <2>2, <2>4 DEF Activate, Go, Update
<1>9. CASE Insert(r)
  <2>1. [NoRow EXCEPT !.scope = q.seen.scope, !.box = q.box, !.status = "active"] \in Rows
    BY <1>0, RowMoves
  <2>2. row' \in [Sandboxes -> Rows]
    BY <1>9, <2>1 DEF Insert, Update, q
  <2>3. stray' \subseteq Containers
    BY <1>9, <1>0, StrandTyped DEF Insert, q
  <2> QED BY <1>9, <2>2, <2>3 DEF Insert, Go, Update
<1>10. CASE Use(r)
  <2>1. req' \in [Requests -> Handlers]
    BY <1>10, <1>0, MemoryMoves DEF Use, Go, Leave, q
  <2>2. writes' \in 0..MaxWrites /\ files' \in [Containers -> Files]
    <3>1. CASE UNCHANGED <<files, writes>>
      BY <3>1
    <3>2. CASE /\ writes < MaxWrites
               /\ writes' = writes + 1
               /\ files' = [files EXCEPT ![q.seen.box] = [by |-> q.id, version |-> writes + 1]]
      <4>1. writes + 1 \in 0..MaxWrites
        BY <3>2, FleetAssumption
      <4>2. [by |-> q.id, version |-> writes + 1] \in Files
        BY <1>0, <4>1 DEF Files
      <4> QED BY <3>2, <4>1, <4>2
    <3> QED BY <1>10, <3>1, <3>2 DEF Use, q
  <2> QED BY <1>10, <2>1, <2>2 DEF Use
<1>11. CASE Touch(r) \/ RecordRelease(r) \/ RecordSleep(r)
  <2>1. req' \in [Requests -> Handlers]
    BY <1>11 DEF Touch, RecordRelease, RecordSleep, Go
  <2>2. row' \in [Sandboxes -> Rows]
    <3>1. ASSUME q.id \in Sandboxes
          PROVE  /\ [row[q.id] EXCEPT !.status = "released"] \in Rows
                 /\ Slept(row[q.id], q.copy) \in Rows
      BY <1>0, <3>1, RowMoves
    <3> QED BY <1>11, <3>1 DEF Touch, RecordRelease, RecordSleep, Update, q
  <2> QED BY <1>11, <2>1, <2>2 DEF Touch, RecordRelease, RecordSleep, Update
<1>12. CASE Archive(r)
  <2>1. req' \in [Requests -> Handlers]
    BY <1>12, <1>0, MemoryMoves DEF Archive, Go, Exists, q
  <2> QED BY <1>12, <2>1 DEF Archive
<1>15. CASE Upload(r)
  <2>1. req' \in [Requests -> Handlers] /\ object' \in [Sandboxes -> Files \cup {None}]
    BY <1>15, <1>0, MemoryMoves DEF Upload, Go, Goto, q
  <2> QED BY <1>15, <2>1 DEF Upload
<1>16. CASE StopBox(r)
  <2>1. req' \in [Requests -> Handlers] /\ state' \in [Containers -> {"none", "running", "stopped", "removed"}]
    BY <1>16, <1>0, MemoryMoves DEF StopBox, Go, Goto, SetState, q
  <2> QED BY <1>16, <2>1 DEF StopBox
<1>13. CASE RemoveBox(r) \/ DropSnapshot(r)
  <2>1. req' \in [Requests -> Handlers]
    BY <1>13, <1>0, MemoryMoves DEF RemoveBox, DropSnapshot, Go, Goto, Leave, q
  <2> QED BY <1>13, <2>1 DEF RemoveBox, DropSnapshot, SetState
<1> QED BY <1>1, <1>2, <1>3, <1>4, <1>5, <1>6, <1>7, <1>8, <1>9, <1>10, <1>11, <1>12, <1>13,
          <1>14, <1>15, <1>16
        DEF Handle

LEMMA WarmTyped == ASSUME TypeOK, Warm PROVE TypeOK'
<1> USE DEF TypeOK, table, docker, warming, counters
<1>1. ASSUME NEW c \in Containers PROVE Append(pool, c) \in Seq(Containers)
  OBVIOUS
<1>2. ASSUME Replenished PROVE refills' \in Nat
  <2>1. refills > 0 /\ refills' = refills - 1 /\ refills \in Nat
    BY <1>2 DEF Replenished
  <2> QED BY <2>1
<1>3. ASSUME NEW c \in Containers, FillPool(c) PROVE TypeOK'
  BY <1>1, <1>3 DEF FillPool, Create, SetState
<1>4. ASSUME NEW c \in Containers, Replenish(c) PROVE TypeOK'
  BY <1>1, <1>2, <1>4 DEF Replenish, Replenished, Create, SetState
<1>5. ASSUME NEW c \in Containers, FillFails(c) PROVE TypeOK'
  <2>1. /\ state' \in [Containers -> {"none", "running", "stopped", "removed"}]
        /\ warm' \in [Containers -> BOOLEAN] /\ stray' \subseteq Containers
        /\ troubles' \in 0..MaxTroubles /\ writes' = writes
    BY <1>5, LeaveTyped DEF FillFails
  <2> QED BY <1>5, <2>1 DEF FillFails
<1>6. ASSUME NEW c \in Containers, ReplenishTooLate(c) PROVE TypeOK'
  <2>1. CASE LeaveBox(c, TRUE)
    <3>1. /\ state' \in [Containers -> {"none", "running", "stopped", "removed"}]
          /\ warm' \in [Containers -> BOOLEAN] /\ stray' \subseteq Containers
          /\ troubles' \in 0..MaxTroubles /\ writes' = writes
      BY <2>1, LeaveTyped
    <3> QED BY <1>2, <1>6, <3>1 DEF ReplenishTooLate, Replenished
  <2>2. CASE SetState(c, "removed") /\ UNCHANGED <<warm, stray, counters>>
    BY <1>2, <1>6, <2>2 DEF ReplenishTooLate, Replenished, SetState
  <2> QED BY <1>6, <2>1, <2>2 DEF ReplenishTooLate
<1>7. CASE ReplenishFails
  <2>1. ASSUME NEW c \in Containers, LeaveBox(c, TRUE) PROVE TypeOK'
    <3>1. /\ state' \in [Containers -> {"none", "running", "stopped", "removed"}]
          /\ warm' \in [Containers -> BOOLEAN] /\ stray' \subseteq Containers
          /\ troubles' \in 0..MaxTroubles /\ writes' = writes
      BY <2>1, LeaveTyped
    <3> QED BY <1>2, <1>7, <3>1 DEF ReplenishFails, Replenished
  <2>2. CASE UNCHANGED <<docker, counters>>
    BY <1>2, <1>7, <2>2 DEF ReplenishFails, Replenished
  <2> QED BY <1>7, <2>1, <2>2 DEF ReplenishFails
<1> QED BY <1>3, <1>4, <1>5, <1>6, <1>7 DEF Warm

LEMMA ReapTyped == ASSUME TypeOK, Reap PROVE TypeOK'
<1> USE DEF TypeOK, table, docker, warming, counters
<1>0. /\ reaper.plan \in [Sandboxes -> Plans]
      /\ reaper.box \in [Sandboxes -> Containers \cup {None}]
      /\ reaper.at \in Sandboxes \cup {None} /\ reaper.outcome \in Outcomes
      /\ reaper.copy \in [Sandboxes -> Files \cup {None}]
      /\ reaper.pending \in [Sandboxes -> Outcomes]
  BY DEF Reapers
<1>1. CASE ReaperSelect
  <2>1. [s \in Sandboxes |-> IF Live(s) THEN row[s].box ELSE None]
          \in [Sandboxes -> Containers \cup {None}]
    BY DEF Rows
  <2>2. [s \in Sandboxes |-> Plan(s)] \in [Sandboxes -> Plans]
    <3>1. ASSUME NEW s \in Sandboxes PROVE Plan(s) \in Plans
      BY DEF Plan, Plans
    <3> QED BY <3>1
  <2>3. reaper' \in Reapers
    BY <1>1, <1>0, <2>1, <2>2 DEF ReaperSelect, ReaperStep, Reapers
  <2> QED BY <1>1, <2>3 DEF ReaperSelect
<1>2. ASSUME NEW s \in Sandboxes, ReapMissing(s) \/ ReapExpired(s) \/ ReapKeep(s)
      PROVE  TypeOK'
  <2>1. /\ [reaper EXCEPT !.plan[s] = "none"] \in Reapers
        /\ \A o \in Outcomes : [Outcome(s, o) EXCEPT !.plan[s] = "none"] \in Reapers
    <3>1. [reaper.plan EXCEPT ![s] = "none"] \in [Sandboxes -> Plans]
      BY <1>0 DEF Plans
    <3> QED BY <3>1 DEF Outcome, Reapers
  <2>2. reaper' \in Reapers
    BY <1>2, <2>1 DEF ReapMissing, ReapExpired, ReapKeep, Visit, ReaperStep, Outcomes
  <2> QED BY <1>2, <2>2 DEF ReapMissing, ReapExpired, ReapKeep, Visit, SetState
<1>3. ASSUME NEW s \in Sandboxes, ReapIdle(s) PROVE TypeOK'
  <2>1. files[reaper.box[s]] \in Files
    BY <1>3, <1>0 DEF ReapIdle, Exists
  <2>2. reaper' \in Reapers
    BY <1>3, <1>0, <2>1 DEF ReapIdle, Visit, ReaperStep, Reapers, Plans
  <2> QED BY <1>3, <2>2 DEF ReapIdle, Visit
<1>4. CASE ReaperUpload
  <2>1. reaper' \in Reapers
    BY <1>4, <1>0 DEF ReaperUpload, ReaperStep, Reapers
  <2> QED BY <1>4, <1>0, <2>1 DEF ReaperUpload
<1>5. CASE ReaperStop
  <2>1. reaper' \in Reapers
    BY <1>5, <1>0 DEF ReaperStop, ReaperStep, Outcome, Reapers, Outcomes
  <2> QED BY <1>5, <2>1 DEF ReaperStop, SetState
<1>6. CASE ReaperMark
  <2>1. [reaper EXCEPT !.pc = "next", !.at = None, !.outcome = "none",
           !.box[reaper.at] = None, !.pending[reaper.at] = reaper.outcome] \in Reapers
    <3>1. /\ [reaper.box EXCEPT ![reaper.at] = None] \in [Sandboxes -> Containers \cup {None}]
          /\ [reaper.pending EXCEPT ![reaper.at] = reaper.outcome] \in [Sandboxes -> Outcomes]
      BY <1>0
    <3>2. [reaper EXCEPT !.pc = "next", !.at = None, !.outcome = "none"] \in Reapers
      BY DEF Reapers, Outcomes
    <3> QED BY <3>1, <3>2 DEF Reapers
  <2> QED BY <1>6, <2>1, Memories DEF ReaperMark, ReaperStep
<1>7. CASE ReaperCommit
  <2>1. ASSUME NEW s \in Sandboxes
        PROVE  (CASE reaper.pending[s] = "none" -> row[s]
                  [] reaper.pending[s] = "sleeping" -> Slept(row[s], reaper.copy[s])
                  [] OTHER -> [row[s] EXCEPT !.status = reaper.pending[s]]) \in Rows
    <3>1. CASE reaper.pending[s] = "none"
      BY <3>1
    <3>2. CASE reaper.pending[s] = "sleeping"
      BY <3>2, <1>0, RowMoves
    <3>3. CASE reaper.pending[s] \in {"released", "failed"}
      BY <3>3, RowMoves
    <3> QED BY <1>0, <3>1, <3>2, <3>3 DEF Outcomes
  <2>2. row' \in [Sandboxes -> Rows]
    BY <1>7, <2>1, Zenon DEF ReaperCommit
  <2> QED BY <1>7, <2>2, Memories DEF ReaperCommit, ReaperStep
<1> QED BY <1>1, <1>2, <1>3, <1>4, <1>5, <1>6, <1>7 DEF Reap

LEMMA RestartTyped == ASSUME TypeOK, Restart PROVE TypeOK'
<1> USE DEF TypeOK, table, docker, warming, counters
<1>1. ASSUME NEW kept, CleanUp(kept)
      PROVE  state' \in [Containers -> {"none", "running", "stopped", "removed"}]
  BY <1>1 DEF CleanUp
<1>2. CASE Crash \/ Shutdown
  <2>1. Forget
    BY <1>2 DEF Crash, Shutdown
  <2>2. troubles' \in 0..MaxTroubles /\ writes' = writes
    BY <2>1, TroubleTyped DEF Forget
  <2>3. /\ req' \in [Requests -> Handlers] /\ reaper' \in Reapers
        /\ pool' \in Seq(Containers) /\ refills' \in Nat
    BY <2>1, Memories DEF Forget
  <2>4. stray' \subseteq Containers
    <3>1. {req[r].box : r \in Requests} \subseteq Containers \cup {None}
      BY DEF Handlers
    <3> QED BY <2>1, <3>1, StrandTyped DEF Forget
  <2>5. state' \in [Containers -> {"none", "running", "stopped", "removed"}]
    BY <1>1, <1>2 DEF Crash, Shutdown
  <2> QED BY <2>1, <2>2, <2>3, <2>4, <2>5 DEF Forget
<1>3. CASE Reconcile
  <2>1. row' \in [Sandboxes -> Rows]
    BY <1>3, RowMoves DEF Reconcile
  <2> QED BY <1>3, <2>1 DEF Reconcile
<1>4. CASE Start
  <2>1. stray' \subseteq Containers
    BY <1>4, StrandTyped DEF Start
  <2> QED BY <1>1, <1>4, <2>1 DEF Start
<1> QED BY <1>2, <1>3, <1>4 DEF Restart

LEMMA EnvironmentTyped == ASSUME TypeOK, Environment PROVE TypeOK'
<1> USE DEF TypeOK, table, docker, warming, counters
<1>1. ASSUME NEW s \in Sandboxes, GrowIdle(s) \/ Expire(s) PROVE TypeOK'
  BY <1>1 DEF GrowIdle, Expire
<1>2. ASSUME Trouble PROVE troubles' \in 0..MaxTroubles /\ writes' = writes
  BY <1>2, TroubleTyped
<1>3. ASSUME NEW c \in Containers, NEW st \in {"stopped", "removed"}, LoseBox(c, st)
      PROVE  TypeOK'
  BY <1>2, <1>3 DEF LoseBox, SetState
<1>4. CASE ReaperDies
  BY <1>2, <1>4, Memories DEF ReaperDies
<1> QED BY <1>1, <1>3, <1>4 DEF Environment

-----------------------------------------------------------------------------
(* The inductive invariant: everything that stands for a sandbox, in the    *)
(* table, the object store or the memory of a task, is of that sandbox, and *)
(* what a container holds is of the sandbox it was given to.                *)

\* The container c, if any, was given to s; the archive f, if any, is of s.
Owns(s, c, g) == c # None => s \in Sandboxes /\ g[c] = s
His(s, f) == f # None => f.by \in {None, s}

RowInv(s, w, g) ==
    /\ Owns(s, w.box, g)
    /\ w.status = "sleeping" => w.digest # None

MemoryInv(m, g) ==
    /\ m.pc \notin {"ready", "done"} => m.id \in Sandboxes
    /\ Owns(m.id, m.seen.box, g) /\ Owns(m.id, m.box, g) /\ His(m.id, m.copy)
    /\ m.seen.status = "sleeping" => m.seen.digest # None
    /\ m.pc = "restore" => m.seen.status = "sleeping"
    /\ m.pc \in {"upload", "stop", "slept"} => m.copy # None
    /\ m.box # None => m.pc \in {"restore", "activate", "insert"}

ReaperInv(m, g) ==
    /\ \A s \in Sandboxes :
         /\ Owns(s, m.box[s], g) /\ His(s, m.copy[s])
         /\ m.pending[s] = "sleeping" => m.copy[s] # None
    /\ m.pc \in {"upload", "stop", "mark"} => m.at \in Sandboxes
    /\ m.pc \in {"upload", "stop"} \/ m.outcome = "sleeping" => m.copy[m.at] # None

BoxInv ==
    \A c \in Containers : /\ files[c].by \in {None, given[c]}
                          /\ state[c] = "none" => given[c] = None

PoolInv ==
    /\ \A i \in 1..Len(pool) : given[pool[i]] = None /\ state[pool[i]] # "none" /\ warm[pool[i]]
    /\ \A i, j \in 1..Len(pool) : pool[i] = pool[j] => i = j
    /\ phase # "up" => pool = <<>>

\* c is in the memory of a handler, on a row or one of those that are lost
Held(c) ==
    \/ \E r \in Requests : req[r].box = c
    \/ \E s \in Sandboxes : row[s].box = c
    \/ c \in stray

\* the other containers are in the pool; while the server is down, they are
\* warm, and the start finds them by their label
ReachInv ==
    \A c \in Containers : Exists(c) /\ ~Held(c) =>
        IF phase = "up" THEN \E i \in 1..Len(pool) : pool[i] = c ELSE warm[c]

FleetInv ==
    /\ TypeOK
    /\ \A s \in Sandboxes : RowInv(s, row[s], given) /\ His(s, object[s])
    /\ \A r \in Requests : MemoryInv(req[r], given)
    /\ ReaperInv(reaper, given)
    /\ BoxInv
    /\ PoolInv
    /\ ReachInv

\* A step keeps every type.
LEMMA TypeStep == ASSUME FleetInv, Next PROVE TypeOK'
<1>1. ASSUME NEW r \in Requests, Handle(r) PROVE TypeOK'
  <2>1. /\ req[r].pc = "restore" => req[r].seen.digest # None
        /\ req[r].pc = "activate" => req[r].id \in Sandboxes
    BY DEF FleetInv, MemoryInv
  <2> QED BY <1>1, <2>1, HandlerTyped DEF FleetInv
<1> QED BY <1>1, WarmTyped, ReapTyped, RestartTyped, EnvironmentTyped DEF FleetInv, Next

\* A step gives away at most one container, one that exists and nobody had.
LEMMA Donor ==
    ASSUME FleetInv, Next
    PROVE  \/ given' = given
           \/ \E c \in Containers, s \in Sandboxes :
                given[c] = None /\ state'[c] # "none" /\ given' = [given EXCEPT ![c] = s]
<1> USE DEF docker
<1>1. ASSUME NEW r \in Requests, ClaimWarm(r)
      PROVE  /\ given[Head(pool)] = None /\ state'[Head(pool)] # "none"
             /\ Head(pool) \in Containers /\ req[r].id \in Sandboxes
  <2>1. pool \in Seq(Containers) /\ pool # <<>>
    BY <1>1 DEF FleetInv, TypeOK, ClaimWarm
  <2>2. Head(pool) = pool[1] /\ 1 \in 1..Len(pool) /\ Head(pool) \in Containers
    BY <2>1
  <2>3. req[r].id \in Sandboxes
    BY <1>1 DEF FleetInv, MemoryInv, ClaimWarm, At
  <2>4. state' = state
    BY <1>1 DEF ClaimWarm
  <2> QED BY <2>2, <2>3, <2>4 DEF FleetInv, PoolInv
<1>2. ASSUME NEW r \in Requests, NEW c \in Containers, ClaimCold(r, c)
      PROVE  given[c] = None /\ state'[c] # "none" /\ req[r].id \in Sandboxes
  BY <1>2 DEF FleetInv, TypeOK, BoxInv, MemoryInv, ClaimCold, At, Create, New, SetState
<1>3. ASSUME NEW r \in Requests, Handle(r) PROVE
        \/ given' = given
        \/ ClaimWarm(r)
        \/ \E c \in Containers : ClaimCold(r, c)
  BY <1>3 DEF Handle, AcquireNew, AcquireSleeping, BeginUse, BeginWrite, BeginSleep, BeginRelease, Read, StartBox,
     ClaimFails, Restore, Activate, Insert, Use, Touch, Archive, Upload, StopBox, RecordSleep,
     RemoveBox, DropSnapshot, RecordRelease, HandlerFails
<1>4. CASE Warm \/ Reap \/ Restart \/ Environment
  BY <1>4 DEF Warm, FillPool, FillFails, LeaveBox, Replenished, Replenish, ReplenishTooLate, ReplenishFails, Reap, ReaperSelect, ReapMissing, ReapExpired,
     ReapKeep, ReapIdle, Visit, ReaperUpload, ReaperStop, ReaperMark, ReaperCommit,
     Restart, Crash, Shutdown, Forget, Reconcile, Start, Environment, GrowIdle, Expire, LoseBox, ReaperDies
<1>5. ASSUME NEW r \in Requests, ClaimWarm(r)
      PROVE  given' = [given EXCEPT ![Head(pool)] = req[r].id]
  BY <1>5 DEF ClaimWarm, Give
<1>6. ASSUME NEW r \in Requests, NEW c \in Containers, ClaimCold(r, c)
      PROVE  given' = [given EXCEPT ![c] = req[r].id]
  BY <1>6 DEF ClaimCold, Give
<1> QED BY <1>1, <1>2, <1>3, <1>4, <1>5, <1>6 DEF Next

\* h is a later value of given than g
Later(g, h) ==
    /\ g \in [Containers -> Sandboxes \cup {None}]
    /\ h \in [Containers -> Sandboxes \cup {None}]
    /\ \A c \in Containers : g[c] # None => h[c] = g[c]

LEMMA GivenLater == ASSUME FleetInv, Next PROVE Later(given, given')
<1>1. TypeOK /\ TypeOK'
  BY TypeStep DEF FleetInv
<1> QED BY <1>1, Donor DEF TypeOK, Later

\* What holds of a row, of the memory of a handler and of that of the reaper
\* goes on holding while others are given containers.
LEMMA Kept ==
    ASSUME NEW g, NEW h, Later(g, h)
    PROVE  /\ \A s \in Sandboxes, w \in Rows : RowInv(s, w, g) => RowInv(s, w, h)
           /\ \A m \in Handlers : MemoryInv(m, g) => MemoryInv(m, h)
           /\ \A m \in Reapers : ReaperInv(m, g) => ReaperInv(m, h)
<1>1. ASSUME NEW s, NEW c \in Containers \cup {None}, Owns(s, c, g) PROVE Owns(s, c, h)
  BY <1>1, FleetAssumption DEF Owns, Later
<1>2. ASSUME NEW s \in Sandboxes, NEW w \in Rows, RowInv(s, w, g) PROVE RowInv(s, w, h)
  BY <1>1, <1>2 DEF RowInv, Rows
<1>3. ASSUME NEW m \in Handlers, MemoryInv(m, g) PROVE MemoryInv(m, h)
  <2>1. m.seen.box \in Containers \cup {None} /\ m.box \in Containers \cup {None}
    BY DEF Handlers, Rows
  <2> QED BY <1>1, <1>3, <2>1 DEF MemoryInv
<1>4. ASSUME NEW m \in Reapers, ReaperInv(m, g) PROVE ReaperInv(m, h)
  <2>1. \A s \in Sandboxes : m.box[s] \in Containers \cup {None}
    BY DEF Reapers
  <2> QED BY <1>1, <1>4, <2>1 DEF ReaperInv
<1> QED BY <1>2, <1>3, <1>4

-----------------------------------------------------------------------------
(* The memory of the handlers *)

LEMMA NewMemories ==
    ASSUME NEW g
    PROVE  /\ MemoryInv(Ready, g) /\ MemoryInv(Done, g)
           /\ \A label \in {"activate", "touch", "drop", "removed"}, s \in Sandboxes :
                MemoryInv([Ready EXCEPT !.pc = label, !.id = s], g)
           /\ \A s \in Sandboxes, w \in Rows, label \in {"start", "claim", "run", "archive", "remove"} :
                RowInv(s, w, g) =>
                    MemoryInv([Ready EXCEPT !.pc = label, !.id = s, !.seen = w], g)
<1> USE DEF MemoryInv, Ready, Done, NoRow, Owns, His
<1>1. MemoryInv(Ready, g) /\ MemoryInv(Done, g)
  OBVIOUS
<1>2. ASSUME NEW label \in {"activate", "touch", "drop", "removed"}, NEW s \in Sandboxes
      PROVE  MemoryInv([Ready EXCEPT !.pc = label, !.id = s], g)
  OBVIOUS
<1>3. ASSUME NEW s \in Sandboxes, NEW w \in Rows,
             NEW label \in {"start", "claim", "run", "archive", "remove"}, RowInv(s, w, g)
      PROVE  MemoryInv([Ready EXCEPT !.pc = label, !.id = s, !.seen = w], g)
  BY <1>3 DEF RowInv
<1> QED BY <1>1, <1>2, <1>3

\* A handler's step leaves the memory of the others alone.
LEMMA OtherHandlers ==
    ASSUME TypeOK, NEW r \in Requests, Handle(r), NEW q \in Requests \ {r}
    PROVE  req'[q] = req[q]
BY DEF TypeOK, Handle, AcquireNew, AcquireSleeping, BeginUse, BeginWrite, BeginSleep, BeginRelease, Read, Begin,
   StartBox, ClaimWarm, ClaimCold, Claimed, ClaimFails, Restore, Activate, Insert, Use, Touch, Archive,
   Upload, StopBox, RecordSleep, RemoveBox, DropSnapshot, RecordRelease, HandlerFails, Go, Goto, Leave

LEMMA HandlerMemory ==
    ASSUME FleetInv, Next, NEW r \in Requests, Handle(r)
    PROVE  MemoryInv(req'[r], given')
<1> DEFINE q == req[r]
<1>0. /\ q \in Handlers /\ req \in [Requests -> Handlers]
      /\ MemoryInv(q, given) /\ MemoryInv(q, given')
  BY GivenLater, Kept DEF FleetInv, TypeOK
<1>1. ASSUME NEW sc \in Scopes, NEW s \in Sandboxes, AcquireNew(r, sc, s)
      PROVE  MemoryInv(req'[r], given')
  <2>1. req'[r] = [Ready EXCEPT !.pc = "claim", !.id = s, !.seen.scope = sc]
    BY <1>0, <1>1 DEF AcquireNew, Begin
  <2> QED BY <2>1 DEF MemoryInv, Ready, NoRow, Owns, His
<1>2. ASSUME NEW s \in Sandboxes,
             \/ AcquireSleeping(r, s) \/ BeginUse(r, s) \/ BeginWrite(r, s)
             \/ BeginSleep(r, s) \/ BeginRelease(r, s)
      PROVE  MemoryInv(req'[r], given')
  <2>1. given' = given /\ row[s] \in Rows /\ RowInv(s, row[s], given)
    BY <1>2 DEF AcquireSleeping, BeginUse, BeginWrite, BeginSleep, BeginRelease, Read, docker, FleetInv, TypeOK
  <2>2. PICK label \in {"start", "claim", "run", "archive", "remove"} :
          req'[r] = [Ready EXCEPT !.pc = label, !.id = s, !.seen = row[s]]
    BY <1>0, <1>2 DEF AcquireSleeping, BeginUse, BeginWrite, BeginSleep, BeginRelease, Read, Begin
  <2>3. MemoryInv([Ready EXCEPT !.pc = label, !.id = s, !.seen = row[s]], given)
    BY <2>1, <2>2, NewMemories
  <2> QED BY <2>1, <2>2, <2>3, Zenon
<1>3. CASE ClaimWarm(r) \/ \E c \in Containers : ClaimCold(r, c)
  <2>1. PICK c \in Containers : Claimed(r, c) /\ Give(c, q.id) /\ At(r, "claim")
    <3>1. ASSUME ClaimWarm(r) PROVE Head(pool) \in Containers
      BY <3>1 DEF ClaimWarm, FleetInv, TypeOK
    <3> QED BY <1>3, <3>1 DEF ClaimWarm, ClaimCold
  <2>2. req'[r] = [q EXCEPT !.pc = IF q.seen.status = "sleeping" THEN "restore" ELSE "insert", !.box = c]
    BY <1>0, <2>1 DEF Claimed, Go
  <2>3. q.id \in Sandboxes /\ given'[c] = q.id /\ c # None
    BY <1>0, <2>1, FleetAssumption DEF MemoryInv, At, Give, FleetInv, TypeOK
  <2> QED BY <1>0, <2>2, <2>3 DEF MemoryInv, Owns, Handlers
<1>4. CASE StartBox(r) \/ RemoveBox(r) \/ DropSnapshot(r) \/ Use(r)
  <2>1. q.id \in Sandboxes /\ q.box = None
    BY <1>0, <1>4 DEF StartBox, RemoveBox, DropSnapshot, Use, At, MemoryInv
  <2>2. \/ req'[r] = Done
        \/ req'[r] = [q EXCEPT !.pc = "claim"] \/ req'[r] = [q EXCEPT !.pc = "removed"]
        \/ \E label \in {"activate", "touch", "drop", "removed"} :
             req'[r] = [Ready EXCEPT !.pc = label, !.id = q.id]
    BY <1>0, <1>4 DEF StartBox, RemoveBox, DropSnapshot, Use, Go, Goto, Leave
  <2>3. MemoryInv([q EXCEPT !.pc = "claim"], given') /\ MemoryInv([q EXCEPT !.pc = "removed"], given')
    BY <1>0, <2>1 DEF MemoryInv, Handlers
  <2>4. \A label \in {"activate", "touch", "drop", "removed"} :
          MemoryInv([Ready EXCEPT !.pc = label, !.id = q.id], given')
    BY <2>1, NewMemories, Zenon
  <2> QED BY <2>2, <2>3, <2>4, NewMemories, Zenon
<1>5. CASE Restore(r)
  <2>1. q.id \in Sandboxes
    BY <1>0, <1>5 DEF Restore, At, MemoryInv
  <2>2. req'[r] = Done \/ req'[r] = [q EXCEPT !.pc = "activate"]
    BY <1>0, <1>5 DEF Restore, Go, Goto
  <2>3. MemoryInv([q EXCEPT !.pc = "activate"], given')
    BY <1>0, <2>1 DEF MemoryInv, Handlers
  <2> QED BY <2>2, <2>3, NewMemories
<1>6. CASE \/ ClaimFails(r) \/ Activate(r) \/ Insert(r) \/ Touch(r) \/ RecordSleep(r)
           \/ RecordRelease(r) \/ HandlerFails(r)
  <2>1. req'[r] = Done
    BY <1>0, <1>6 DEF ClaimFails, Activate, Insert, Touch, RecordSleep, RecordRelease, HandlerFails, Go
  <2> QED BY <2>1, NewMemories
<1>7. CASE Archive(r)
  <2>1. CASE Exists(q.seen.box)
    <3>1. req'[r] = [q EXCEPT !.pc = "upload", !.copy = files[q.seen.box]]
      BY <1>0, <1>7, <2>1 DEF Archive, Go
    <3>2. /\ q.seen.box \in Containers /\ q.id \in Sandboxes /\ given[q.seen.box] = q.id
          /\ q.box = None
      BY <1>0, <2>1, <1>7 DEF Exists, Handlers, Rows, MemoryInv, Owns, Archive, At
    <3>3. files[q.seen.box] \in Files /\ files[q.seen.box].by \in {None, q.id}
      BY <3>2 DEF FleetInv, BoxInv, TypeOK
    <3>4. files[q.seen.box] # None
      BY <3>3, FleetAssumption DEF Files
    <3> QED BY <1>0, <3>1, <3>2, <3>3, <3>4 DEF MemoryInv, His, Handlers
  <2>2. CASE ~Exists(q.seen.box)
    BY <1>0, <1>7, <2>2, NewMemories DEF Archive, Go
  <2> QED BY <2>1, <2>2
<1>8. CASE Upload(r) \/ StopBox(r)
  <2>1. q.id \in Sandboxes /\ q.copy # None /\ q.box = None
    BY <1>0, <1>8 DEF Upload, StopBox, At, MemoryInv
  <2>2. req'[r] = Done \/ req'[r] = [q EXCEPT !.pc = "stop"] \/ req'[r] = [q EXCEPT !.pc = "slept"]
    BY <1>0, <1>8 DEF Upload, StopBox, Go, Goto
  <2>3. MemoryInv([q EXCEPT !.pc = "stop"], given') /\ MemoryInv([q EXCEPT !.pc = "slept"], given')
    BY <1>0, <2>1 DEF MemoryInv, Handlers
  <2> QED BY <2>2, <2>3, NewMemories
<1> QED BY <1>1, <1>2, <1>3, <1>4, <1>5, <1>6, <1>7, <1>8 DEF Handle

LEMMA MemoriesStep ==
    ASSUME FleetInv, Next, NEW q \in Requests PROVE MemoryInv(req'[q], given')
<1>0. req[q] \in Handlers /\ MemoryInv(req[q], given')
  BY GivenLater, Kept DEF FleetInv, TypeOK
<1>1. ASSUME NEW r \in Requests, Handle(r) PROVE MemoryInv(req'[q], given')
  <2>1. CASE q = r
    BY <1>1, <2>1, HandlerMemory
  <2>2. CASE q # r
    BY <1>0, <1>1, <2>2, OtherHandlers DEF FleetInv
  <2> QED BY <2>1, <2>2
<1>2. CASE Crash \/ Shutdown
  <2>1. req'[q] \in {Ready, Done}
    BY <1>2 DEF Crash, Shutdown, Forget
  <2> QED BY <2>1, NewMemories
<1>3. CASE Warm \/ Reap \/ Reconcile \/ Start \/ Environment
  <2>1. req' = req
    BY <1>3 DEF Warm, FillPool, FillFails, LeaveBox, Replenished, Replenish, ReplenishTooLate, ReplenishFails, Reap, ReaperSelect, ReapMissing, ReapExpired,
       ReapKeep, ReapIdle, Visit, ReaperUpload, ReaperStop, ReaperMark, ReaperCommit,
       Reconcile, Start, Environment, GrowIdle, Expire, LoseBox, ReaperDies
  <2> QED BY <1>0, <2>1
<1> QED BY <1>1, <1>2, <1>3 DEF Next, Restart

-----------------------------------------------------------------------------
(* The table and the object store *)

\* The steps that write rows.
LEMMA RowWriters ==
    ASSUME Next
    PROVE  row' = row \/ ReaperCommit \/ Reconcile
             \/ \E r \in Requests : Activate(r) \/ Insert(r) \/ RecordSleep(r) \/ Touch(r) \/ RecordRelease(r)
<1>1. ASSUME NEW r \in Requests, Handle(r) PROVE
        row' = row \/ Activate(r) \/ Insert(r) \/ RecordSleep(r) \/ Touch(r) \/ RecordRelease(r)
  BY <1>1 DEF Handle, AcquireNew, AcquireSleeping, BeginUse, BeginWrite, BeginSleep, BeginRelease, Read, StartBox,
     ClaimWarm, ClaimCold, ClaimFails, Restore, Use, Archive, Upload, StopBox, RemoveBox, DropSnapshot,
     HandlerFails, table
<1>2. ASSUME Warm \/ Reap \/ Restart \/ Environment PROVE row' = row \/ ReaperCommit \/ Reconcile
  BY <1>2 DEF Warm, FillPool, FillFails, LeaveBox, Replenished, Replenish, ReplenishTooLate, ReplenishFails, Reap, ReaperSelect, ReapMissing, ReapExpired,
     ReapKeep, ReapIdle, Visit, ReaperUpload, ReaperStop, ReaperMark, Restart, Crash, Shutdown, Forget,
     Start, Environment, GrowIdle, Expire, LoseBox, ReaperDies, table
<1> QED BY <1>1, <1>2 DEF Next

LEMMA RowsStep ==
    ASSUME FleetInv, Next, NEW s \in Sandboxes PROVE RowInv(s, row'[s], given')
<1> DEFINE w == row[s]
<1>0. w \in Rows /\ RowInv(s, w, given) /\ RowInv(s, w, given') /\ row \in [Sandboxes -> Rows]
  BY GivenLater, Kept DEF FleetInv, TypeOK
<1>1. ASSUME NEW r \in Requests, Activate(r) \/ Insert(r) \/ RecordSleep(r) \/ Touch(r) \/ RecordRelease(r)
      PROVE  RowInv(s, row'[s], given')
  <2> DEFINE q == req[r]
  <2>1. given' = given /\ q \in Handlers /\ MemoryInv(q, given)
    BY <1>1 DEF Activate, Insert, RecordSleep, Touch, RecordRelease, docker, FleetInv, TypeOK
  <2>2. \/ row'[s] = w
        \/ q.id = s /\ row'[s] = [w EXCEPT !.status = "active", !.box = IF q.box = None THEN @ ELSE q.box]
        \/ q.id = s /\ row'[s] = [NoRow EXCEPT !.scope = q.seen.scope, !.box = q.box, !.status = "active"]
        \/ q.id = s /\ row'[s] = [w EXCEPT !.status = "released"]
        \/ q.id = s /\ RecordSleep(r) /\ row'[s] = Slept(w, q.copy)
    BY <1>0, <1>1 DEF Activate, Insert, RecordSleep, Touch, RecordRelease, Update, table
  <2>3. CASE q.id = s /\ row'[s] = [w EXCEPT !.status = "active", !.box = IF q.box = None THEN @ ELSE q.box]
    BY <1>0, <2>1, <2>3 DEF RowInv, MemoryInv, Owns, Rows
  <2>4. CASE q.id = s /\ row'[s] = [NoRow EXCEPT !.scope = q.seen.scope, !.box = q.box, !.status = "active"]
    BY <2>1, <2>4 DEF RowInv, MemoryInv, Owns, NoRow
  <2>5. CASE q.id = s /\ row'[s] = [w EXCEPT !.status = "released"]
    BY <1>0, <2>1, <2>5 DEF RowInv, Owns, Rows
  <2>6. CASE q.id = s /\ RecordSleep(r) /\ row'[s] = Slept(w, q.copy)
    BY <1>0, <2>1, <2>6 DEF RowInv, Owns, Rows, Slept, MemoryInv, RecordSleep, At
  <2> QED BY <1>0, <2>2, <2>3, <2>4, <2>5, <2>6
<1>2. CASE ReaperCommit
  <2>1. reaper.pending[s] \in Outcomes /\ (reaper.pending[s] = "sleeping" => reaper.copy[s] # None)
    BY DEF FleetInv, TypeOK, Reapers, ReaperInv
  <2>2. \/ row'[s] = w
        \/ reaper.pending[s] = "sleeping" /\ row'[s] = Slept(w, reaper.copy[s])
        \/ reaper.pending[s] \in {"released", "failed"} /\ row'[s] = [w EXCEPT !.status = reaper.pending[s]]
    <3>1. CASE reaper.pending[s] = "none"
      BY <1>2, <3>1 DEF ReaperCommit
    <3>2. CASE reaper.pending[s] = "sleeping"
      BY <1>2, <3>2 DEF ReaperCommit
    <3>3. CASE reaper.pending[s] \in {"released", "failed"}
      BY <1>2, <3>3 DEF ReaperCommit
    <3> QED BY <2>1, <3>1, <3>2, <3>3 DEF Outcomes
  <2>3. ASSUME NEW f, f # None PROVE RowInv(s, Slept(w, f), given')
    BY <1>0, <2>3 DEF RowInv, Rows, Slept
  <2>4. ASSUME NEW st \in {"released", "failed"}
        PROVE  RowInv(s, [w EXCEPT !.status = st], given')
    BY <1>0, <2>4 DEF RowInv, Rows
  <2> QED BY <1>0, <2>1, <2>2, <2>3, <2>4
<1>3. CASE Reconcile
  <2>1. row'[s] = w \/ row'[s] = [w EXCEPT !.status = "released"]
    BY <1>3 DEF Reconcile
  <2> QED BY <1>0, <2>1 DEF RowInv, Owns, Rows
<1> QED BY <1>0, <1>1, <1>2, <1>3, RowWriters

LEMMA ObjectsStep ==
    ASSUME FleetInv, Next, NEW s \in Sandboxes PROVE His(s, object'[s])
<1>0. His(s, object[s]) /\ object \in [Sandboxes -> Files \cup {None}]
  BY DEF FleetInv, TypeOK
<1>1. ASSUME NEW r \in Requests, Upload(r) PROVE His(s, object'[s])
  <2>1. MemoryInv(req[r], given)
    BY DEF FleetInv
  <2> QED BY <1>0, <1>1, <2>1 DEF Upload, MemoryInv, His
<1>2. ASSUME NEW r \in Requests, DropSnapshot(r) PROVE His(s, object'[s])
  BY <1>0, <1>2 DEF DropSnapshot, His
<1>3. CASE ReaperUpload
  <2>1. ReaperInv(reaper, given)
    BY DEF FleetInv
  <2> QED BY <1>0, <1>3, <2>1 DEF ReaperUpload, ReaperInv, His
<1>4. ASSUME NEW r \in Requests, Handle(r) PROVE object' = object \/ Upload(r) \/ DropSnapshot(r)
  BY <1>4 DEF Handle, AcquireNew, AcquireSleeping, BeginUse, BeginWrite, BeginSleep, BeginRelease, Read, StartBox,
     ClaimWarm, ClaimCold, ClaimFails, Restore, Activate, Insert, Use, Touch, Archive, StopBox, RecordSleep,
     RemoveBox, RecordRelease, HandlerFails
<1>5. ASSUME Warm \/ Reap \/ Restart \/ Environment PROVE object' = object \/ ReaperUpload
  BY <1>5 DEF Warm, FillPool, FillFails, LeaveBox, Replenished, Replenish, ReplenishTooLate, ReplenishFails, Reap, ReaperSelect, ReapMissing, ReapExpired,
     ReapKeep, ReapIdle, Visit, ReaperStop, ReaperMark, ReaperCommit, Restart, Crash, Shutdown, Forget,
     Reconcile, Start, Environment, GrowIdle, Expire, LoseBox, ReaperDies
<1>6. object' = object \/ ReaperUpload \/ \E r \in Requests : Upload(r) \/ DropSnapshot(r)
  BY <1>4, <1>5 DEF Next
<1> QED BY <1>0, <1>1, <1>2, <1>3, <1>6

-----------------------------------------------------------------------------
(* The memory of the reaper *)

LEMMA ReaperMemory == ASSUME FleetInv, Next PROVE ReaperInv(reaper', given')
<1>0. reaper \in Reapers /\ ReaperInv(reaper, given) /\ ReaperInv(reaper, given')
  BY GivenLater, Kept DEF FleetInv, TypeOK
<1>1. ReaperInv(Waiting, given') /\ ReaperInv(Dead, given')
  BY DEF ReaperInv, Waiting, Dead, Owns, His
<1>2. CASE ReaperSelect
  <2>1. /\ reaper'.pc = "next" /\ reaper'.at = reaper.at /\ reaper'.outcome = reaper.outcome
        /\ reaper'.copy = reaper.copy /\ reaper'.pending = reaper.pending
        /\ \A s \in Sandboxes : reaper'.box[s] = IF Live(s) THEN row[s].box ELSE None
        /\ given' = given
    BY <1>0, <1>2 DEF ReaperSelect, ReaperStep, Reapers, docker
  <2>2. \A s \in Sandboxes : Owns(s, reaper'.box[s], given')
    BY <2>1 DEF FleetInv, RowInv, Owns
  <2> QED BY <1>0, <2>1, <2>2 DEF ReaperInv
<1>3. ASSUME NEW s \in Sandboxes, ReapMissing(s) \/ ReapExpired(s) \/ ReapKeep(s)
      PROVE  ReaperInv(reaper', given')
  <2>1. /\ reaper'.box = reaper.box /\ reaper'.copy = reaper.copy /\ reaper'.pending = reaper.pending
        /\ \/ reaper'.pc = "next" /\ reaper'.outcome = reaper.outcome /\ reaper'.at = reaper.at
           \/ reaper'.pc = "mark" /\ reaper'.at = s /\ reaper'.outcome \in {"failed", "released"}
    BY <1>0, <1>3 DEF ReapMissing, ReapExpired, ReapKeep, Visit, ReaperStep, Outcome, Reapers
  <2> QED BY <1>0, <2>1 DEF ReaperInv
<1>4. ASSUME NEW s \in Sandboxes, ReapIdle(s) PROVE ReaperInv(reaper', given')
  <2>1. /\ reaper'.box = reaper.box /\ reaper'.pending = reaper.pending
        /\ reaper'.copy = [reaper.copy EXCEPT ![s] = files[reaper.box[s]]]
        /\ reaper'.pc = "upload" /\ reaper'.outcome = reaper.outcome /\ reaper'.at = s
    BY <1>0, <1>4 DEF ReapIdle, Visit, ReaperStep, Reapers
  <2>2. reaper.box[s] \in Containers /\ given[reaper.box[s]] = s
    BY <1>0, <1>4 DEF ReapIdle, Exists, Reapers, ReaperInv, Owns
  <2>3. files[reaper.box[s]] \in Files /\ files[reaper.box[s]].by \in {None, s}
    BY <2>2 DEF FleetInv, BoxInv, TypeOK
  <2>4. files[reaper.box[s]] # None /\ reaper.copy \in [Sandboxes -> Files \cup {None}]
    BY <1>0, <2>3, FleetAssumption DEF Files, Reapers
  <2> QED BY <1>0, <2>1, <2>3, <2>4 DEF ReaperInv, His
<1>5. CASE ReaperUpload \/ ReaperStop
  <2>1. reaper.pc \in {"upload", "stop"}
    BY <1>5 DEF ReaperUpload, ReaperStop, ReaperStep
  <2>2. /\ reaper'.box = reaper.box /\ reaper'.copy = reaper.copy /\ reaper'.pending = reaper.pending
        /\ reaper'.at = reaper.at /\ reaper'.pc \in {"stop", "mark"}
    BY <1>0, <1>5 DEF ReaperUpload, ReaperStop, ReaperStep, Outcome, Reapers
  <2> QED BY <1>0, <2>1, <2>2 DEF ReaperInv
<1>6. CASE ReaperMark
  <2>1. reaper' = Dead \/
        /\ reaper'.pc = "next" /\ reaper'.outcome = "none" /\ reaper'.copy = reaper.copy
        /\ reaper'.box = [reaper.box EXCEPT ![reaper.at] = None]
        /\ reaper'.pending = [reaper.pending EXCEPT ![reaper.at] = reaper.outcome]
    BY <1>0, <1>6 DEF ReaperMark, ReaperStep, Reapers
  <2>2. reaper.box \in [Sandboxes -> Containers \cup {None}] /\ reaper.pending \in [Sandboxes -> Outcomes]
    BY <1>0 DEF Reapers
  <2> QED BY <1>0, <1>1, <2>1, <2>2 DEF ReaperInv, Owns
<1>7. CASE ReaperCommit \/ Crash \/ Shutdown \/ ReaperDies
  BY <1>1, <1>7 DEF ReaperCommit, ReaperStep, Crash, Shutdown, Forget, ReaperDies
<1>8. ASSUME NEW r \in Requests, Handle(r) PROVE reaper' = reaper
  BY <1>8 DEF Handle, AcquireNew, AcquireSleeping, BeginUse, BeginWrite, BeginSleep, BeginRelease, Read, StartBox,
     ClaimWarm, ClaimCold, ClaimFails, Restore, Activate, Insert, Use, Touch, Archive, Upload, StopBox,
     RecordSleep, RemoveBox, DropSnapshot, RecordRelease, HandlerFails
<1>9. CASE Warm \/ Reconcile \/ Start \/ \E s \in Sandboxes : GrowIdle(s) \/ Expire(s)
  BY <1>0, <1>9 DEF Warm, FillPool, FillFails, LeaveBox, Replenished, Replenish, ReplenishTooLate, ReplenishFails, Reconcile, Start, GrowIdle, Expire
<1>10. ASSUME NEW c \in Containers, NEW st \in {"stopped", "removed"}, LoseBox(c, st)
       PROVE  reaper' = reaper
  BY <1>10 DEF LoseBox
<1> QED BY <1>0, <1>2, <1>3, <1>4, <1>5, <1>6, <1>7, <1>8, <1>9, <1>10
        DEF Next, Reap, Restart, Environment

-----------------------------------------------------------------------------
(* The containers *)

\* Only the restore of a snapshot and a command change files, and both write
\* what is of the sandbox that the container was given to.
LEMMA FilesStep ==
    ASSUME FleetInv, Next
    PROVE  \/ files' = files
           \/ /\ given' = given
              /\ \E c \in Containers, f \in Files :
                   given[c] # None /\ f.by \in {None, given[c]} /\ files' = [files EXCEPT ![c] = f]
<1>1. ASSUME NEW r \in Requests, Restore(r), files' # files
      PROVE  /\ given' = given
             /\ \E c \in Containers, f \in Files :
                   given[c] # None /\ f.by \in {None, given[c]} /\ files' = [files EXCEPT ![c] = f]
  <2> DEFINE q == req[r]
  <2>1. q \in Handlers /\ MemoryInv(q, given) /\ object \in [Sandboxes -> Files \cup {None}]
    BY DEF FleetInv, TypeOK
  <2>2. /\ object[q.id] = q.seen.digest /\ Exists(q.box)
        /\ files' = [files EXCEPT ![q.box] = object[q.id]] /\ given' = given
        /\ q.pc = "restore"
    BY <1>1 DEF Restore, At
  <2>3. q.box \in Containers /\ q.id \in Sandboxes /\ given[q.box] = q.id
    BY <2>1, <2>2 DEF Exists, Handlers, MemoryInv, Owns
  <2>4. object[q.id] \in Files /\ object[q.id].by \in {None, q.id}
    BY <2>1, <2>2, <2>3 DEF MemoryInv, FleetInv, His
  <2> QED BY <2>2, <2>3, <2>4, FleetAssumption
<1>2. ASSUME NEW r \in Requests, Use(r), files' # files
      PROVE  /\ given' = given
             /\ \E c \in Containers, f \in Files :
                   given[c] # None /\ f.by \in {None, given[c]} /\ files' = [files EXCEPT ![c] = f]
  <2> DEFINE q == req[r]
             f == [by |-> q.id, version |-> writes + 1]
  <2>1. q \in Handlers /\ MemoryInv(q, given) /\ writes \in 0..MaxWrites
          /\ files \in [Containers -> Files]
    BY DEF FleetInv, TypeOK
  <2>2. writes < MaxWrites /\ files' = [files EXCEPT ![q.seen.box] = f] /\ given' = given /\ q.pc = "run"
    BY <1>2 DEF Use, At
  <2>3. q.seen.box \in Containers
    BY <1>2, <2>1, <2>2
  <2>4. q.id \in Sandboxes /\ given[q.seen.box] = q.id
    BY <2>1, <2>3, FleetAssumption DEF MemoryInv, Owns
  <2>5. writes + 1 \in 0..MaxWrites
    BY <2>1, <2>2, FleetAssumption
  <2>6. f \in Files /\ f.by = q.id
    BY <2>4, <2>5 DEF Files
  <2> HIDE DEF f
  <2> QED BY <2>2, <2>3, <2>4, <2>6, FleetAssumption
<1>3. ASSUME NEW r \in Requests, Handle(r) PROVE files' = files \/ Restore(r) \/ Use(r)
  BY <1>3 DEF Handle, AcquireNew, AcquireSleeping, BeginUse, BeginWrite, BeginSleep, BeginRelease, Read, StartBox,
     ClaimWarm, ClaimCold, ClaimFails, Activate, Insert, Touch, Archive, Upload, StopBox, RecordSleep,
     RemoveBox, DropSnapshot, RecordRelease, HandlerFails, docker
<1>4. ASSUME Warm \/ Reap \/ Restart \/ Environment PROVE files' = files
  BY <1>4 DEF Warm, FillPool, FillFails, LeaveBox, Replenished, Replenish, ReplenishTooLate, ReplenishFails, Reap, ReaperSelect, ReapMissing, ReapExpired,
     ReapKeep, ReapIdle, Visit, ReaperUpload, ReaperStop, ReaperMark, ReaperCommit, Restart, Crash,
     Shutdown, Forget, Reconcile, Start, Environment, GrowIdle, Expire, LoseBox, ReaperDies, docker
<1> QED BY <1>1, <1>2, <1>3, <1>4 DEF Next

\* No container goes back to not existing.
LEMMA StateStep ==
    ASSUME FleetInv, Next, NEW c \in Containers, state'[c] = "none" PROVE state[c] = "none"
<1>0. state \in [Containers -> {"none", "running", "stopped", "removed"}]
  BY DEF FleetInv, TypeOK
<1>1. ASSUME NEW kept, CleanUp(kept) PROVE state[c] = "none"
  BY <1>1 DEF CleanUp
<1>2. ASSUME NEW r \in Requests, Handle(r) PROVE state[c] = "none"
  BY <1>0, <1>2 DEF Handle, AcquireNew, AcquireSleeping, BeginUse, BeginWrite, BeginSleep, BeginRelease, Read, StartBox,
     ClaimWarm, ClaimCold, Create, SetState, LeaveBox, ClaimFails, Restore, Activate, Insert, Use, Touch, Archive,
     Upload, StopBox, RecordSleep, RemoveBox, DropSnapshot, RecordRelease, HandlerFails, docker
<1>3. CASE Warm \/ Reap \/ Environment
  BY <1>0, <1>3 DEF Warm, FillPool, FillFails, LeaveBox, Replenished, Replenish, ReplenishTooLate, ReplenishFails, Create, SetState, Reap, ReaperSelect,
     ReapMissing, ReapExpired, ReapKeep, ReapIdle, Visit, ReaperUpload, ReaperStop, ReaperMark,
     ReaperCommit, Environment, GrowIdle, Expire, LoseBox, ReaperDies, docker
<1>4. CASE Restart
  BY <1>1, <1>4 DEF Restart, Crash, Shutdown, Reconcile, Start, docker
<1> QED BY <1>2, <1>3, <1>4 DEF Next

LEMMA BoxStep == ASSUME FleetInv, Next PROVE BoxInv'
<1>0. /\ BoxInv /\ files \in [Containers -> Files] /\ TypeOK'
      /\ given \in [Containers -> Sandboxes \cup {None}]
  BY TypeStep DEF FleetInv, TypeOK
<1>1. ASSUME NEW c \in Containers PROVE files'[c].by \in {None, given'[c]}
  <2>1. given' # given => files' = files
    BY FilesStep
  <2>2. CASE files' = files
    BY <1>0, <2>2, GivenLater DEF BoxInv, Later
  <2>3. CASE files' # files
    BY <1>0, <2>3, FilesStep DEF BoxInv
  <2> QED BY <2>2, <2>3
<1>2. ASSUME NEW c \in Containers, state'[c] = "none" PROVE given'[c] = None
  <2>1. state[c] = "none" /\ given[c] = None
    BY <1>0, <1>2, StateStep DEF BoxInv
  <2>2. CASE given' = given
    BY <2>1, <2>2
  <2>3. CASE given' # given
    <3>1. PICK d \in Containers, s \in Sandboxes :
            state'[d] # "none" /\ given' = [given EXCEPT ![d] = s]
      BY <2>3, Donor
    <3> QED BY <1>0, <1>2, <2>1, <3>1
  <2> QED BY <2>2, <2>3
<1> QED BY <1>1, <1>2 DEF BoxInv

-----------------------------------------------------------------------------
(* The pool *)

\* A new container that does not reach the pool is lost or removed again.
Spoiled(c) ==
    /\ New(c) /\ UNCHANGED <<given, pool, phase>>
    /\ \A d \in Containers \ {c} : warm'[d] = warm[d]
    /\ \E st \in {"running", "stopped", "removed"} :
         state' = [state EXCEPT ![c] = st] /\ (c \in stray' \/ st = "removed")

LEMMA LeftIsSpoiled ==
    ASSUME FleetInv, NEW c \in Containers, NEW label, LeaveBox(c, label),
           UNCHANGED <<given, pool, phase>>
    PROVE  Spoiled(c)
<1>1. stray \subseteq Containers /\ warm \in [Containers -> BOOLEAN]
  BY DEF FleetInv, TypeOK
<1> QED BY <1>1 DEF LeaveBox, SetState, Spoiled

\* The steps that matter to the pool; the others create and warm nothing.
LEMMA PoolSteps ==
    ASSUME FleetInv, Next
    PROVE  \/ \E r \in Requests : ClaimWarm(r) \/ \E c \in Containers : ClaimCold(r, c)
           \/ \E c \in Containers : FillPool(c) \/ Replenish(c) \/ Spoiled(c)
           \/ Crash \/ Shutdown \/ Reconcile \/ Start
           \/ /\ UNCHANGED <<given, pool, warm, phase>>
              /\ \A c \in Containers : Exists(c)' => Exists(c)
<1> USE DEF docker, warming
<1>0. state \in [Containers -> {"none", "running", "stopped", "removed"}]
  BY DEF FleetInv, TypeOK
<1> DEFINE Quiet == /\ UNCHANGED <<given, pool, warm, phase>>
                    /\ \A c \in Containers : Exists(c)' => Exists(c)
<1>1. ASSUME NEW r \in Requests, StartBox(r) \/ StopBox(r) \/ RemoveBox(r) PROVE Quiet
  BY <1>0, <1>1 DEF StartBox, StopBox, RemoveBox, SetState, Exists
<1>2. ASSUME NEW r \in Requests, ClaimFails(r)
      PROVE  \/ \E c \in Containers : Spoiled(c)
             \/ UNCHANGED <<given, pool, warm, phase, state>>
  BY <1>2, LeftIsSpoiled DEF ClaimFails
<1>3. ASSUME NEW r \in Requests, Handle(r)
      PROVE  \/ ClaimWarm(r) \/ \E c \in Containers : ClaimCold(r, c)
             \/ StartBox(r) \/ StopBox(r) \/ RemoveBox(r) \/ ClaimFails(r)
             \/ UNCHANGED <<given, pool, warm, phase, state>>
  BY <1>3 DEF Handle, AcquireNew, AcquireSleeping, BeginUse, BeginWrite, BeginSleep, BeginRelease, Read,
     Restore, Activate, Insert, Use, Touch, Archive, Upload, RecordSleep, DropSnapshot, RecordRelease,
     HandlerFails
<1>4. ASSUME NEW s \in Sandboxes, ReapExpired(s) PROVE Quiet
  BY <1>0, <1>4 DEF ReapExpired, Visit, SetState, Exists
<1>5. ASSUME ReaperStop PROVE Quiet
  BY <1>0, <1>5 DEF ReaperStop, SetState, Exists
<1>6. ASSUME NEW c \in Containers, NEW st \in {"stopped", "removed"}, LoseBox(c, st) PROVE Quiet
  BY <1>0, <1>6 DEF LoseBox, SetState, Exists
<1>7. ASSUME UNCHANGED <<given, pool, warm, phase, state>> PROVE Quiet
  BY <1>7 DEF Exists
<1>8. ASSUME Reap PROVE \/ \E s \in Sandboxes : ReapExpired(s)
                        \/ ReaperStop
                        \/ UNCHANGED <<given, pool, warm, phase, state>>
  BY <1>8 DEF Reap, ReaperSelect, ReapMissing, ReapKeep, ReapIdle, Visit, ReaperUpload, ReaperMark,
     ReaperCommit
<1>9. ASSUME Warm
      PROVE  \/ \E c \in Containers : FillPool(c) \/ Replenish(c) \/ Spoiled(c)
             \/ UNCHANGED <<given, pool, warm, phase, state>>
  <2>1. ASSUME NEW c \in Containers, FillFails(c) PROVE Spoiled(c)
    BY <2>1, LeftIsSpoiled DEF FillFails
  <2>2. ASSUME NEW c \in Containers, ReplenishTooLate(c) PROVE Spoiled(c)
    <3>1. CASE LeaveBox(c, TRUE)
      BY <2>2, <3>1, LeftIsSpoiled DEF ReplenishTooLate, Replenished
    <3>2. CASE New(c) /\ SetState(c, "removed") /\ UNCHANGED <<warm, stray, counters>>
      BY <2>2, <3>2 DEF ReplenishTooLate, Replenished, SetState, Spoiled
    <3> QED BY <2>2, <3>1, <3>2 DEF ReplenishTooLate
  <2>3. ASSUME NEW c \in Containers, ReplenishFails, LeaveBox(c, TRUE) PROVE Spoiled(c)
    BY <2>3, LeftIsSpoiled DEF ReplenishFails, Replenished
  <2>4. ASSUME ReplenishFails, UNCHANGED docker PROVE UNCHANGED <<given, pool, warm, phase, state>>
    BY <2>4 DEF ReplenishFails, Replenished
  <2>5. ReplenishFails => UNCHANGED docker \/ \E c \in Containers : LeaveBox(c, TRUE)
    BY DEF ReplenishFails
  <2> QED BY <1>9, <2>1, <2>2, <2>3, <2>4, <2>5 DEF Warm
<1>10. ASSUME ReaperDies \/ \E s \in Sandboxes : GrowIdle(s) \/ Expire(s)
      PROVE  UNCHANGED <<given, pool, warm, phase, state>>
  BY <1>10 DEF ReaperDies, GrowIdle, Expire
<1> HIDE DEF Quiet
<1>11. Next => \/ \E r \in Requests : ClaimWarm(r) \/ \E c \in Containers : ClaimCold(r, c)
               \/ \E c \in Containers : FillPool(c) \/ Replenish(c) \/ Spoiled(c)
               \/ Crash \/ Shutdown \/ Reconcile \/ Start
               \/ Quiet
  BY <1>1, <1>2, <1>3, <1>4, <1>5, <1>6, <1>7, <1>8, <1>9, <1>10 DEF Next, Restart, Environment
<1> QED BY <1>11 DEF Quiet

\* Taking the first of a sequence without repetitions; adding a new one.
LEMMA TailOfDistinct ==
    ASSUME NEW S, NEW p \in Seq(S), p # <<>>,
           \A i, j \in 1..Len(p) : p[i] = p[j] => i = j
    PROVE  /\ Len(Tail(p)) = Len(p) - 1
           /\ \A i \in 1..Len(Tail(p)) :
                i + 1 \in 1..Len(p) /\ Tail(p)[i] = p[i + 1] /\ Tail(p)[i] # Head(p)
           /\ \A i, j \in 1..Len(Tail(p)) : Tail(p)[i] = Tail(p)[j] => i = j
           /\ \A i \in 1..Len(p) : p[i] # Head(p) =>
                \E j \in 1..Len(Tail(p)) : Tail(p)[j] = p[i]
<1>1. Len(p) \in Nat /\ Len(p) > 0 /\ Len(Tail(p)) = Len(p) - 1 /\ Head(p) = p[1]
  OBVIOUS
<1>2. ASSUME NEW i \in 1..Len(Tail(p))
      PROVE  i + 1 \in 1..Len(p) /\ Tail(p)[i] = p[i + 1]
  BY <1>1
<1>3. ASSUME NEW i \in 1..Len(Tail(p)) PROVE Tail(p)[i] # Head(p)
  <2>1. i + 1 \in 1..Len(p) /\ 1 \in 1..Len(p) /\ i + 1 # 1
    BY <1>1, <1>2
  <2> QED BY <1>1, <1>2, <2>1
<1>4. ASSUME NEW i \in 1..Len(Tail(p)), NEW j \in 1..Len(Tail(p)), Tail(p)[i] = Tail(p)[j]
      PROVE  i = j
  <2>1. i + 1 \in 1..Len(p) /\ j + 1 \in 1..Len(p) /\ p[i + 1] = p[j + 1]
    BY <1>2, <1>4
  <2>2. i + 1 = j + 1
    BY <2>1
  <2> QED BY <2>2
<1>5. ASSUME NEW i \in 1..Len(p), p[i] # Head(p)
      PROVE  \E j \in 1..Len(Tail(p)) : Tail(p)[j] = p[i]
  <2>1. i - 1 \in 1..Len(Tail(p))
    BY <1>1, <1>5
  <2> QED BY <1>2, <2>1
<1> QED BY <1>1, <1>2, <1>3, <1>4, <1>5

LEMMA PoolStep == ASSUME FleetInv, Next PROVE PoolInv'
<1>0. /\ pool \in Seq(Containers) /\ PoolInv /\ BoxInv
      /\ state \in [Containers -> {"none", "running", "stopped", "removed"}]
      /\ given \in [Containers -> Sandboxes \cup {None}] /\ warm \in [Containers -> BOOLEAN]
      /\ phase \in {"down", "reconciled", "up"}
  BY DEF FleetInv, TypeOK
<1>1. \A c \in Containers : state'[c] = "none" => state[c] = "none"
  BY StateStep
<1>2. \A i \in 1..Len(pool) : pool[i] \in Containers /\ DOMAIN pool = 1..Len(pool)
  BY <1>0
<1>3. ASSUME NEW r \in Requests, ClaimWarm(r) PROVE PoolInv'
  <2> DEFINE c == Head(pool)
  <2>1. /\ pool # <<>> /\ pool' = Tail(pool) /\ given' = [given EXCEPT ![c] = req[r].id]
        /\ state' = state /\ warm' = warm /\ phase' = phase /\ phase = "up"
    BY <1>3 DEF ClaimWarm, Give, At
  <2>2. /\ \A i \in 1..Len(pool') :
             i + 1 \in 1..Len(pool) /\ pool'[i] = pool[i + 1] /\ pool'[i] # c
        /\ \A i, j \in 1..Len(pool') : pool'[i] = pool'[j] => i = j
    BY <1>0, <2>1, TailOfDistinct DEF PoolInv
  <2>3. ASSUME NEW i \in 1..Len(pool')
        PROVE  given'[pool'[i]] = None /\ state'[pool'[i]] # "none" /\ warm'[pool'[i]]
    <3>1. /\ given[pool[i + 1]] = None /\ state[pool[i + 1]] # "none" /\ warm[pool[i + 1]]
          /\ pool[i + 1] \in Containers /\ pool[i + 1] # c
      BY <1>0, <1>2, <2>2 DEF PoolInv
    <3> QED BY <1>0, <2>1, <2>2, <3>1
  <2> QED BY <2>1, <2>2, <2>3 DEF PoolInv
<1>4. ASSUME NEW r \in Requests, NEW c \in Containers, ClaimCold(r, c) PROVE PoolInv'
  <2>1. /\ pool' = pool /\ given' = [given EXCEPT ![c] = req[r].id] /\ phase' = phase
        /\ warm' = [warm EXCEPT ![c] = FALSE] /\ state' = [state EXCEPT ![c] = "running"]
        /\ state[c] = "none" /\ phase = "up"
    BY <1>4 DEF ClaimCold, Give, At, Create, SetState, New, warming
  <2>2. \A i \in 1..Len(pool) : pool[i] # c
    BY <1>0, <2>1 DEF PoolInv
  <2> QED BY <1>0, <1>2, <2>1, <2>2 DEF PoolInv
<1>5. ASSUME NEW c \in Containers, FillPool(c) \/ Replenish(c) PROVE PoolInv'
  <2>1. /\ given' = given /\ phase' = phase /\ phase = "up" /\ state[c] = "none"
        /\ warm' = [warm EXCEPT ![c] = TRUE]
        /\ pool' = Append(pool, c) /\ state' = [state EXCEPT ![c] = "running"]
    BY <1>5 DEF FillPool, Replenish, Replenished, Create, SetState, New
  <2>2. given[c] = None /\ \A i \in 1..Len(pool) : pool[i] # c
    BY <1>0, <2>1 DEF PoolInv, BoxInv
  <2>3. /\ Len(pool') = Len(pool) + 1 /\ Len(pool) \in Nat /\ pool'[Len(pool) + 1] = c
        /\ \A i \in 1..Len(pool) : pool'[i] = pool[i]
    BY <1>0, <2>1
  <2>4. ASSUME NEW i \in 1..Len(pool')
        PROVE  given'[pool'[i]] = None /\ state'[pool'[i]] # "none" /\ warm'[pool'[i]]
    <3>1. i \in 1..Len(pool) \/ i = Len(pool) + 1
      BY <2>3
    <3> QED BY <1>0, <1>1, <1>2, <2>1, <2>2, <2>3, <3>1 DEF PoolInv
  <2>5. ASSUME NEW i \in 1..Len(pool'), NEW j \in 1..Len(pool'), pool'[i] = pool'[j]
        PROVE  i = j
    <3>1. (i \in 1..Len(pool) \/ i = Len(pool) + 1) /\ (j \in 1..Len(pool) \/ j = Len(pool) + 1)
      BY <2>3
    <3> QED BY <1>0, <2>2, <2>3, <2>5, <3>1 DEF PoolInv
  <2> QED BY <2>1, <2>4, <2>5 DEF PoolInv
<1>6. ASSUME NEW c \in Containers, Spoiled(c) PROVE PoolInv'
  <2>1. \A i \in 1..Len(pool) : pool[i] \in Containers \ {c}
    BY <1>0, <1>2, <1>6 DEF PoolInv, Spoiled, New
  <2> QED BY <1>0, <1>1, <1>6, <2>1 DEF PoolInv, Spoiled
<1>7. CASE Crash \/ Shutdown \/ Reconcile
  <2>1. phase' # "up" /\ pool' = <<>>
    BY <1>0, <1>7 DEF Crash, Shutdown, Forget, Reconcile, PoolInv, warming
  <2> QED BY <2>1 DEF PoolInv
<1>8. CASE Start
  <2>1. pool' = <<>>
    BY <1>0, <1>8 DEF Start, PoolInv, warming
  <2> QED BY <2>1 DEF PoolInv
<1>9. CASE UNCHANGED <<given, pool, warm, phase>>
  BY <1>0, <1>1, <1>2, <1>9 DEF PoolInv
<1> QED BY <1>3, <1>4, <1>5, <1>6, <1>7, <1>8, <1>9, PoolSteps

-----------------------------------------------------------------------------
(* The containers that are within reach *)

\* What is lost stays lost.
LEMMA StrayGrows == ASSUME FleetInv, Next PROVE stray \subseteq stray'
<1> USE DEF docker, Strand, LeaveBox
<1>1. ASSUME NEW r \in Requests, Handle(r) PROVE stray \subseteq stray'
  BY <1>1 DEF Handle, AcquireNew, AcquireSleeping, BeginUse, BeginWrite, BeginSleep, BeginRelease, Read,
     StartBox, ClaimWarm, ClaimCold, ClaimFails, Restore, Activate, Insert, Use, Touch, Archive, Upload,
     StopBox, RecordSleep, RemoveBox, DropSnapshot, RecordRelease, HandlerFails
<1>2. CASE Warm
  BY <1>2 DEF Warm, FillPool, FillFails, Replenish, ReplenishTooLate, ReplenishFails
<1>3. CASE Reap \/ Environment
  BY <1>3 DEF Reap, ReaperSelect, ReapMissing, ReapExpired, ReapKeep, ReapIdle, Visit, ReaperUpload,
     ReaperStop, ReaperMark, ReaperCommit, Environment, GrowIdle, Expire, LoseBox, ReaperDies
<1>4. CASE Restart
  BY <1>4 DEF Restart, Crash, Shutdown, Forget, Reconcile, Start
<1> QED BY <1>1, <1>2, <1>3, <1>4 DEF Next

\* The container of a row stays on it, or another wake overwrites it and it is lost.
LEMMA BoxOfRow ==
    ASSUME FleetInv, Next, NEW s \in Sandboxes, NEW c \in Containers,
           row[s].box = c, Exists(c)
    PROVE  row'[s].box = c \/ c \in stray'
<1>0. row \in [Sandboxes -> Rows] /\ row[s] \in Rows /\ c # None
  BY FleetAssumption DEF FleetInv, TypeOK
<1>1. ASSUME NEW r \in Requests, Activate(r) PROVE row'[s].box = c \/ c \in stray'
  <2> DEFINE q == req[r]
             w == [row[q.id] EXCEPT !.status = "active", !.box = IF q.box = None THEN @ ELSE q.box]
  <2>1. \/ row' = row
        \/ row' = [row EXCEPT ![q.id] = w] /\ Strand({row[q.id].box} \ {w.box})
    BY <1>1 DEF Activate, Update, table
  <2>2. CASE q.id = s /\ row' = [row EXCEPT ![q.id] = w] /\ Strand({row[q.id].box} \ {w.box})
    <3>1. row'[s] = w
      BY <1>0, <2>2
    <3>2. c # w.box => c \in stray'
      BY <1>0, <2>2 DEF Strand
    <3> HIDE DEF w
    <3> QED BY <3>1, <3>2
  <2> QED BY <1>0, <2>1, <2>2
<1>2. ASSUME NEW r \in Requests, Insert(r) PROVE row'[s].box = c
  <2>1. row[s] # NoRow
    BY <1>0 DEF NoRow
  <2>2. CASE req[r].id = s
    BY <1>2, <2>1, <2>2 DEF Insert, table
  <2>3. CASE req[r].id # s
    BY <1>0, <1>2, <2>3 DEF Insert, Update, table
  <2> QED BY <2>2, <2>3
<1>3. ASSUME NEW r \in Requests, RecordSleep(r) \/ Touch(r) \/ RecordRelease(r)
      PROVE  row'[s].box = c
  <2> DEFINE q == req[r]
  <2>1. \/ row'[s] = row[s]
        \/ row'[s] = [row[s] EXCEPT !.status = "released"]
        \/ row'[s] = Slept(row[s], q.copy)
    BY <1>0, <1>3 DEF RecordSleep, Touch, RecordRelease, Update, table
  <2> QED BY <1>0, <2>1 DEF Rows, Slept
<1>4. CASE ReaperCommit
  <2>1. \/ row'[s] = row[s]
        \/ row'[s] = Slept(row[s], reaper.copy[s])
        \/ row'[s] = [row[s] EXCEPT !.status = reaper.pending[s]]
    <3>1. CASE reaper.pending[s] = "none"
      BY <1>4, <3>1 DEF ReaperCommit
    <3>2. CASE reaper.pending[s] = "sleeping"
      BY <1>4, <3>2 DEF ReaperCommit
    <3>3. CASE reaper.pending[s] \notin {"none", "sleeping"}
      BY <1>4, <3>3 DEF ReaperCommit
    <3> QED BY <3>1, <3>2, <3>3
  <2> QED BY <1>0, <2>1 DEF Rows, Slept
<1>5. CASE Reconcile
  <2>1. row'[s] = row[s] \/ row'[s] = [row[s] EXCEPT !.status = "released"]
    BY <1>5 DEF Reconcile
  <2> QED BY <1>0, <2>1 DEF Rows
<1> QED BY <1>1, <1>2, <1>3, <1>4, <1>5, RowWriters

\* A handler goes on with the container it has claimed, records it, or ends and
\* leaves it; a stop of the server leaves those that are not warm.
LEMMA BoxOfHandler ==
    ASSUME FleetInv, Next, NEW r \in Requests, NEW c \in Containers,
           req[r].box = c, Exists(c)
    PROVE  \/ req'[r].box = c
           \/ \E s \in Sandboxes : row'[s].box = c
           \/ c \in stray'
           \/ (Crash \/ Shutdown) /\ warm[c]
<1> DEFINE q == req[r]
<1>0. /\ q \in Handlers /\ MemoryInv(q, given) /\ c # None /\ q.box = c
      /\ req \in [Requests -> Handlers] /\ row \in [Sandboxes -> Rows]
  BY FleetAssumption DEF FleetInv, TypeOK
<1>1. q.pc \in {"restore", "activate", "insert"} /\ q.id \in Sandboxes
  BY <1>0 DEF MemoryInv
<1>2. CASE Restore(r)
  <2>1. CASE Strand({q.box})
    BY <1>0, <2>1 DEF Strand
  <2>2. CASE Goto(r, "activate")
    BY <1>0, <2>2 DEF Goto, Go, Handlers
  <2> QED BY <1>2, <2>1, <2>2 DEF Restore
<1>3. CASE Activate(r)
  <2> DEFINE w == [row[q.id] EXCEPT !.status = "active", !.box = IF q.box = None THEN @ ELSE q.box]
  <2>1. row' = [row EXCEPT ![q.id] = w] \/ Strand({q.box})
    BY <1>3 DEF Activate, Update
  <2>2. w.box = c
    BY <1>0, <1>1 DEF Rows
  <2> HIDE DEF w
  <2> QED BY <1>0, <1>1, <2>1, <2>2 DEF Strand
<1>4. CASE Insert(r)
  <2> DEFINE w == [NoRow EXCEPT !.scope = q.seen.scope, !.box = q.box, !.status = "active"]
  <2>1. row' = [row EXCEPT ![q.id] = w] \/ Strand({q.box})
    BY <1>4 DEF Insert, Update
  <2>2. w.box = c
    BY <1>0 DEF NoRow
  <2> HIDE DEF w
  <2> QED BY <1>0, <1>1, <2>1, <2>2 DEF Strand
<1>5. CASE HandlerFails(r)
  BY <1>0, <1>5 DEF HandlerFails, Strand
<1>6. ASSUME Handle(r) PROVE Restore(r) \/ Activate(r) \/ Insert(r) \/ HandlerFails(r)
  <2>1. ASSUME NEW mem, Begin(r, mem) PROVE FALSE
    BY <1>1, <2>1 DEF Begin, Ready
  <2>2. ASSUME NEW s \in Sandboxes, NEW sc,
               \/ AcquireNew(r, sc, s) \/ AcquireSleeping(r, s) \/ BeginUse(r, s) \/ BeginWrite(r, s)
               \/ BeginSleep(r, s) \/ BeginRelease(r, s)
        PROVE  FALSE
    BY <2>1, <2>2, Zenon DEF AcquireNew, AcquireSleeping, BeginUse, BeginWrite, BeginSleep, BeginRelease, Read
  <2>3. ASSUME \/ StartBox(r) \/ ClaimWarm(r) \/ ClaimFails(r) \/ Use(r) \/ Touch(r) \/ Archive(r)
               \/ Upload(r) \/ StopBox(r) \/ RecordSleep(r) \/ RemoveBox(r) \/ DropSnapshot(r)
               \/ RecordRelease(r) \/ \E d \in Containers : ClaimCold(r, d)
        PROVE  FALSE
    BY <1>1, <2>3 DEF StartBox, ClaimWarm, ClaimCold, ClaimFails, Use, Touch, Archive, Upload, StopBox,
       RecordSleep, RemoveBox, DropSnapshot, RecordRelease, At
  <2> QED BY <1>6, <2>2, <2>3 DEF Handle
<1>7. ASSUME NEW p \in Requests \ {r}, Handle(p) PROVE req'[r].box = c
  BY <1>0, <1>7, OtherHandlers DEF FleetInv
<1>8. CASE Crash \/ Shutdown
  <2>1. c \in stray' \/ warm[c]
    BY <1>0, <1>8 DEF Crash, Shutdown, Forget, Strand
  <2> QED BY <1>8, <2>1
<1>9. CASE Warm \/ Reap \/ Reconcile \/ Start \/ Environment
  BY <1>0, <1>9 DEF Warm, FillPool, FillFails, Replenished, Replenish, ReplenishTooLate, ReplenishFails,
     Reap, ReaperSelect, ReapMissing, ReapExpired, ReapKeep, ReapIdle, Visit, ReaperUpload, ReaperStop,
     ReaperMark, ReaperCommit, Reconcile, Start, Environment, GrowIdle, Expire, LoseBox, ReaperDies
<1> QED BY <1>2, <1>3, <1>4, <1>5, <1>6, <1>7, <1>8, <1>9 DEF Next, Restart

LEMMA ReachStep == ASSUME FleetInv, Next PROVE ReachInv'
<1>0. /\ pool \in Seq(Containers) /\ PoolInv /\ ReachInv
      /\ state \in [Containers -> {"none", "running", "stopped", "removed"}]
      /\ warm \in [Containers -> BOOLEAN] /\ req \in [Requests -> Handlers]
      /\ phase \in {"down", "reconciled", "up"}
  BY DEF FleetInv, TypeOK
<1> SUFFICES ASSUME NEW c \in Containers, Exists(c)', ~Held(c)'
             PROVE  IF phase' = "up" THEN \E i \in 1..Len(pool') : pool'[i] = c ELSE warm'[c]
  BY DEF ReachInv
<1>1. ASSUME Exists(c), Held(c) PROVE (Crash \/ Shutdown) /\ warm[c]
  BY <1>1, StrayGrows, BoxOfRow, BoxOfHandler DEF Held
<1>2. ASSUME Exists(c), ~Held(c)
      PROVE  IF phase = "up" THEN \E i \in 1..Len(pool) : pool[i] = c ELSE warm[c]
  BY <1>0, <1>2 DEF ReachInv
<1>3. ASSUME NEW r \in Requests, ClaimWarm(r)
      PROVE  \E i \in 1..Len(pool') : pool'[i] = c
  <2>1. /\ pool # <<>> /\ pool' = Tail(pool) /\ req'[r].box = Head(pool)
        /\ state' = state /\ phase = "up"
    BY <1>0, <1>3 DEF ClaimWarm, Claimed, Go, At, Handlers
  <2>2. Exists(c) /\ c # Head(pool)
    BY <2>1 DEF Held, Exists
  <2>3. PICK i \in 1..Len(pool) : pool[i] = c
    BY <1>1, <1>2, <2>1, <2>2, <1>3 DEF ClaimWarm, Crash, Shutdown, Forget, At
  <2> QED BY <1>0, <2>1, <2>2, <2>3, TailOfDistinct DEF PoolInv
<1>4. ASSUME NEW r \in Requests, NEW d \in Containers, ClaimCold(r, d)
      PROVE  \E i \in 1..Len(pool') : pool'[i] = c
  <2>1. /\ pool' = pool /\ req'[r].box = d /\ phase = "up" /\ phase' = phase
        /\ state' = [state EXCEPT ![d] = "running"]
    BY <1>0, <1>4 DEF ClaimCold, Claimed, Go, At, Handlers, Create, SetState, warming
  <2>2. c # d
    BY <2>1 DEF Held
  <2>3. Exists(c)
    BY <1>0, <2>1, <2>2 DEF Exists
  <2> QED BY <1>1, <1>2, <2>1, <2>3 DEF Crash, Shutdown, Forget
<1>5. ASSUME NEW d \in Containers, FillPool(d) \/ Replenish(d)
      PROVE  \E i \in 1..Len(pool') : pool'[i] = c
  <2>1. /\ pool' = Append(pool, d) /\ phase = "up" /\ phase' = phase
        /\ state' = [state EXCEPT ![d] = "running"]
    BY <1>5 DEF FillPool, Replenish, Replenished, Create, SetState
  <2>2. /\ Len(pool') = Len(pool) + 1 /\ Len(pool) \in Nat /\ pool'[Len(pool) + 1] = d
        /\ \A i \in 1..Len(pool) : pool'[i] = pool[i]
    BY <1>0, <2>1
  <2>3. CASE c = d
    BY <2>2, <2>3
  <2>4. CASE c # d
    <3>1. Exists(c)
      BY <1>0, <2>1, <2>4 DEF Exists
    <3>2. PICK i \in 1..Len(pool) : pool[i] = c
      BY <1>1, <1>2, <2>1, <3>1 DEF Crash, Shutdown, Forget
    <3>3. i \in 1..Len(pool') /\ pool'[i] = c
      BY <2>2, <3>2
    <3> QED BY <3>3
  <2> QED BY <2>3, <2>4
<1>6. CASE Crash \/ Shutdown
  <2>1. phase' = "down" /\ warm' = warm
    BY <1>6 DEF Crash, Shutdown, Forget
  <2>2. Exists(c)
    BY <1>0, <1>6 DEF Crash, Shutdown, CleanUp, Exists
  <2>3. warm[c]
    BY <1>0, <1>1, <1>2, <2>2 DEF PoolInv
  <2> QED BY <2>1, <2>3
<1>7. CASE Start
  <2>1. PICK kept \in SUBSET Containers : CleanUp(kept) /\ Strand(kept)
    BY <1>7 DEF Start
  <2>2. phase = "reconciled" /\ phase' = "up" /\ row' = row
    BY <1>7 DEF Start, table
  <2>3. Exists(c) /\ (c \in Leftover => c \in kept)
    BY <2>1 DEF CleanUp, Exists
  <2>4. c \notin Leftover
    BY <2>1, <2>3 DEF Strand, Held
  <2>5. warm[c]
    BY <1>1, <1>2, <2>2, <2>3
  <2>6. PICK s \in Sandboxes : row[s].box = c
    BY <2>3, <2>4, <2>5 DEF Leftover
  <2> QED BY <2>2, <2>6 DEF Held
<1>8. ASSUME UNCHANGED <<pool, warm>>, Exists(c), phase' = phase \/ Reconcile
      PROVE  IF phase' = "up" THEN \E i \in 1..Len(pool') : pool'[i] = c ELSE warm'[c]
  BY <1>1, <1>2, <1>6, <1>8 DEF Reconcile
<1>9. CASE Reconcile
  BY <1>8, <1>9 DEF Reconcile, Exists, docker, warming
<1>10. ASSUME NEW d \in Containers, Spoiled(d)
       PROVE  IF phase' = "up" THEN \E i \in 1..Len(pool') : pool'[i] = c ELSE warm'[c]
  <2>1. PICK st \in {"running", "stopped", "removed"} :
          state' = [state EXCEPT ![d] = st] /\ (d \in stray' \/ st = "removed")
    BY <1>10 DEF Spoiled
  <2>2. c # d
    BY <1>0, <2>1 DEF Held, Exists
  <2>3. Exists(c)
    BY <1>0, <2>1, <2>2 DEF Exists
  <2>4. pool' = pool /\ phase' = phase /\ warm'[c] = warm[c]
    BY <1>10, <2>2 DEF Spoiled
  <2> QED BY <1>1, <1>2, <1>6, <2>3, <2>4
<1>11. CASE UNCHANGED <<given, pool, warm, phase>> /\ \A d \in Containers : Exists(d)' => Exists(d)
  BY <1>8, <1>11
<1>12. (\E r \in Requests : ClaimWarm(r) \/ \E d \in Containers : ClaimCold(r, d))
         \/ (\E d \in Containers : FillPool(d) \/ Replenish(d)) => phase' = "up"
  BY DEF ClaimWarm, ClaimCold, At, FillPool, Replenish, Replenished
<1> QED BY <1>3, <1>4, <1>5, <1>6, <1>7, <1>9, <1>10, <1>11, <1>12, PoolSteps

-----------------------------------------------------------------------------
(* The theorems *)

LEMMA InitInv == Init => FleetInv
<1> SUFFICES ASSUME Init PROVE FleetInv
  OBVIOUS
<1>1. TypeOK
  BY InitTyped
<1>2. \A s \in Sandboxes : RowInv(s, row[s], given) /\ His(s, object[s])
  BY DEF Init, RowInv, Owns, His, NoRow
<1>3. \A r \in Requests : MemoryInv(req[r], given)
  BY NewMemories DEF Init
<1>4. ReaperInv(reaper, given)
  BY DEF Init, ReaperInv, Waiting, Owns, His
<1>5. BoxInv /\ PoolInv /\ ReachInv
  BY DEF Init, BoxInv, NoFiles, PoolInv, ReachInv, Exists
<1> QED BY <1>1, <1>2, <1>3, <1>4, <1>5 DEF FleetInv

LEMMA StepInv == FleetInv /\ [Next]_vars => FleetInv'
<1> SUFFICES ASSUME FleetInv, [Next]_vars PROVE FleetInv'
  OBVIOUS
<1>1. CASE Next
  BY <1>1, TypeStep, RowsStep, ObjectsStep, MemoriesStep, ReaperMemory, BoxStep, PoolStep, ReachStep DEF FleetInv
<1>2. CASE UNCHANGED vars
  BY <1>2 DEF vars, table, docker, warming, counters, FleetInv, TypeOK, BoxInv, PoolInv,
     ReachInv, Held, Exists
<1> QED BY <1>1, <1>2

\* The inductive invariant: every reference to a container or an archive is of
\* the sandbox it stands for, and every container is referred to, warm while the
\* server is down, or lost by a failure.
THEOREM FleetInvariant == Spec => []FleetInv
BY InitInv, StepInv, PTL DEF Spec

\* The state of the fleet is well typed, whatever its size.
THEOREM FleetTypes == Spec => []TypeOK
<1>1. FleetInv => TypeOK
  BY DEF FleetInv
<1> QED BY <1>1, FleetInvariant, PTL

\* No interleaving loses a container unless a failure does: a failing removal,
\* a handler that ends or stops before it records what it claimed, or a second
\* wake of the same row.
THEOREM FleetKeepsBoxesWithinReach == Spec => []BoxesWithinReach
<1>1. FleetInv => BoxesWithinReach
  <2> SUFFICES ASSUME FleetInv, phase = "up", NEW c \in Containers, Exists(c)
               PROVE  \/ \E i \in DOMAIN pool : pool[i] = c
                      \/ \E r \in Requests : req[r].box = c
                      \/ \E s \in Sandboxes : row[s].box = c
                      \/ c \in stray
    BY DEF BoxesWithinReach
  <2>1. DOMAIN pool = 1..Len(pool)
    BY DEF FleetInv, TypeOK
  <2> QED BY <2>1 DEF FleetInv, ReachInv, Held
<1> QED BY <1>1, FleetInvariant, PTL

\* The initial states and the steps of the fleet are those of PrivateWorkspaces.
LEMMA InitMapped == Init => Workspaces!Init
BY FleetAssumption DEF Init, Workspaces!Init, Workspaces!Files, NoFiles

LEMMA StepMapped == FleetInv /\ [Next]_vars => [Workspaces!Next]_<<given, files>>
<1> SUFFICES ASSUME FleetInv, Next PROVE [Workspaces!Next]_<<given, files>>
  BY DEF vars, docker
<1>1. Workspaces!Files = Files
  BY DEF Workspaces!Files, Files
<1>2. ASSUME given' # given PROVE Workspaces!Next
  <2>1. files' = files
    BY <1>2, FilesStep
  <2>2. PICK c \in Containers, s \in Sandboxes :
          given[c] = None /\ given' = [given EXCEPT ![c] = s]
    BY <1>2, Donor
  <2>3. Workspaces!Give(c, s)
    BY <2>1, <2>2 DEF Workspaces!Give
  <2> QED BY <2>3 DEF Workspaces!Next
<1>3. ASSUME files' # files PROVE Workspaces!Next
  <2>1. PICK c \in Containers, f \in Files :
          /\ given' = given
          /\ given[c] # None /\ f.by \in {None, given[c]} /\ files' = [files EXCEPT ![c] = f]
    BY <1>3, FilesStep
  <2>2. Workspaces!Fill(c, f)
    BY <1>1, <2>1 DEF Workspaces!Fill, Workspaces!Belongs
  <2> QED BY <1>1, <2>2 DEF Workspaces!Next
<1> QED BY <1>2, <1>3

\* The fleet implements PrivateWorkspaces: no interleaving of acquisitions,
\* wakes, sleeps, releases, reaper passes, failures and restarts gives a
\* container to a second sandbox or puts a sandbox's files into another's.
THEOREM FleetKeepsWorkspacesPrivate == Spec => KeepsWorkspacesPrivate
<1>1. Init => Workspaces!Init
  BY InitMapped
<1>2. FleetInv /\ [Next]_vars => [Workspaces!Next]_<<given, files>>
  BY StepMapped
<1> QED BY <1>1, <1>2, FleetInvariant, PTL DEF Spec, KeepsWorkspacesPrivate, Workspaces!Spec
=============================================================================

---------------------------- MODULE AgentSession ----------------------------
(***************************************************************************)
(* The runs of one agent session and the commands that control them        *)
(* (_run_message, control_checkpoint in                                    *)
(* apps/agent-server/src/workama_agent/main.py and _control_session,       *)
(* archive_session in platform-api's modules/session/router.py), composed  *)
(* with EventStream: a run emits events and waits until they are sent.     *)
(*                                                                         *)
(* A command changes the row of ag_session first and the Redis key of the  *)
(* session afterwards; the run looks at the key, not at the row.           *)
(***************************************************************************)
EXTENDS EventStream

CONSTANTS
    Commands,  \* pause, resume and cancel requests, in the order of their commits
    MaxRuns    \* bound: messages that start a run

ASSUME SessionAssumption == Commands \subseteq Nat /\ MaxRuns \in Nat

Actions == {"pause", "resume", "cancel"}

\* _control_session; waiting_approval, which no step below reaches, is left out
Allowed(a) == CASE a = "pause" -> {"running"}
                [] a = "resume" -> {"paused"}
                [] a = "cancel" -> {"running", "paused"}
Target(a) == CASE a = "pause" -> "paused" [] a = "resume" -> "running" [] a = "cancel" -> "cancelling"

VARIABLES
    status,   \* ag_session.status
    control,  \* the key agent-control:<session>, or "none"
    command,  \* a request: "free", accepted and to be put into the key, or "done"
    run,      \* where the run stands, "none" when session_runs has none
    runs,     \* bounded counter
    orphan,   \* history: the last run has left without setting the row
    lost      \* history: the key did not get, or did not keep, the latest command

commands == <<control, command, lost>>
session == <<status, run, runs, orphan>>
vars == <<stream, commands, session>>

-----------------------------------------------------------------------------
(* the requests *)

\* the row is changed under its lock
Accept(k, a) ==
    /\ command[k] = "free" /\ \A j \in Commands : j < k => command[j] # "free"
    /\ status \in Allowed(a)
    /\ status' = Target(a)
    /\ command' = [command EXCEPT ![k] = a]
    /\ UNCHANGED <<stream, control, lost, run, runs, orphan>>

\* the key is set; a request that was overtaken puts an older command there
Post(k) ==
    /\ command[k] \in Actions
    /\ control' = command[k]
    /\ command' = [command EXCEPT ![k] = "done"]
    /\ lost' = (lost \/ \E j \in Commands : j > k /\ command[j] = "done")
    /\ UNCHANGED <<stream, session>>

\* the platform dies, or Redis does not answer
PostFails(k) ==
    /\ command[k] \in Actions
    /\ command' = [command EXCEPT ![k] = "done"]
    /\ lost' = TRUE
    /\ UNCHANGED <<stream, session, control>>

Archive ==
    /\ status # "archived"
    /\ status' = "archived"
    /\ UNCHANGED <<stream, commands, run, runs, orphan>>

-----------------------------------------------------------------------------
(* the run; it goes on when its last event is sent *)

RunAt(label) == run = label /\ Quiet

\* events beyond the bound are not followed
Emit == IF last < MaxEvents THEN AppendEvent ELSE UNCHANGED stream

\* session_socket starts a run for a message unless one is alive
Begin ==
    /\ RunAt("none") /\ runs < MaxRuns
    /\ runs' = runs + 1
    /\ run' = "greet"
    /\ UNCHANGED <<stream, commands, status, orphan>>

EmitThen(from, to) ==
    /\ RunAt(from) /\ Emit
    /\ run' = to
    /\ UNCHANGED <<commands, status, runs, orphan>>

Greet == EmitThen("greet", "mark")

\* the row is set whatever it was; a plan may be refused and a budget used up
\* before the first look at the key, and the message may be an invalid command
Mark ==
    /\ RunAt("mark")
    /\ status' = "running"
    /\ run' \in {"look", "act", "invalid"}
    /\ UNCHANGED <<stream, commands, runs, orphan>>

\* returns with the row still running
Invalid ==
    /\ RunAt("invalid") /\ Emit
    /\ run' = "none"
    /\ orphan' = TRUE
    /\ UNCHANGED <<commands, status, runs>>

\* control_checkpoint
Look ==
    /\ RunAt("look")
    /\ run' = CASE control = "cancel" -> "cancel" [] control = "pause" -> "pause"
                [] OTHER -> "act"
    /\ UNCHANGED <<stream, commands, status, runs, orphan>>

Pause == EmitThen("pause", "paused")

\* mutant: a paused run waits for resume only
PollMutant ==
    /\ RunAt("paused") /\ control = "resume"
    /\ run' = control
    /\ UNCHANGED <<stream, commands, status, runs, orphan>>

Poll ==
    /\ RunAt("paused") /\ control \in {"cancel", "resume"}
    /\ run' = control
    /\ UNCHANGED <<stream, commands, status, runs, orphan>>

\* the key is deleted, with what it holds by now
Delete(label) ==
    /\ RunAt(label)
    /\ control' = "none"
    /\ lost' = (lost \/ control # label)
    /\ UNCHANGED <<stream, command, status, runs, orphan>>

Cancel == Delete("cancel") /\ run' = "cancelled"
Resume == Delete("resume") /\ run' = "resumed"

Cancelled == EmitThen("cancelled", "stopped")
Resumed == EmitThen("resumed", "act")

\* a model call, a tool or a step of the plan, its result or its failure; some
\* are followed by a checkpoint
Work == last < MaxEvents /\ (EmitThen("act", "look") \/ EmitThen("act", "act"))
Finish == EmitThen("act", "end")

\* the finally clauses: that of a plan looks at its steps, the others at the row
EndPlan == status' = IF run = "stopped" THEN "cancelled" ELSE "idle"
\* mutant: a row that is paused by now is left alone
EndOtherMutant == status' = CASE status = "cancelling" -> "cancelled"
                              [] status = "paused" -> status [] OTHER -> "idle"
EndOther == status' = IF status = "cancelling" THEN "cancelled" ELSE "idle"
End ==
    /\ RunAt("end") \/ RunAt("stopped")
    /\ EndPlan \/ EndOther
    /\ run' = "none" /\ orphan' = FALSE
    /\ UNCHANGED <<stream, commands, runs>>

RunStep ==
    \/ Greet \/ Mark \/ Invalid \/ Look \/ Pause \/ Poll
    \/ Cancel \/ Resume \/ Cancelled \/ Resumed \/ Work \/ Finish \/ End

\* the agent server dies
Crash ==
    /\ StreamCrash
    /\ run' = "none"
    /\ orphan' = (orphan \/ run # "none")
    /\ UNCHANGED <<commands, status, runs>>

-----------------------------------------------------------------------------
Init ==
    /\ StreamInit
    /\ status = "idle" /\ control = "none" /\ run = "none" /\ runs = 0
    /\ command = [k \in Commands |-> "free"]
    /\ orphan = FALSE /\ lost = FALSE

Request == \E k \in Commands : (\E a \in Actions : Accept(k, a)) \/ Post(k) \/ PostFails(k)

\* a socket is refused when the session is archived
Join(v) == status # "archived" /\ Select(v)

Transport == (Aim \/ \E v \in Views : Join(v) \/ Watch(v)) /\ UNCHANGED <<commands, session>>

Next == Request \/ Archive \/ Begin \/ RunStep \/ Crash \/ Transport

Spec == Init /\ [][Next]_vars

\* tasks of the server and of the page run on; a request puts its command into the key
FairSpec ==
    /\ Spec
    /\ WF_vars(RunStep)
    /\ WF_vars(Aim /\ UNCHANGED <<commands, session>>)
    /\ \A v \in Views : WF_vars((Subscribe(v) \/ Deliver(v) \/ Receive(v)) /\ UNCHANGED <<commands, session>>)
    /\ \A k \in Commands : WF_vars(Post(k) \/ PostFails(k))

-----------------------------------------------------------------------------
SessionTypeOK ==
    /\ StreamTypeOK
    /\ status \in {"idle", "running", "paused", "cancelling", "cancelled", "archived"}
    /\ control \in Actions \cup {"none"}
    /\ command \in [Commands -> Actions \cup {"free", "done"}]
    /\ run \in {"none", "greet", "mark", "invalid", "look", "pause", "paused",
                "cancel", "resume", "cancelled", "resumed", "act", "end", "stopped"}
    /\ runs \in 0..MaxRuns
    /\ {orphan, lost} \subseteq BOOLEAN

\* A session without a run is not left running, paused or cancelling, unless
\* its last run returned on an invalid command or died with the server.
BusyIsExplained ==
    run = "none" /\ status \in {"running", "paused", "cancelling"} => orphan

\* An accepted cancellation is acted on: the session does not stay cancelling,
\* whatever the run is doing, unless the key lost a command or the run is gone.
CancelEndsRun == []<>(status # "cancelling" \/ lost \/ orphan)

\* Whatever happens to the run, an open page catches up with the stored events
\* again and again, except for those MissingIsExplained names.
PagesCatchUp == \A v \in Views :
    []<>(Subscribed(v) => 1..last \subseteq Elements(shown[v]) \cup excused[v])
=============================================================================

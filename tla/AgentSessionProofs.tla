-------------------------- MODULE AgentSessionProofs --------------------------
(***************************************************************************)
(* Proofs about AgentSession: with its runs and commands a session still   *)
(* is an EventStream, so what EventStreamProofs shows of the stream holds  *)
(* of the session; and a busy session has a run, or its run has died.      *)
(***************************************************************************)
EXTENDS AgentSession, EventStreamProofs

-----------------------------------------------------------------------------
(* the stream *)

LEMMA EmitStreams == Emit => [StreamNext]_stream
BY DEF Emit, StreamNext

LEMMA StepStreams == [Next]_vars => [StreamNext]_stream
<1> SUFFICES ASSUME [Next]_vars PROVE [StreamNext]_stream
  OBVIOUS
<1>1. CASE Request
  <2>1. UNCHANGED stream
    BY <1>1 DEF Request, Accept, Post, PostFails
  <2> QED
    BY <2>1
<1>2. CASE Archive \/ Begin
  BY <1>2 DEF Archive, Begin
<1>3. CASE RunStep
  <2>1. Emit \/ UNCHANGED stream
    BY <1>3 DEF RunStep, Greet, Mark, Invalid, Look, Pause, Poll, Cancel, Resume, Delete,
                Cancelled, Resumed, Work, Finish, End, EmitThen
  <2> QED
    BY <2>1, EmitStreams
<1>4. CASE Crash
  BY <1>4 DEF Crash, StreamNext
<1>5. CASE Transport
  BY <1>5 DEF Transport, Join, StreamNext
<1>6. CASE UNCHANGED vars
  BY <1>6 DEF vars
<1> QED
  BY <1>1, <1>2, <1>3, <1>4, <1>5, <1>6 DEF Next

\* The session implements the event stream: no run and no command does to the
\* events, the sockets and the pages anything that EventStream does not allow.
THEOREM SessionIsAStream == Spec => StreamSpec
<1>1. Init => StreamInit
  BY DEF Init
<1>2. [Next]_vars => [StreamNext]_stream
  BY StepStreams
<1> QED
  BY <1>1, <1>2, PTL DEF Spec, StreamSpec

-----------------------------------------------------------------------------
(* the session's own variables *)

RunSteps == {"none", "greet", "mark", "invalid", "look", "pause", "paused",
             "cancel", "resume", "cancelled", "resumed", "act", "end", "stopped"}

OwnTypes ==
    /\ status \in {"idle", "running", "paused", "cancelling", "cancelled", "archived"}
    /\ control \in Actions \cup {"none"}
    /\ command \in [Commands -> Actions \cup {"free", "done"}]
    /\ run \in RunSteps
    /\ runs \in 0..MaxRuns
    /\ {orphan, lost} \subseteq BOOLEAN

\* the inductive invariant
SessionInv == OwnTypes /\ BusyIsExplained

LEMMA SessionInvInit == Init => SessionInv
<1> SUFFICES ASSUME Init PROVE SessionInv
  OBVIOUS
<1>1. 0 \in 0..MaxRuns
  BY SessionAssumption
<1> QED
  BY <1>1 DEF Init, SessionInv, OwnTypes, RunSteps, BusyIsExplained

LEMMA SessionInvNext == SessionInv /\ [Next]_vars => SessionInv'
<1> SUFFICES ASSUME SessionInv, [Next]_vars PROVE SessionInv'
  OBVIOUS
<1> USE DEF SessionInv, OwnTypes, BusyIsExplained, commands, session
<1>1. ASSUME NEW k \in Commands, NEW a \in Actions, Accept(k, a) PROVE SessionInv'
  BY <1>1 DEF Accept, Allowed, Target, Actions
<1>2. ASSUME NEW k \in Commands, Post(k) PROVE SessionInv'
  <2>1. (lost \/ \E j \in Commands : j > k /\ command[j] = "done") \in BOOLEAN
    OBVIOUS
  <2> QED
    BY <1>2, <2>1 DEF Post
<1>3. ASSUME NEW k \in Commands, PostFails(k) PROVE SessionInv'
  BY <1>3 DEF PostFails
<1>4. CASE Archive
  BY <1>4 DEF Archive
<1>5. CASE Begin
  <2>1. runs' \in 0..MaxRuns
    BY <1>5, SessionAssumption DEF Begin
  <2> QED
    BY <1>5, <2>1 DEF Begin, RunSteps
<1>6. ASSUME NEW from, NEW to \in RunSteps \ {"none"}, EmitThen(from, to) PROVE SessionInv'
  BY <1>6 DEF EmitThen
<1>7. CASE Greet \/ Pause \/ Cancelled \/ Resumed \/ Work \/ Finish
  BY <1>6, <1>7 DEF Greet, Pause, Cancelled, Resumed, Work, Finish, RunSteps
<1>8. CASE Mark
  BY <1>8 DEF Mark, RunSteps
<1>9. CASE Invalid
  BY <1>9 DEF Invalid, RunSteps
<1>10. CASE Look
  BY <1>10 DEF Look, RunSteps
<1>11. CASE Poll
  BY <1>11 DEF Poll, RunSteps
<1>12. CASE Cancel \/ Resume
  <2>1. lost' \in BOOLEAN
    BY <1>12 DEF Cancel, Resume, Delete
  <2> QED
    BY <1>12, <2>1 DEF Cancel, Resume, Delete, RunSteps
<1>13. CASE End
  BY <1>13 DEF End, EndPlan, EndOther, RunSteps
<1>14. CASE Crash
  <2>1. (orphan \/ run # "none") \in BOOLEAN
    OBVIOUS
  <2> QED
    BY <1>14, <2>1 DEF Crash, RunSteps
<1>15. CASE Transport \/ UNCHANGED vars
  BY <1>15 DEF Transport, vars
<1> QED
  BY <1>1, <1>2, <1>3, <1>4, <1>5, <1>7, <1>8, <1>9, <1>10, <1>11, <1>12, <1>13, <1>14, <1>15
  DEF Next, Request, RunStep

LEMMA SessionInvariant == Spec => []SessionInv
<1>1. Init => SessionInv
  BY SessionInvInit
<1>2. SessionInv /\ [Next]_vars => SessionInv'
  BY SessionInvNext
<1> QED
  BY <1>1, <1>2, PTL DEF Spec

\* A session that is running, paused or cancelling has a run that will end it,
\* or its last run returned on an invalid command or died with the server.
THEOREM BusySessions == Spec => []BusyIsExplained
<1>1. SessionInv => BusyIsExplained
  BY DEF SessionInv
<1> QED
  BY <1>1, SessionInvariant, PTL

\* The variables of the session and of its stream keep their types.
THEOREM SessionTypes == Spec => []SessionTypeOK
<1>1. SessionInv /\ StreamTypeOK => SessionTypeOK
  BY DEF SessionInv, OwnTypes, RunSteps, SessionTypeOK
<1> QED
  BY <1>1, SessionIsAStream, StreamTypes, SessionInvariant, PTL

\* With the session's runs, commands and crashes, no event is missed by an open
\* page for another reason than those the stream allows.
THEOREM SessionShowsItsEvents == Spec => []MissingIsExplained
BY SessionIsAStream, NothingElseIsMissed, PTL

\* With the session's runs, commands and crashes, an event counts as pending for
\* a socket only while it is on its way to the page.
THEOREM SessionOnlyUnheardIsPending == Spec => []PendingIsUnheard
BY SessionIsAStream, OnlyUnheardIsPending, PTL

\* With the session's runs, commands and crashes, a page applies at most one
\* event twice, and none three times.
THEOREM SessionOnlyOneDouble == Spec => []AtMostOneDouble
BY SessionIsAStream, OnlyOneDouble, PTL
=============================================================================

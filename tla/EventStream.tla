----------------------------- MODULE EventStream -----------------------------
(***************************************************************************)
(* The events of one agent session on their way to the pages that show it  *)
(* (append_event, send_event, session_socket and DeliveryState in          *)
(* apps/agent-server/src/workama_agent/main.py, list_events in             *)
(* platform-api, the chat page of apps/web and the app of apps/mobile).    *)
(*                                                                         *)
(* An event is committed, then sent to the sockets subscribed at that      *)
(* moment.  A page reads the stored events over HTTP, opens a socket for   *)
(* those after the last it has, gets a replay of them, and is subscribed.  *)
(* The steps of a page and of the run that emits events interleave at each *)
(* await.  AgentSession adds the run that calls AppendEvent.              *)
(***************************************************************************)
EXTENDS Naturals, Sequences, FiniteSets

CONSTANTS
    Views,         \* page visits, each with one socket
    RestLimit,     \* LIMIT of list_events (500)
    ReplayLimit,   \* LIMIT of the replay statement (5001)
    SnapshotSize,  \* the stored events of a first snapshot (500)
    MaxPending,    \* events sent and not acknowledged (1000)
    MaxEvents      \* bound: events of the session

ASSUME StreamAssumption ==
    /\ {RestLimit, ReplayLimit, SnapshotSize, MaxPending} \subseteq Nat \ {0}
    /\ MaxEvents \in Nat

Seqs == 1..MaxEvents

\* what the socket carries: an event, or the snapshot
Snapshot == 0

\* a socket: how far its handler is, whether its page is the mobile app's, the
\* replay next..upto that is left, the snapshot snap..upto, and who holds
\* DeliveryState.lock between send_json and the bookkeeping
Sockets == [pc : {"new", "loaded", "selected", "hello", "open", "gone"}, mobile : BOOLEAN,
            next : 1..MaxEvents + 1, upto : 0..MaxEvents, snap : 1..MaxEvents + 1,
            lock : {"free", "run", "replay"}]
NewSocket == [pc |-> "new", mobile |-> FALSE, next |-> 1, upto |-> 0, snap |-> 1,
              lock |-> "free"]
Gone == [NewSocket EXCEPT !.pc = "gone"]

VARIABLES
    last,     \* ag_session.last_seq; the rows of ag_event are 1..last
    fresh,    \* the last event is committed and send_event not called yet
    targets,  \* the sockets send_event is still busy with
    socket,
    acked,    \* DeliveryState.last_acked
    pending,  \* DeliveryState.pending
    channel,  \* on the way to the page
    shown,    \* the events the page has applied, in this order
    excused   \* history: events never sent to the page, ignored by it, or forgotten

server == <<last, fresh, targets>>
delivery == <<acked, pending, channel>>
page == <<shown, excused>>
stream == <<server, socket, delivery, page>>

-----------------------------------------------------------------------------
Least(m, n) == IF m < n THEN m ELSE n
Elements(s) == {s[i] : i \in DOMAIN s}
Subscribed(v) == socket[v].pc \in {"hello", "open"}
FromTo(m, n) == [i \in 1..(n + 1 - m) |-> m - 1 + i]
Stored(s) == s.snap..s.upto

Set(v, s) == socket' = [socket EXCEPT ![v] = s]

Quiet == ~fresh /\ targets = {}

\* the run commits an event; it waits until send_event has returned
AppendEvent ==
    /\ Quiet /\ last < MaxEvents
    /\ last' = last + 1
    /\ fresh' = TRUE
    /\ UNCHANGED <<targets, socket, delivery, page>>

\* mutant: a socket is subscribed after its snapshot
AimMutant ==
    /\ fresh
    /\ fresh' = FALSE
    /\ targets' = {v \in Views : socket[v].pc = "open"}
    /\ excused' = [v \in Views |->
         IF socket[v].pc = "selected" /\ last > socket[v].upto
         THEN excused[v] \cup {last} ELSE excused[v]]
    /\ UNCHANGED <<last, socket, delivery, shown>>

\* send_event looks up the subscribers: a socket that has made its SELECT and
\* is not subscribed yet gets the event only if its replay has it
Aim ==
    /\ fresh
    /\ fresh' = FALSE
    /\ targets' = {v \in Views : Subscribed(v)}
    /\ excused' = [v \in Views |->
         IF socket[v].pc = "selected" /\ last > socket[v].upto
         THEN excused[v] \cup {last} ELSE excused[v]]
    /\ UNCHANGED <<last, socket, delivery, shown>>

-----------------------------------------------------------------------------
(* opening a page *)

\* list_events from the start; the last seq becomes the cursor
Load(v) ==
    LET n == Least(last, RestLimit) IN
    /\ socket[v].pc = "new"
    /\ \E app \in BOOLEAN :
         Set(v, [socket[v] EXCEPT !.pc = "loaded", !.mobile = app, !.next = n + 1])
    /\ shown' = [shown EXCEPT ![v] = FromTo(1, n)]
    /\ UNCHANGED <<server, delivery, excused>>

SelectFrom(v, first) ==
    LET after == socket[v].next - 1
        end == Least(last, after + ReplayLimit)
        snapshot == IF end > SnapshotSize THEN end - SnapshotSize + 1 ELSE 1 IN
    /\ socket[v].pc = "loaded"
    /\ IF after = 0
       THEN Set(v, [socket[v] EXCEPT !.pc = "selected", !.next = end + 1, !.upto = end,
                                     !.snap = snapshot])
       ELSE Set(v, [socket[v] EXCEPT !.pc = "selected", !.next = first, !.upto = end,
                                     !.snap = end + 1])
    /\ acked' = [acked EXCEPT ![v] = after]
    /\ excused' = [excused EXCEPT ![v] = @ \cup (end + 1)..last
                      \cup IF after = 0 THEN 1..(snapshot - 1) ELSE {}]
    /\ UNCHANGED <<server, pending, channel, shown>>

\* mutant: the replay is of seq >= after
SelectMutant(v) == SelectFrom(v, IF socket[v].next = 1 THEN 1 ELSE socket[v].next - 1)

\* the SELECTs of session_socket; without a cursor the stored events go into
\* the snapshot and nothing is replayed
Select(v) == SelectFrom(v, socket[v].next)

Subscribe(v) ==
    /\ socket[v].pc = "selected"
    /\ Set(v, [socket[v] EXCEPT !.pc = "hello"])
    /\ UNCHANGED <<server, delivery, page>>

\* connection.ready and session.snapshot, which is empty for a page that has a
\* cursor; live events may be sent before it
Hello(v) ==
    /\ socket[v].pc = "hello"
    /\ Set(v, [socket[v] EXCEPT !.pc = "open"])
    /\ channel' = [channel EXCEPT ![v] = Append(@, Snapshot)]
    /\ UNCHANGED <<server, acked, pending, page>>

-----------------------------------------------------------------------------
(* sending *)

\* send_json of an event, with the lock held
SendJson(v, who, n) ==
    /\ socket[v].lock = "free"
    /\ Set(v, [socket[v] EXCEPT !.lock = who])
    /\ channel' = [channel EXCEPT ![v] = Append(@, n)]
    /\ UNCHANGED <<server, acked, pending, page>>

SendLive(v) == v \in targets /\ SendJson(v, "run", last)

\* mutant: the last event of the replay is not sent
SendReplayMutant(v) ==
    /\ socket[v].pc = "open" /\ socket[v].next < socket[v].upto
    /\ SendJson(v, "replay", socket[v].next)

SendReplay(v) ==
    /\ socket[v].pc = "open" /\ socket[v].next <= socket[v].upto
    /\ SendJson(v, "replay", socket[v].next)

\* the socket is closed and its handler ends; nobody looks at the page any more
Close(v) ==
    /\ Set(v, Gone)
    /\ targets' = targets \ {v}
    /\ acked' = [acked EXCEPT ![v] = 0]
    /\ pending' = [pending EXCEPT ![v] = <<>>]
    /\ channel' = [channel EXCEPT ![v] = <<>>]
    /\ shown' = [shown EXCEPT ![v] = <<>>]
    /\ excused' = [excused EXCEPT ![v] = {}]
    /\ UNCHANGED <<last, fresh>>

\* mutant: a live event moves the replay on
BookQueueMutant(v, queue) ==
    /\ socket[v].lock # "free"
    /\ IF Len(queue) > MaxPending THEN Close(v)
       ELSE /\ pending' = [pending EXCEPT ![v] = queue]
            /\ Set(v, [socket[v] EXCEPT !.lock = "free", !.next = @ + 1])
            /\ targets' = IF socket[v].lock = "run" THEN targets \ {v} ELSE targets
            /\ UNCHANGED <<last, fresh, acked, channel, page>>

BookQueue(v, queue) ==
    /\ socket[v].lock # "free"
    /\ IF Len(queue) > MaxPending THEN Close(v)
       ELSE /\ pending' = [pending EXCEPT ![v] = queue]
            /\ Set(v, [socket[v] EXCEPT !.lock = "free",
                                        !.next = IF socket[v].lock = "replay" THEN @ + 1 ELSE @])
            /\ targets' = IF socket[v].lock = "run" THEN targets \ {v} ELSE targets
            /\ UNCHANGED <<last, fresh, acked, channel, page>>

\* mutant: the acknowledgement may have been faster
BookMutant(v) ==
    LET n == IF socket[v].lock = "run" THEN last ELSE socket[v].next IN
    BookQueue(v, Append(pending[v], n))

\* the rest of _send_to_socket: the event is pending unless its acknowledgement
\* was faster, and a socket with too many pending events is closed
Book(v) ==
    LET n == IF socket[v].lock = "run" THEN last ELSE socket[v].next IN
    BookQueue(v, IF n > acked[v] THEN Append(pending[v], n) ELSE pending[v])

-----------------------------------------------------------------------------
(* the page *)

\* what acknowledge leaves in the queue: it pops the events up to n from the front
Unpopped(q, n) ==
    LET popped == {i \in DOMAIN q : \A j \in 1..i : q[j] <= n} IN
    SubSeq(q, Cardinality(popped) + 1, Len(q))

\* the acknowledgement comes back at once (a later one would only leave the
\* socket more reasons to be closed, as it may be anyway)
Acknowledge(v, n) ==
    IF n <= acked[v] THEN UNCHANGED <<acked, pending>>
    ELSE /\ acked' = [acked EXCEPT ![v] = n]
         /\ pending' = [pending EXCEPT ![v] = Unpopped(@, n)]

\* The mobile app replaces what it shows by the snapshot, an empty one too.  The
\* web page looks for the events in the payload of the message, where the server
\* does not put them, and ignores it.
ApplySnapshot(v) ==
    LET s == socket[v] IN
    IF s.mobile
    THEN /\ shown' = [shown EXCEPT ![v] = FromTo(s.snap, s.upto)]
         /\ excused' = [excused EXCEPT ![v] = @ \cup (Elements(shown[v]) \ Stored(s))]
         /\ Acknowledge(v, IF Stored(s) = {} THEN 0 ELSE s.upto)
    ELSE /\ excused' = [excused EXCEPT ![v] = @ \cup Stored(s)]
         /\ UNCHANGED <<shown, acked, pending>>

\* an event is applied, whether or not the page has it, and acknowledged
Receive(v) ==
    LET n == Head(channel[v]) IN
    /\ Subscribed(v) /\ channel[v] # <<>>
    /\ channel' = [channel EXCEPT ![v] = Tail(@)]
    /\ IF n = Snapshot THEN ApplySnapshot(v)
       ELSE /\ shown' = [shown EXCEPT ![v] = Append(@, n)]
            /\ Acknowledge(v, n)
            /\ UNCHANGED excused
    /\ UNCHANGED <<server, socket>>

\* the page is closed or the connection breaks
Leave(v) == socket[v].pc \notin {"new", "gone"} /\ Close(v)

\* the server process dies: the run is gone with all sockets
StreamCrash ==
    LET open == {v \in Views : socket[v].pc \notin {"new", "loaded"}}
        Forgotten(f, value) == [v \in Views |-> IF v \in open THEN value ELSE f[v]] IN
    /\ fresh' = FALSE /\ targets' = {}
    /\ socket' = Forgotten(socket, Gone)
    /\ acked' = Forgotten(acked, 0)
    /\ pending' = Forgotten(pending, <<>>)
    /\ channel' = Forgotten(channel, <<>>)
    /\ shown' = Forgotten(shown, <<>>)
    /\ excused' = Forgotten(excused, {})
    /\ UNCHANGED last

-----------------------------------------------------------------------------
StreamInit ==
    /\ last = 0 /\ fresh = FALSE /\ targets = {}
    /\ socket = [v \in Views |-> NewSocket]
    /\ acked = [v \in Views |-> 0]
    /\ pending = [v \in Views |-> <<>>]
    /\ channel = [v \in Views |-> <<>>]
    /\ shown = [v \in Views |-> <<>>]
    /\ excused = [v \in Views |-> {}]

Deliver(v) == SendLive(v) \/ SendReplay(v) \/ Book(v) \/ Hello(v)
Watch(v) == Load(v) \/ Subscribe(v) \/ Deliver(v) \/ Receive(v) \/ Leave(v)

StreamNext == AppendEvent \/ Aim \/ StreamCrash \/ \E v \in Views : Select(v) \/ Watch(v)
StreamSpec == StreamInit /\ [][StreamNext]_stream

-----------------------------------------------------------------------------
StreamTypeOK ==
    /\ last \in 0..MaxEvents /\ fresh \in BOOLEAN
    /\ targets \subseteq Views
    /\ socket \in [Views -> Sockets]
    /\ acked \in [Views -> 0..MaxEvents]
    /\ pending \in [Views -> Seq(Seqs)]
    /\ channel \in [Views -> Seq(Seqs \cup {Snapshot})]
    /\ shown \in [Views -> Seq(Seqs)]
    /\ excused \in [Views -> SUBSET Seqs]

\* what an open page will still be sent: the rest of its replay, and the event
\* that is being emitted
Coming(v) ==
    (IF Snapshot \in Elements(channel[v]) \/ socket[v].pc = "hello" THEN Stored(socket[v]) ELSE {})
    \cup Elements(channel[v])
    \cup (socket[v].next)..(socket[v].upto)
    \cup IF fresh \/ v \in targets THEN {last} ELSE {}

\* An open page has, or will be sent, every stored event, except those a limit
\* cut off, those emitted between the SELECT of its socket and its
\* subscription, those in a snapshot the web page ignores and those a snapshot
\* wiped out of the mobile app.
MissingIsExplained == \A v \in Views : Subscribed(v) =>
    1..last \subseteq Elements(shown[v]) \cup Coming(v) \cup excused[v]

\* A page applies at most one event twice, and at most twice: the one that was
\* committed and not sent yet when it subscribed.
AtMostOneDouble == \A v \in Views :
    Len(shown[v]) <= Cardinality(Elements(shown[v])) + 1

\* A socket counts as pending only what has not reached the page yet, so
\* back-pressure never cuts off a page that keeps up, whichever of an
\* acknowledgement and the bookkeeping of its event is first.
PendingIsUnheard == \A v \in Views : Subscribed(v) =>
    Elements(pending[v]) \subseteq Elements(channel[v])
=============================================================================

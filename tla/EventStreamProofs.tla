-------------------------- MODULE EventStreamProofs --------------------------
(***************************************************************************)
(* Proofs about EventStream, for any number of pages and any limits: its   *)
(* types, MissingIsExplained (StreamInv), PendingIsUnheard (QueueInv) and  *)
(* AtMostOneDouble (FlowInv).                                              *)
(***************************************************************************)
EXTENDS EventStream, FiniteSetTheorems, SequenceTheorems, FunctionTheorems, TLAPS

\* what the page has, was sent, or will never be sent
Has(v) == Elements(channel[v]) \cup Elements(shown[v]) \cup excused[v]

\* the events up to n that are in none of the sets of events a socket still sends
Covered(n, s, snapshot, has) == \A k \in 1..n :
    k \in has \/ k \in s.next..s.upto \/ (snapshot /\ k \in Stored(s))

\* A socket at its steps: n is the last event, new says it is not sent yet,
\* aimed that it is being sent to this socket, snapshot that one is on its way.
\* What the lock holder has sent is with the page before the cursor moves on.
SocketOK(n, new, aimed, s, snapshot, has) ==
    /\ aimed => s.pc \in {"hello", "open"}
    /\ s.lock = "run" => aimed /\ n \in has
    /\ s.lock = "replay" => s.pc = "open" /\ s.next <= s.upto /\ s.next \in has
    /\ s.pc = "loaded" => s.next - 1 <= n /\ \A k \in 1..(s.next - 1) : k \in has
    /\ s.pc = "selected" =>
         /\ s.upto <= n /\ Covered(s.upto, s, TRUE, has)
         /\ \A k \in s.upto + 1 .. n : k \in has \/ (new /\ k = n)
    /\ s.pc \in {"hello", "open"} =>
         \/ Covered(n, s, s.pc = "hello" \/ snapshot, has)
         \/ (new \/ aimed) /\ Covered(n - 1, s, s.pc = "hello" \/ snapshot, has)

ViewInv(v) == SocketOK(last, fresh, v \in targets, socket[v],
                       Snapshot \in Elements(channel[v]), Has(v))

\* the inductive invariant
StreamInv ==
    /\ StreamTypeOK
    /\ fresh => targets = {}
    /\ fresh \/ targets # {} => last > 0
    /\ \A v \in Views : ViewInv(v)

-----------------------------------------------------------------------------
(* sequences *)

LEMMA AppendElements ==
    ASSUME NEW S, NEW s \in Seq(S), NEW e \in S
    PROVE  Append(s, e) \in Seq(S) /\ Elements(Append(s, e)) = Elements(s) \cup {e}
<1> DEFINE t == Append(s, e)
<1>1. t \in Seq(S) /\ Len(s) \in Nat /\ DOMAIN s = 1..Len(s) /\ DOMAIN t = 1..(Len(s) + 1)
  OBVIOUS
<1>2. (\A i \in 1..Len(s) : t[i] = s[i]) /\ t[Len(s) + 1] = e
  OBVIOUS
<1> HIDE DEF t
<1>3. ASSUME NEW x \in Elements(t) PROVE x \in Elements(s) \cup {e}
  <2>1. PICK i \in 1..(Len(s) + 1) : x = t[i]
    BY <1>1 DEF Elements
  <2>2. i \in 1..Len(s) \/ i = Len(s) + 1
    BY <1>1
  <2> QED
    BY <1>1, <1>2, <2>1, <2>2 DEF Elements
<1>4. ASSUME NEW x \in Elements(s) PROVE x \in Elements(t)
  <2>1. PICK i \in 1..Len(s) : x = s[i]
    BY <1>1 DEF Elements
  <2>2. i \in 1..(Len(s) + 1)
    BY <1>1
  <2> QED
    BY <1>1, <1>2, <2>1, <2>2 DEF Elements
<1>5. e \in Elements(t)
  <2>1. Len(s) + 1 \in 1..(Len(s) + 1)
    BY <1>1
  <2> QED
    BY <1>1, <1>2, <2>1 DEF Elements
<1>6. t \in Seq(S) /\ Elements(t) = Elements(s) \cup {e}
  BY <1>1, <1>3, <1>4, <1>5
<1> QED
  BY <1>6 DEF t

LEMMA TailElements ==
    ASSUME NEW S, NEW s \in Seq(S), s # <<>>
    PROVE  /\ Tail(s) \in Seq(S) /\ Head(s) \in S
           /\ Elements(s) = Elements(Tail(s)) \cup {Head(s)}
<1>1. Len(s) \in Nat /\ Len(s) > 0 /\ Tail(s) \in Seq(S) /\ Head(s) = s[1] /\ s[1] \in S
  OBVIOUS
<1>2. DOMAIN s = 1..Len(s) /\ DOMAIN Tail(s) = 1..(Len(s) - 1)
  OBVIOUS
<1>3. \A i \in 1..(Len(s) - 1) : Tail(s)[i] = s[i + 1]
  OBVIOUS
<1>4. ASSUME NEW e \in Elements(s) PROVE e \in Elements(Tail(s)) \cup {Head(s)}
  <2>1. PICK i \in 1..Len(s) : e = s[i]
    BY <1>2 DEF Elements
  <2>2. CASE i = 1
    BY <1>1, <2>1, <2>2
  <2>3. CASE i # 1
    <3>1. i - 1 \in 1..(Len(s) - 1) /\ Tail(s)[i - 1] = s[i]
      BY <1>1, <1>3, <2>3
    <3> QED
      BY <1>2, <2>1, <3>1 DEF Elements
  <2> QED
    BY <2>2, <2>3
<1>5. ASSUME NEW e \in Elements(Tail(s)) \cup {Head(s)} PROVE e \in Elements(s)
  <2>1. CASE e = Head(s)
    BY <1>1, <1>2, <2>1 DEF Elements
  <2>2. CASE e \in Elements(Tail(s))
    <3>1. PICK i \in 1..(Len(s) - 1) : e = Tail(s)[i]
      BY <1>2, <2>2 DEF Elements
    <3>2. i + 1 \in 1..Len(s) /\ e = s[i + 1]
      BY <1>1, <1>3, <3>1
    <3> QED
      BY <1>2, <3>2 DEF Elements
  <2> QED
    BY <2>1, <2>2
<1> QED
  BY <1>1, <1>4, <1>5

LEMMA FromToElements ==
    ASSUME NEW m \in Nat, NEW n \in Nat, m > 0, NEW S, m..n \subseteq S
    PROVE  FromTo(m, n) \in Seq(S) /\ Elements(FromTo(m, n)) = m..n
<1> DEFINE size == IF n + 1 >= m THEN n + 1 - m ELSE 0
<1>1. size \in Nat /\ 1..(n + 1 - m) = 1..size
  OBVIOUS
<1>2. \A i \in 1..size : m - 1 + i \in m..n
  OBVIOUS
<1>3. FromTo(m, n) = [i \in 1..size |-> m - 1 + i]
  BY <1>1 DEF FromTo
<1> HIDE DEF size
<1>4. FromTo(m, n) \in Seq(S)
  BY <1>1, <1>2, <1>3
<1>5. ASSUME NEW k \in m..n PROVE k \in Elements(FromTo(m, n))
  <2>1. k - m + 1 \in 1..size /\ m - 1 + (k - m + 1) = k
    BY DEF size
  <2> QED
    BY <1>3, <2>1 DEF Elements
<1>6. Elements(FromTo(m, n)) \subseteq m..n
  BY <1>2, <1>3 DEF Elements
<1> QED
  BY <1>4, <1>5, <1>6

LEMMA UnpoppedType ==
    ASSUME NEW S, NEW q \in Seq(S), NEW n
    PROVE  Unpopped(q, n) \in Seq(S)
<1> DEFINE popped == {i \in DOMAIN q : \A j \in 1..i : q[j] <= n}
<1>1. Len(q) \in Nat /\ DOMAIN q = 1..Len(q)
  OBVIOUS
<1>2. IsFiniteSet(1..Len(q)) /\ Cardinality(1..Len(q)) = Len(q)
  <2>1. 1 \in Int /\ Len(q) \in Int /\ (IF 1 > Len(q) THEN 0 ELSE Len(q) - 1 + 1) = Len(q)
    BY <1>1
  <2> QED
    BY <2>1, FS_Interval
<1>3. Cardinality(popped) \in Nat /\ Cardinality(popped) <= Len(q)
  <2>1. popped \subseteq 1..Len(q)
    BY <1>1
  <2>2. IsFiniteSet(popped) /\ Cardinality(popped) <= Len(q)
    BY <1>2, <2>1, FS_Subset
  <2> QED
    BY <2>2, FS_CardinalityType
<1>4. Unpopped(q, n) = SubSeq(q, Cardinality(popped) + 1, Len(q))
  BY DEF Unpopped
<1> HIDE DEF popped
<1> QED
  BY <1>1, <1>3, <1>4

-----------------------------------------------------------------------------
(* types *)

LEMMA ChosenSockets ==
    ASSUME NEW S, NEW v \in Views, NEW f \in [Views -> S], NEW e \in S
    PROVE  [f EXCEPT ![v] = e] \in [Views -> S]
OBVIOUS

LEMMA InitialTypes == StreamInit => StreamTypeOK
<1> SUFFICES ASSUME StreamInit PROVE StreamTypeOK
  OBVIOUS
<1> USE StreamAssumption DEF StreamInit, Seqs, Snapshot
<1>1. NewSocket \in Sockets
  BY DEF NewSocket, Sockets
<1>2. socket \in [Views -> Sockets]
  BY <1>1
<1>3. <<>> \in Seq(Seqs) /\ <<>> \in Seq(Seqs \cup {Snapshot})
  OBVIOUS
<1>4. /\ pending \in [Views -> Seq(Seqs)] /\ channel \in [Views -> Seq(Seqs \cup {Snapshot})]
      /\ shown \in [Views -> Seq(Seqs)] /\ excused \in [Views -> SUBSET Seqs]
  BY <1>3
<1>5. 0 \in 0..MaxEvents
  OBVIOUS
<1>6. last \in 0..MaxEvents /\ acked \in [Views -> 0..MaxEvents]
  BY <1>5
<1>7. fresh \in BOOLEAN /\ targets \subseteq Views
  OBVIOUS
<1> QED
  BY <1>2, <1>4, <1>6, <1>7 DEF StreamTypeOK

LEMMA ViewTypes ==
    ASSUME StreamInv, NEW v \in Views
    PROVE  /\ last \in Nat /\ last <= MaxEvents /\ MaxEvents \in Nat
           /\ socket[v] \in Sockets
           /\ socket[v].next \in Nat \ {0} /\ socket[v].next <= MaxEvents + 1
           /\ socket[v].upto \in Nat /\ socket[v].upto <= MaxEvents
           /\ socket[v].snap \in Nat \ {0} /\ socket[v].snap <= MaxEvents + 1
           /\ acked[v] \in 0..MaxEvents
           /\ pending[v] \in Seq(Seqs) /\ shown[v] \in Seq(Seqs)
           /\ channel[v] \in Seq(Seqs \cup {Snapshot}) /\ excused[v] \subseteq Seqs
<1> USE StreamAssumption DEF StreamInv, StreamTypeOK
<1>1. MaxEvents \in Nat /\ last \in 0..MaxEvents /\ socket[v] \in Sockets
  OBVIOUS
<1>2. socket[v].next \in 1..MaxEvents + 1 /\ socket[v].upto \in 0..MaxEvents
      /\ socket[v].snap \in 1..MaxEvents + 1
  BY <1>1 DEF Sockets
<1>3. acked[v] \in 0..MaxEvents /\ pending[v] \in Seq(Seqs) /\ shown[v] \in Seq(Seqs)
  OBVIOUS
<1>4. channel[v] \in Seq(Seqs \cup {Snapshot}) /\ excused[v] \subseteq Seqs
  OBVIOUS
<1> QED
  BY <1>1, <1>2, <1>3, <1>4

\* a view whose part of the state stays keeps its part of the invariant
LEMMA Undisturbed ==
    ASSUME NEW w \in Views, ViewInv(w),
           last' = last, fresh' = fresh, (w \in targets') <=> (w \in targets),
           socket'[w] = socket[w], channel'[w] = channel[w],
           shown'[w] = shown[w], excused'[w] = excused[w]
    PROVE  ViewInv(w)'
BY DEF ViewInv, Has, SocketOK, Covered, Stored

LEMMA AppendEventKeeps ==
    ASSUME StreamInv, AppendEvent
    PROVE  StreamInv'
<1> USE DEF AppendEvent, Quiet, server, delivery, page
<1>1. last \in Nat /\ MaxEvents \in Nat /\ last < MaxEvents /\ last' = last + 1
  BY StreamAssumption DEF StreamInv, StreamTypeOK
<1>2. StreamTypeOK'
  <2>1. last' \in 0..MaxEvents /\ fresh' \in BOOLEAN
    BY <1>1
  <2> QED
    BY <2>1 DEF StreamInv, StreamTypeOK
<1>3. ASSUME NEW v \in Views PROVE ViewInv(v)'
  <2>1. socket' = socket /\ Has(v)' = Has(v) /\ channel' = channel
    BY DEF Has
  <2>2. ViewInv(v) /\ ~(v \in targets) /\ ~(v \in targets')
    BY DEF StreamInv
  <2> QED
    BY <1>1, <2>1, <2>2, ViewTypes DEF ViewInv, SocketOK, Covered, Stored
<1>4. (fresh' => targets' = {}) /\ last' > 0
  BY <1>1
<1> QED
  BY <1>2, <1>3, <1>4 DEF StreamInv

LEMMA AimKeeps ==
    ASSUME StreamInv, Aim
    PROVE  StreamInv'
<1> USE DEF Aim, delivery
<1>1. last \in Nat /\ last \in Seqs
  BY StreamAssumption DEF StreamInv, StreamTypeOK, Seqs
<1>2. StreamTypeOK'
  <2>1. excused' \in [Views -> SUBSET Seqs]
    BY <1>1 DEF StreamInv, StreamTypeOK
  <2> QED
    BY <2>1 DEF StreamInv, StreamTypeOK
<1>3. ASSUME NEW v \in Views PROVE ViewInv(v)'
  <2>1. /\ last' = last /\ socket' = socket /\ channel' = channel /\ shown' = shown
        /\ (v \in targets') <=> Subscribed(v)
        /\ ~(v \in targets)
    BY DEF StreamInv
  <2>3. excused'[v] = IF socket[v].pc = "selected" /\ last > socket[v].upto
                      THEN excused[v] \cup {last} ELSE excused[v]
    OBVIOUS
  <2>4. /\ Has(v) \subseteq Has(v)'
        /\ socket[v].pc = "selected" /\ last > socket[v].upto => last \in Has(v)'
    BY <2>1, <2>3 DEF Has
  <2>2. ViewInv(v)
    BY DEF StreamInv
  <2> QED
    BY <1>1, <2>1, <2>2, <2>4, ViewTypes DEF ViewInv, SocketOK, Covered, Stored, Subscribed
<1> QED
  BY <1>1, <1>2, <1>3 DEF StreamInv

-----------------------------------------------------------------------------
(* the steps of one view *)

\* nothing but what belongs to the view changes
OnlyView(v) ==
    /\ last' = last /\ fresh' = fresh
    /\ targets' = targets \/ targets' = targets \ {v}
    /\ \A w \in Views \ {v} : /\ socket'[w] = socket[w] /\ channel'[w] = channel[w]
                              /\ shown'[w] = shown[w] /\ excused'[w] = excused[w]

LEMMA OneView ==
    ASSUME StreamInv, NEW v \in Views, OnlyView(v), StreamTypeOK', ViewInv(v)'
    PROVE  StreamInv'
<1>1. ASSUME NEW w \in Views PROVE ViewInv(w)'
  <2>1. CASE w = v
    BY <2>1
  <2>2. CASE w # v
    <3>1. ViewInv(w) /\ last' = last /\ fresh' = fresh /\ ((w \in targets') <=> (w \in targets))
      BY <2>2 DEF StreamInv, OnlyView
    <3>2. /\ socket'[w] = socket[w] /\ channel'[w] = channel[w]
          /\ shown'[w] = shown[w] /\ excused'[w] = excused[w]
      BY <2>2 DEF OnlyView
    <3> QED
      BY <3>1, <3>2, Undisturbed
  <2> QED
    BY <2>1, <2>2
<1>2. (fresh' => targets' = {}) /\ (fresh' \/ targets' # {} => last' > 0)
  BY DEF StreamInv, OnlyView
<1> QED
  BY <1>1, <1>2 DEF StreamInv

LEMMA LoadKeeps ==
    ASSUME StreamInv, NEW v \in Views, Load(v)
    PROVE  StreamInv'
<1> DEFINE n == Least(last, RestLimit)
<1> USE ViewTypes
<1>1. n \in Nat /\ n <= last /\ n + 1 \in 1..MaxEvents + 1 /\ 1..n \subseteq Seqs
  BY StreamAssumption DEF Least, Seqs
<1>2. PICK app \in BOOLEAN :
        socket' = [socket EXCEPT ![v] = [socket[v] EXCEPT !.pc = "loaded", !.mobile = app,
                                                          !.next = n + 1]]
  BY DEF Load, Set
<1>3. /\ socket[v].pc = "new" /\ shown' = [shown EXCEPT ![v] = FromTo(1, n)]
      /\ UNCHANGED <<server, delivery, excused>>
  BY DEF Load
<1> HIDE DEF n
<1>4. FromTo(1, n) \in Seq(Seqs) /\ Elements(FromTo(1, n)) = 1..n
  BY <1>1, FromToElements
<1>5. [socket[v] EXCEPT !.pc = "loaded", !.mobile = app, !.next = n + 1] \in Sockets
  BY <1>1 DEF Sockets
<1>6. socket' \in [Views -> Sockets] /\ shown' \in [Views -> Seq(Seqs)]
  BY <1>2, <1>3, <1>4, <1>5 DEF StreamInv, StreamTypeOK
<1>7. StreamTypeOK'
  BY <1>3, <1>6 DEF StreamInv, StreamTypeOK, server, delivery
<1>8. OnlyView(v)
  BY <1>2, <1>3 DEF OnlyView, StreamInv, StreamTypeOK, server, delivery
<1>9. ViewInv(v)'
  <2>1. shown'[v] = FromTo(1, n) /\ last' = last /\ targets' = targets
    BY <1>3 DEF StreamInv, StreamTypeOK, server, delivery
  <2>2. socket'[v].pc = "loaded" /\ socket'[v].next = n + 1 /\ socket'[v].lock = socket[v].lock
    BY <1>2, <1>5 DEF StreamInv, StreamTypeOK, Sockets
  <2>3. 1..n \subseteq Has(v)'
    BY <1>4, <2>1 DEF Has
  <2>4. ViewInv(v)
    BY DEF StreamInv
  <2> QED
    BY <1>1, <1>3, <2>1, <2>2, <2>3, <2>4 DEF ViewInv, SocketOK
<1> QED
  BY <1>7, <1>8, <1>9, OneView

LEMMA SelectKeeps ==
    ASSUME StreamInv, NEW v \in Views, Select(v)
    PROVE  StreamInv'
<1> DEFINE after == socket[v].next - 1
           end == Least(last, after + ReplayLimit)
           first == IF end > SnapshotSize THEN end - SnapshotSize + 1 ELSE 1
           s == IF after = 0
                THEN [socket[v] EXCEPT !.pc = "selected", !.next = end + 1, !.upto = end,
                                       !.snap = first]
                ELSE [socket[v] EXCEPT !.pc = "selected", !.next = socket[v].next,
                                       !.upto = end, !.snap = end + 1]
           gone == ((end + 1)..last) \cup (IF after = 0 THEN 1..(first - 1) ELSE {})
<1> USE ViewTypes
<1>1. /\ socket[v].pc = "loaded" /\ UNCHANGED <<server, pending, channel, shown>>
      /\ socket' = [socket EXCEPT ![v] = s]
      /\ acked' = [acked EXCEPT ![v] = after]
      /\ excused' = [excused EXCEPT ![v] = @ \cup gone]
  BY DEF Select, SelectFrom, Set
<1>2. after \in Nat /\ after <= last /\ \A k \in 1..after : k \in Has(v)
  <2>1. ViewInv(v)
    BY DEF StreamInv
  <2>2. socket[v].next - 1 <= last /\ \A k \in 1..(socket[v].next - 1) : k \in Has(v)
    BY <1>1, <2>1 DEF ViewInv, SocketOK
  <2> QED
    BY <2>2
<1>3. end \in Nat /\ after <= end /\ end <= last
  BY <1>2, StreamAssumption, SMTT(20) DEF Least
<1>4. first \in Nat \ {0} /\ first <= end + 1
  BY <1>3, StreamAssumption
<1>5. gone \subseteq Seqs
  BY <1>2, <1>3, <1>4 DEF Seqs
<1>6. /\ s \in Sockets /\ s.pc = "selected" /\ s.upto = end /\ s.lock = socket[v].lock
      /\ (after = 0 => s.next = end + 1 /\ s.snap = first)
      /\ (after # 0 => s.next = after + 1 /\ s.snap = end + 1)
  <2>1. end + 1 \in 1..MaxEvents + 1 /\ end \in 0..MaxEvents /\ first \in 1..MaxEvents + 1
    BY <1>3, <1>4
  <2>2. s \in Sockets
    BY <2>1 DEF Sockets
  <2> QED
    BY <2>2 DEF Sockets
<1> HIDE DEF s, gone
<1>7. StreamTypeOK'
  <2>1. after \in 0..MaxEvents
    BY <1>2
  <2>2. excused[v] \cup gone \in SUBSET Seqs
    BY <1>5
  <2>3. socket' \in [Views -> Sockets] /\ excused' \in [Views -> SUBSET Seqs]
    BY <1>1, <1>6, <2>2 DEF StreamInv, StreamTypeOK
  <2>4. acked' \in [Views -> 0..MaxEvents]
    BY <1>1, <2>1 DEF StreamInv, StreamTypeOK
  <2> QED
    BY <1>1, <2>3, <2>4 DEF StreamInv, StreamTypeOK, server
<1>8. OnlyView(v)
  BY <1>1 DEF OnlyView, StreamInv, StreamTypeOK, server
<1>9. ViewInv(v)'
  <2>1. /\ last' = last /\ fresh' = fresh /\ targets' = targets /\ socket'[v] = s
        /\ excused'[v] = excused[v] \cup gone /\ shown' = shown /\ channel' = channel
    BY <1>1 DEF StreamInv, StreamTypeOK, server
  <2>2. Has(v) \subseteq Has(v)' /\ gone \subseteq Has(v)'
    BY <2>1 DEF Has
  <2>3. ViewInv(v)
    BY DEF StreamInv
  <2>4. \A k \in end + 1 .. last : k \in Has(v)'
    BY <2>2 DEF gone
  <2>5. Covered(end, s, TRUE, Has(v)')
    <3>1. CASE after = 0
      <4>1. 1..(first - 1) \subseteq Has(v)'
        BY <2>2, <3>1 DEF gone
      <4> QED
        BY <1>3, <1>4, <1>6, <3>1, <4>1 DEF Covered, Stored
    <3>2. CASE after # 0
      BY <1>2, <1>3, <1>6, <2>2, <3>2 DEF Covered, Stored
    <3> QED
      BY <3>1, <3>2
  <2> QED
    BY <1>1, <1>3, <1>6, <2>1, <2>3, <2>4, <2>5 DEF ViewInv, SocketOK
<1> QED
  BY <1>7, <1>8, <1>9, OneView

LEMMA SubscribeKeeps ==
    ASSUME StreamInv, NEW v \in Views, Subscribe(v)
    PROVE  StreamInv'
<1> DEFINE s == [socket[v] EXCEPT !.pc = "hello"]
<1> USE ViewTypes
<1>1. /\ socket[v].pc = "selected" /\ socket' = [socket EXCEPT ![v] = s]
      /\ UNCHANGED <<server, delivery, page>>
  BY DEF Subscribe, Set
<1>2. /\ s \in Sockets /\ s.pc = "hello" /\ s.next = socket[v].next /\ s.upto = socket[v].upto
      /\ s.snap = socket[v].snap /\ s.lock = socket[v].lock
  BY DEF Sockets
<1> HIDE DEF s
<1>3. StreamTypeOK'
  BY <1>1, <1>2 DEF StreamInv, StreamTypeOK, server, delivery, page
<1>4. OnlyView(v)
  BY <1>1 DEF OnlyView, StreamInv, StreamTypeOK, server, delivery, page
<1>5. ViewInv(v)'
  <2>1. /\ last' = last /\ fresh' = fresh /\ targets' = targets /\ socket'[v] = s
        /\ Has(v)' = Has(v) /\ channel' = channel
    BY <1>1 DEF StreamInv, StreamTypeOK, server, delivery, page, Has
  <2>2. ViewInv(v)
    BY DEF StreamInv
  <2>3. /\ ~(v \in targets) /\ s.lock = "free" /\ s.upto <= last
        /\ \A k \in 1..s.upto : k \in Has(v) \/ k \in s.next..s.upto \/ k \in Stored(s)
        /\ \A k \in s.upto + 1 .. last : k \in Has(v) \/ (fresh /\ k = last)
    BY <1>1, <1>2, <2>2 DEF ViewInv, SocketOK, Covered, Stored, Sockets
  <2>4. \/ Covered(last, s, TRUE, Has(v))
        \/ fresh /\ Covered(last - 1, s, TRUE, Has(v))
    BY <1>2, <2>3 DEF Covered
  <2> QED
    BY <1>2, <2>1, <2>3, <2>4 DEF ViewInv, SocketOK
<1> QED
  BY <1>3, <1>4, <1>5, OneView

LEMMA HelloKeeps ==
    ASSUME StreamInv, NEW v \in Views, Hello(v)
    PROVE  StreamInv'
<1> DEFINE s == [socket[v] EXCEPT !.pc = "open"]
           sent == Append(channel[v], Snapshot)
<1> USE ViewTypes
<1>1. /\ socket[v].pc = "hello" /\ socket' = [socket EXCEPT ![v] = s]
      /\ channel' = [channel EXCEPT ![v] = sent]
      /\ UNCHANGED <<server, acked, pending, page>>
  BY DEF Hello, Set
<1>2. /\ s \in Sockets /\ s.pc = "open" /\ s.next = socket[v].next /\ s.upto = socket[v].upto
      /\ s.snap = socket[v].snap /\ s.lock = socket[v].lock
  BY DEF Sockets
<1>3. /\ sent \in Seq(Seqs \cup {Snapshot})
      /\ Elements(sent) = Elements(channel[v]) \cup {Snapshot}
  BY AppendElements
<1> HIDE DEF s, sent
<1>4. StreamTypeOK'
  <2>1. channel' \in [Views -> Seq(Seqs \cup {Snapshot})]
    BY <1>1, <1>3 DEF StreamInv, StreamTypeOK
  <2> QED
    BY <1>1, <1>2, <2>1 DEF StreamInv, StreamTypeOK, server, page
<1>5. OnlyView(v)
  BY <1>1 DEF OnlyView, StreamInv, StreamTypeOK, server, page
<1>6. ViewInv(v)'
  <2>1. /\ last' = last /\ fresh' = fresh /\ targets' = targets /\ socket'[v] = s
        /\ channel'[v] = sent /\ shown' = shown /\ excused' = excused
    BY <1>1 DEF StreamInv, StreamTypeOK, server, page
  <2>2. Has(v) \subseteq Has(v)' /\ Snapshot \in Elements(channel'[v])
    BY <1>3, <2>1 DEF Has
  <2>3. ViewInv(v)
    BY DEF StreamInv
  <2> QED
    BY <1>1, <1>2, <2>1, <2>2, <2>3 DEF ViewInv, SocketOK, Covered, Stored
<1> QED
  BY <1>4, <1>5, <1>6, OneView

\* either sender puts an event on the way and takes the lock
LEMMA SendKeeps ==
    ASSUME StreamInv, NEW v \in Views, SendLive(v) \/ SendReplay(v)
    PROVE  StreamInv'
<1>1. PICK who \in {"run", "replay"}, n \in Seqs :
        /\ SendJson(v, who, n)
        /\ who = "run" => v \in targets /\ n = last
        /\ who = "replay" => /\ socket[v].pc = "open" /\ socket[v].next <= socket[v].upto
                             /\ n = socket[v].next
  <2>1. CASE SendLive(v)
    <3>1. last \in Seqs /\ v \in targets
      BY <2>1, ViewTypes DEF StreamInv, SendLive, Seqs
    <3> QED
      BY <2>1, <3>1 DEF SendLive
  <2>2. CASE SendReplay(v)
    <3>1. socket[v].next \in Seqs
      BY <2>2, ViewTypes DEF SendReplay, Seqs
    <3> QED
      BY <2>2, <3>1 DEF SendReplay
  <2> QED
    BY <2>1, <2>2
<1> DEFINE s == [socket[v] EXCEPT !.lock = who]
           sent == Append(channel[v], n)
<1> USE ViewTypes
<1>2. /\ socket[v].lock = "free" /\ socket' = [socket EXCEPT ![v] = s]
      /\ channel' = [channel EXCEPT ![v] = sent]
      /\ UNCHANGED <<server, acked, pending, page>>
  BY <1>1 DEF SendJson, Set
<1>3. /\ s \in Sockets /\ s.pc = socket[v].pc /\ s.next = socket[v].next
      /\ s.upto = socket[v].upto /\ s.snap = socket[v].snap /\ s.lock = who
  BY DEF Sockets
<1>4. /\ sent \in Seq(Seqs \cup {Snapshot})
      /\ Elements(sent) = Elements(channel[v]) \cup {n}
  <2>1. n \in Seqs \cup {Snapshot}
    BY <1>1
  <2> QED
    BY <2>1, AppendElements
<1> HIDE DEF s, sent
<1>5. StreamTypeOK'
  <2>1. channel' \in [Views -> Seq(Seqs \cup {Snapshot})]
    BY <1>2, <1>4 DEF StreamInv, StreamTypeOK
  <2> QED
    BY <1>2, <1>3, <2>1 DEF StreamInv, StreamTypeOK, server, page
<1>6. OnlyView(v)
  BY <1>2 DEF OnlyView, StreamInv, StreamTypeOK, server, page
<1>7. ViewInv(v)'
  <2>1. /\ last' = last /\ fresh' = fresh /\ targets' = targets /\ socket'[v] = s
        /\ channel'[v] = sent /\ shown' = shown /\ excused' = excused
    BY <1>2 DEF StreamInv, StreamTypeOK, server, page
  <2>2. /\ Has(v) \subseteq Has(v)' /\ n \in Has(v)'
        /\ Snapshot \in Elements(channel[v]) => Snapshot \in Elements(channel'[v])
    BY <1>4, <2>1 DEF Has
  <2>3. ViewInv(v)
    BY DEF StreamInv
  <2> QED
    BY <1>1, <1>2, <1>3, <2>1, <2>2, <2>3 DEF ViewInv, SocketOK, Covered, Stored
<1> QED
  BY <1>5, <1>6, <1>7, OneView

LEMMA CloseKeeps ==
    ASSUME StreamInv, NEW v \in Views, Close(v)
    PROVE  StreamInv'
<1>1. /\ Gone \in Sockets /\ Gone.pc = "gone" /\ Gone.lock = "free"
      /\ 0 \in 0..MaxEvents /\ {} \in SUBSET Seqs
      /\ <<>> \in Seq(Seqs) /\ <<>> \in Seq(Seqs \cup {Snapshot})
  <2>1. MaxEvents \in Nat
    BY StreamAssumption
  <2>2. NewSocket \in Sockets
    BY <2>1 DEF NewSocket, Sockets
  <2>3. Gone \in Sockets /\ Gone.pc = "gone" /\ Gone.lock = "free"
    BY <2>2 DEF Gone, Sockets, NewSocket
  <2>4. 0 \in 0..MaxEvents /\ {} \in SUBSET Seqs
    BY <2>1
  <2> QED
    BY <2>3, <2>4
<1>2. /\ socket' = [socket EXCEPT ![v] = Gone] /\ targets' = targets \ {v}
      /\ acked' = [acked EXCEPT ![v] = 0] /\ pending' = [pending EXCEPT ![v] = <<>>]
      /\ channel' = [channel EXCEPT ![v] = <<>>] /\ shown' = [shown EXCEPT ![v] = <<>>]
      /\ excused' = [excused EXCEPT ![v] = {}] /\ UNCHANGED <<last, fresh>>
  BY DEF Close, Set
<1>3. StreamTypeOK'
  <2>1. socket' \in [Views -> Sockets] /\ acked' \in [Views -> 0..MaxEvents]
    BY <1>1, <1>2 DEF StreamInv, StreamTypeOK
  <2>2. pending' \in [Views -> Seq(Seqs)] /\ channel' \in [Views -> Seq(Seqs \cup {Snapshot})]
    BY <1>1, <1>2 DEF StreamInv, StreamTypeOK
  <2>3. shown' \in [Views -> Seq(Seqs)] /\ excused' \in [Views -> SUBSET Seqs]
    BY <1>1, <1>2 DEF StreamInv, StreamTypeOK
  <2> QED
    BY <1>2, <2>1, <2>2, <2>3 DEF StreamInv, StreamTypeOK
<1>4. OnlyView(v)
  BY <1>2 DEF OnlyView, StreamInv, StreamTypeOK
<1>5. ViewInv(v)'
  <2>1. socket'[v] = Gone /\ ~(v \in targets')
    BY <1>2 DEF StreamInv, StreamTypeOK
  <2> QED
    BY <1>1, <2>1 DEF ViewInv, SocketOK
<1> QED
  BY <1>3, <1>4, <1>5, OneView

\* a socket stays as it should be when the event it has sent is booked: a live
\* one, or the replayed one its cursor is at
LEMMA BookedSocket ==
    ASSUME NEW n \in Nat, NEW new, NEW aimed, ~aimed, NEW snapshot, NEW has,
           NEW o \in Sockets, NEW s \in Sockets,
           o.next \in Nat, o.upto \in Nat, o.snap \in Nat,
           SocketOK(n, new, TRUE, o, snapshot, has), o.lock = "run",
           s.pc = o.pc, s.next = o.next, s.upto = o.upto, s.snap = o.snap, s.lock = "free"
    PROVE  SocketOK(n, new, aimed, s, snapshot, has)
<1>1. n \in has /\ o.pc \in {"hello", "open"}
  BY DEF SocketOK
<1>2. ASSUME NEW t, Covered(n, o, t, has) \/ Covered(n - 1, o, t, has)
      PROVE  Covered(n, s, t, has)
  BY <1>1, <1>2 DEF Covered, Stored
<1>3. Covered(n, s, s.pc = "hello" \/ snapshot, has)
  BY <1>1, <1>2 DEF SocketOK
<1> QED
  BY <1>1, <1>3 DEF SocketOK

LEMMA ReplayedSocket ==
    ASSUME NEW n \in Nat, NEW new, NEW aimed, NEW snapshot, NEW has,
           NEW o \in Sockets, NEW s \in Sockets,
           o.next \in Nat, o.upto \in Nat, o.snap \in Nat,
           SocketOK(n, new, aimed, o, snapshot, has), o.lock = "replay",
           s.pc = o.pc, s.next = o.next + 1, s.upto = o.upto, s.snap = o.snap, s.lock = "free"
    PROVE  SocketOK(n, new, aimed, s, snapshot, has)
<1>1. o.next \in has /\ o.pc = "open"
  BY DEF SocketOK
<1>2. ASSUME NEW t, NEW m \in Int, Covered(m, o, t, has)
      PROVE  Covered(m, s, t, has)
  BY <1>1, <1>2 DEF Covered, Stored
<1>3. \/ Covered(n, s, s.pc = "hello" \/ snapshot, has)
      \/ (new \/ aimed) /\ Covered(n - 1, s, s.pc = "hello" \/ snapshot, has)
  BY <1>1, <1>2 DEF SocketOK
<1> QED
  BY <1>1, <1>3 DEF SocketOK


LEMMA BookQueueKeeps ==
    ASSUME StreamInv, NEW v \in Views, NEW queue \in Seq(Seqs), BookQueue(v, queue)
    PROVE  StreamInv'
<1> DEFINE s == [socket[v] EXCEPT !.lock = "free",
                                  !.next = IF socket[v].lock = "replay" THEN @ + 1 ELSE @]
<1>1. CASE Len(queue) > MaxPending
  BY <1>1, CloseKeeps DEF BookQueue
<1>2. CASE ~(Len(queue) > MaxPending)
  <2> USE ViewTypes
  <2>1. /\ socket[v].lock # "free" /\ pending' = [pending EXCEPT ![v] = queue]
        /\ socket' = [socket EXCEPT ![v] = s]
        /\ targets' = IF socket[v].lock = "run" THEN targets \ {v} ELSE targets
        /\ UNCHANGED <<last, fresh, acked, channel, page>>
    BY <1>2 DEF BookQueue, Set
  <2>2. ViewInv(v)
    BY DEF StreamInv
  <2>3. socket[v].lock = "replay" => socket[v].next <= socket[v].upto
    BY <2>2 DEF ViewInv, SocketOK
  <2>4. /\ s \in Sockets /\ s.pc = socket[v].pc /\ s.upto = socket[v].upto
        /\ s.snap = socket[v].snap /\ s.lock = "free"
        /\ s.next = IF socket[v].lock = "replay" THEN socket[v].next + 1 ELSE socket[v].next
    <3>1. (IF socket[v].lock = "replay" THEN socket[v].next + 1 ELSE socket[v].next)
            \in 1..MaxEvents + 1
      BY <2>3
    <3> QED
      BY <3>1 DEF Sockets
  <2>5. socket[v].lock = "run" \/ socket[v].lock = "replay"
    BY <2>1 DEF Sockets
  <2> HIDE DEF s
  <2>6. StreamTypeOK'
    <3>1. pending' \in [Views -> Seq(Seqs)] /\ socket' \in [Views -> Sockets]
      BY <2>1, <2>4 DEF StreamInv, StreamTypeOK
    <3>2. targets' \subseteq Views
      BY <2>1 DEF StreamInv, StreamTypeOK
    <3> QED
      BY <2>1, <3>1, <3>2 DEF StreamInv, StreamTypeOK, page
  <2>7. OnlyView(v)
    BY <2>1 DEF OnlyView, StreamInv, StreamTypeOK, page
  <2>8. ViewInv(v)'
    <3>1. /\ last' = last /\ fresh' = fresh /\ socket'[v] = s
          /\ channel' = channel /\ Has(v)' = Has(v)
      BY <2>1 DEF StreamInv, StreamTypeOK, page, Has
    <3>2. CASE socket[v].lock = "run"
      <4>1. v \in targets /\ ~(v \in targets') /\ last \in Has(v)
            /\ s.next = socket[v].next /\ socket[v].pc \in {"hello", "open"}
        BY <2>1, <2>2, <2>4, <3>2 DEF ViewInv, SocketOK
      <4>2. SocketOK(last, fresh, TRUE, socket[v], Snapshot \in Elements(channel[v]), Has(v))
        BY <2>2, <4>1 DEF ViewInv
      <4>3. SocketOK(last, fresh, v \in targets', s, Snapshot \in Elements(channel[v]), Has(v))
        BY <2>4, <3>2, <4>1, <4>2, ViewTypes, BookedSocket, Zenon
      <4> QED
        BY <3>1, <4>3, Zenon DEF ViewInv
    <3>3. CASE socket[v].lock = "replay"
      <4>1. /\ targets' = targets /\ socket[v].next \in Has(v)
            /\ s.next = socket[v].next + 1 /\ socket[v].pc = "open"
        BY <2>1, <2>2, <2>4, <3>3 DEF ViewInv, SocketOK
      <4>2. SocketOK(last, fresh, v \in targets, s, Snapshot \in Elements(channel[v]), Has(v))
        BY <2>2, <2>4, <3>3, <4>1, ViewTypes, ReplayedSocket, Zenon DEF ViewInv
      <4> QED
        BY <3>1, <4>1, <4>2, Zenon DEF ViewInv
    <3> QED
      BY <2>5, <3>2, <3>3
  <2> QED
    BY <2>6, <2>7, <2>8, OneView
<1> QED
  BY <1>1, <1>2

LEMMA BookKeeps ==
    ASSUME StreamInv, NEW v \in Views, Book(v)
    PROVE  StreamInv'
<1> DEFINE n == IF socket[v].lock = "run" THEN last ELSE socket[v].next
           queue == IF n > acked[v] THEN Append(pending[v], n) ELSE pending[v]
<1>1. BookQueue(v, queue) /\ socket[v].lock # "free"
  BY DEF Book, BookQueue
<1>2. n \in Seqs
  <2>1. ViewInv(v) /\ socket[v].lock \in {"run", "replay"}
    BY <1>1, ViewTypes DEF StreamInv, Sockets
  <2>2. CASE socket[v].lock = "run"
    <3>1. v \in targets
      BY <2>1, <2>2 DEF ViewInv, SocketOK
    <3> QED
      BY <2>2, <3>1, ViewTypes DEF StreamInv, Seqs
  <2>3. CASE socket[v].lock = "replay"
    <3>1. socket[v].next <= socket[v].upto
      BY <2>1, <2>3 DEF ViewInv, SocketOK
    <3> QED
      BY <2>3, <3>1, ViewTypes DEF Seqs
  <2> QED
    BY <2>1, <2>2, <2>3
<1> HIDE DEF n
<1>3. queue \in Seq(Seqs)
  BY <1>2, ViewTypes
<1> HIDE DEF queue
<1> QED
  BY <1>1, <1>3, BookQueueKeeps

\* an acknowledgement leaves the types alone
LEMMA AcknowledgeTypes ==
    ASSUME StreamInv, NEW v \in Views, NEW n \in 0..MaxEvents, Acknowledge(v, n)
    PROVE  acked' \in [Views -> 0..MaxEvents] /\ pending' \in [Views -> Seq(Seqs)]
<1>1. CASE n <= acked[v]
  BY <1>1 DEF Acknowledge, StreamInv, StreamTypeOK
<1>2. CASE ~(n <= acked[v])
  <2>1. Unpopped(pending[v], n) \in Seq(Seqs)
    BY ViewTypes, UnpoppedType
  <2>2. /\ acked' = [acked EXCEPT ![v] = n]
        /\ pending' = [pending EXCEPT ![v] = Unpopped(pending[v], n)]
    BY <1>2 DEF Acknowledge
  <2> QED
    BY <2>1, <2>2 DEF StreamInv, StreamTypeOK
<1> QED
  BY <1>1, <1>2

LEMMA ReceiveKeeps ==
    ASSUME StreamInv, NEW v \in Views, Receive(v)
    PROVE  StreamInv'
<1> DEFINE n == Head(channel[v])
           s == socket[v]
<1> USE ViewTypes
<1>1. /\ Subscribed(v) /\ channel[v] # <<>>
      /\ channel' = [channel EXCEPT ![v] = Tail(channel[v])]
      /\ last' = last /\ fresh' = fresh /\ targets' = targets /\ socket' = socket
  BY DEF Receive, server
<1>2. /\ n \in Seqs \cup {Snapshot} /\ Tail(channel[v]) \in Seq(Seqs \cup {Snapshot})
      /\ Elements(channel[v]) = Elements(Tail(channel[v])) \cup {n}
  BY <1>1, TailElements
<1>3. ViewInv(v)
  BY DEF StreamInv
<1>4. channel' \in [Views -> Seq(Seqs \cup {Snapshot})] /\ channel'[v] = Tail(channel[v])
  BY <1>1, <1>2 DEF StreamInv, StreamTypeOK
<1>5. Stored(s) \subseteq Seqs
  BY DEF Stored, Seqs
\* it is enough that the page, or what it is excused from, grows by what it got
<1>6. ASSUME acked' \in [Views -> 0..MaxEvents], pending' \in [Views -> Seq(Seqs)],
             shown' \in [Views -> Seq(Seqs)], excused' \in [Views -> SUBSET Seqs],
             \A w \in Views \ {v} : shown'[w] = shown[w] /\ excused'[w] = excused[w],
             Elements(shown[v]) \cup excused[v] \subseteq Elements(shown'[v]) \cup excused'[v],
             n # Snapshot => n \in Elements(shown'[v]),
             n = Snapshot => Stored(s) \subseteq Elements(shown'[v]) \cup excused'[v]
      PROVE  StreamInv'
  <2>1. StreamTypeOK'
    BY <1>1, <1>4, <1>6 DEF StreamInv, StreamTypeOK
  <2>2. OnlyView(v)
    BY <1>1, <1>6 DEF OnlyView, StreamInv, StreamTypeOK
  <2>3. \A k \in Seqs : k \in Has(v) => k \in Has(v)'
    BY <1>2, <1>4, <1>6 DEF Has, Seqs, Snapshot
  <2>4. Snapshot \in Elements(channel[v]) /\ ~(Snapshot \in Elements(channel'[v])) =>
          Stored(s) \subseteq Has(v)'
    BY <1>2, <1>4, <1>6 DEF Has
  <2>5. 1..last \subseteq Seqs /\ s.pc \in {"hello", "open"}
        /\ (s.lock = "run" => last \in Seqs) /\ (s.lock = "replay" => s.next \in Seqs)
    <3>1. s.lock = "run" => v \in targets
      BY <1>3 DEF ViewInv, SocketOK
    <3>2. s.lock = "replay" => s.next <= s.upto
      BY <1>3 DEF ViewInv, SocketOK
    <3> QED
      BY <1>1, <3>1, <3>2 DEF Seqs, Subscribed, StreamInv
  <2>6. ViewInv(v)'
    BY <1>1, <1>3, <2>3, <2>4, <2>5, SMTT(20) DEF ViewInv, SocketOK, Covered
  <2> QED
    BY <2>1, <2>2, <2>6, OneView
<1>7. CASE n = Snapshot /\ s.mobile
  <2> DEFINE all == FromTo(s.snap, s.upto)
  <2>1. all \in Seq(Seqs) /\ Elements(all) = Stored(s)
    BY <1>5, FromToElements DEF Stored
  <2>2. /\ shown' = [shown EXCEPT ![v] = all]
        /\ excused' = [excused EXCEPT ![v] = @ \cup (Elements(shown[v]) \ Stored(s))]
        /\ Acknowledge(v, IF Stored(s) = {} THEN 0 ELSE s.upto)
    BY <1>7 DEF Receive, ApplySnapshot
  <2> HIDE DEF all
  <2>3. acked' \in [Views -> 0..MaxEvents] /\ pending' \in [Views -> Seq(Seqs)]
    <3>1. (IF Stored(s) = {} THEN 0 ELSE s.upto) \in 0..MaxEvents
      OBVIOUS
    <3> QED
      BY <2>2, <3>1, AcknowledgeTypes
  <2>4. excused[v] \cup (Elements(shown[v]) \ Stored(s)) \in SUBSET Seqs
    BY DEF Elements
  <2>5. shown' \in [Views -> Seq(Seqs)] /\ excused' \in [Views -> SUBSET Seqs]
    BY <2>1, <2>2, <2>4 DEF StreamInv, StreamTypeOK
  <2>6. /\ shown'[v] = all
        /\ excused'[v] = excused[v] \cup (Elements(shown[v]) \ Stored(s))
        /\ \A w \in Views \ {v} : shown'[w] = shown[w] /\ excused'[w] = excused[w]
    BY <2>2 DEF StreamInv, StreamTypeOK
  <2> QED
    BY <1>6, <1>7, <2>1, <2>3, <2>5, <2>6
<1>8. CASE n = Snapshot /\ ~s.mobile
  <2>1. excused' = [excused EXCEPT ![v] = @ \cup Stored(s)] /\ UNCHANGED <<shown, acked, pending>>
    BY <1>8 DEF Receive, ApplySnapshot
  <2>2. excused[v] \cup Stored(s) \in SUBSET Seqs
    BY <1>5
  <2>3. excused' \in [Views -> SUBSET Seqs] /\ excused'[v] = excused[v] \cup Stored(s)
        /\ \A w \in Views \ {v} : excused'[w] = excused[w]
    BY <2>1, <2>2 DEF StreamInv, StreamTypeOK
  <2>4. acked' \in [Views -> 0..MaxEvents] /\ pending' \in [Views -> Seq(Seqs)]
        /\ shown' \in [Views -> Seq(Seqs)]
    BY <2>1 DEF StreamInv, StreamTypeOK
  <2> QED
    BY <1>6, <1>8, <2>1, <2>3, <2>4
<1>9. CASE n # Snapshot
  <2>1. n \in Seqs /\ n \in 0..MaxEvents
    BY <1>2, <1>9 DEF Seqs
  <2>2. /\ shown' = [shown EXCEPT ![v] = Append(@, n)] /\ Acknowledge(v, n) /\ excused' = excused
    BY <1>9 DEF Receive
  <2>3. Append(shown[v], n) \in Seq(Seqs) /\ Elements(Append(shown[v], n)) = Elements(shown[v]) \cup {n}
    BY <2>1, AppendElements
  <2>4. acked' \in [Views -> 0..MaxEvents] /\ pending' \in [Views -> Seq(Seqs)]
    BY <2>1, <2>2, AcknowledgeTypes
  <2>5. shown' \in [Views -> Seq(Seqs)] /\ shown'[v] = Append(shown[v], n)
        /\ \A w \in Views \ {v} : shown'[w] = shown[w]
    BY <2>2, <2>3 DEF StreamInv, StreamTypeOK
  <2>6. excused' \in [Views -> SUBSET Seqs]
    BY <2>2 DEF StreamInv, StreamTypeOK
  <2> QED
    BY <1>6, <1>9, <2>2, <2>3, <2>4, <2>5, <2>6
<1> QED
  BY <1>7, <1>8, <1>9

LEMMA StreamCrashKeeps ==
    ASSUME StreamInv, StreamCrash
    PROVE  StreamInv'
<1> DEFINE open == {v \in Views : socket[v].pc \notin {"new", "loaded"}}
<1>1. /\ last' = last /\ fresh' = FALSE /\ targets' = {}
      /\ socket' = [v \in Views |-> IF v \in open THEN Gone ELSE socket[v]]
      /\ acked' = [v \in Views |-> IF v \in open THEN 0 ELSE acked[v]]
      /\ pending' = [v \in Views |-> IF v \in open THEN <<>> ELSE pending[v]]
      /\ channel' = [v \in Views |-> IF v \in open THEN <<>> ELSE channel[v]]
      /\ shown' = [v \in Views |-> IF v \in open THEN <<>> ELSE shown[v]]
      /\ excused' = [v \in Views |-> IF v \in open THEN {} ELSE excused[v]]
  BY DEF StreamCrash
<1>2. /\ Gone \in Sockets /\ Gone.pc = "gone" /\ Gone.lock = "free"
      /\ 0 \in 0..MaxEvents /\ {} \in SUBSET Seqs
      /\ <<>> \in Seq(Seqs) /\ <<>> \in Seq(Seqs \cup {Snapshot})
  <2>1. MaxEvents \in Nat
    BY StreamAssumption
  <2>2. NewSocket \in Sockets
    BY <2>1 DEF NewSocket, Sockets
  <2>3. Gone \in Sockets /\ Gone.pc = "gone" /\ Gone.lock = "free"
    BY <2>2 DEF Gone, Sockets, NewSocket
  <2> QED
    BY <2>1, <2>3
<1>3. StreamTypeOK'
  <2>1. socket' \in [Views -> Sockets] /\ acked' \in [Views -> 0..MaxEvents]
    BY <1>1, <1>2 DEF StreamInv, StreamTypeOK
  <2>2. pending' \in [Views -> Seq(Seqs)] /\ channel' \in [Views -> Seq(Seqs \cup {Snapshot})]
    BY <1>1, <1>2 DEF StreamInv, StreamTypeOK
  <2>3. shown' \in [Views -> Seq(Seqs)] /\ excused' \in [Views -> SUBSET Seqs]
    BY <1>1, <1>2 DEF StreamInv, StreamTypeOK
  <2> QED
    BY <1>1, <2>1, <2>2, <2>3 DEF StreamInv, StreamTypeOK
<1>4. ASSUME NEW v \in Views PROVE ViewInv(v)'
  <2>1. CASE v \in open
    <3>1. socket'[v] = Gone /\ ~(v \in targets')
      BY <1>1, <2>1
    <3> QED
      BY <1>2, <3>1 DEF ViewInv, SocketOK
  <2>2. CASE v \notin open
    <3>1. socket[v].pc \in {"new", "loaded"} /\ ViewInv(v)
      BY <2>2 DEF StreamInv
    <3>2. /\ socket'[v] = socket[v] /\ Has(v)' = Has(v) /\ ~(v \in targets')
      BY <1>1, <2>2 DEF Has
    <3> QED
      BY <1>1, <3>1, <3>2 DEF ViewInv, SocketOK
  <2> QED
    BY <2>1, <2>2
<1> QED
  BY <1>1, <1>3, <1>4 DEF StreamInv

-----------------------------------------------------------------------------
LEMMA StreamInvInit == StreamInit => StreamInv
<1> SUFFICES ASSUME StreamInit PROVE StreamInv
  OBVIOUS
<1>1. StreamTypeOK
  BY InitialTypes
<1>2. ASSUME NEW v \in Views PROVE ViewInv(v)
  <2>1. socket[v].pc = "new" /\ socket[v].lock = "free" /\ ~(v \in targets)
    BY DEF StreamInit, NewSocket
  <2> QED
    BY <2>1 DEF ViewInv, SocketOK
<1> QED
  BY <1>1, <1>2 DEF StreamInit, StreamInv

LEMMA StreamInvNext == StreamInv /\ [StreamNext]_stream => StreamInv'
<1> SUFFICES ASSUME StreamInv, [StreamNext]_stream PROVE StreamInv'
  OBVIOUS
<1>1. CASE AppendEvent
  BY <1>1, AppendEventKeeps
<1>2. CASE Aim
  BY <1>2, AimKeeps
<1>3. CASE StreamCrash
  BY <1>3, StreamCrashKeeps
<1>4. ASSUME NEW v \in Views, Select(v) PROVE StreamInv'
  BY <1>4, SelectKeeps
<1>5. ASSUME NEW v \in Views, Watch(v) PROVE StreamInv'
  <2>1. CASE Load(v)
    BY <2>1, LoadKeeps
  <2>2. CASE Subscribe(v)
    BY <2>2, SubscribeKeeps
  <2>3. CASE SendLive(v) \/ SendReplay(v)
    BY <2>3, SendKeeps
  <2>4. CASE Book(v)
    BY <2>4, BookKeeps
  <2>5. CASE Hello(v)
    BY <2>5, HelloKeeps
  <2>6. CASE Receive(v)
    BY <2>6, ReceiveKeeps
  <2>7. CASE Leave(v)
    BY <2>7, CloseKeeps DEF Leave
  <2> QED
    BY <1>5, <2>1, <2>2, <2>3, <2>4, <2>5, <2>6, <2>7 DEF Watch, Deliver
<1>6. CASE UNCHANGED stream
  <2>1. /\ last' = last /\ fresh' = fresh /\ targets' = targets /\ socket' = socket
        /\ channel' = channel /\ shown' = shown /\ excused' = excused
        /\ acked' = acked /\ pending' = pending
    BY <1>6 DEF stream, server, delivery, page
  <2>2. StreamTypeOK'
    BY <2>1 DEF StreamInv, StreamTypeOK
  <2>3. ASSUME NEW v \in Views PROVE ViewInv(v)'
    BY <2>1, Undisturbed DEF StreamInv
  <2> QED
    BY <2>1, <2>2, <2>3 DEF StreamInv
<1> QED
  BY <1>1, <1>2, <1>3, <1>4, <1>5, <1>6 DEF StreamNext

\* The parts of a page's socket, what it was sent and what it shows keep the
\* relation of StreamInv, through every interleaving of the page, its replay,
\* the run's events and a crash.
THEOREM StreamInvariant == StreamSpec => []StreamInv
<1>1. StreamInit => StreamInv
  BY StreamInvInit
<1>2. StreamInv /\ [StreamNext]_stream => StreamInv'
  BY StreamInvNext
<1> QED
  BY <1>1, <1>2, PTL DEF StreamSpec

\* The stream's variables keep their types.
THEOREM StreamTypes == StreamSpec => []StreamTypeOK
<1>1. StreamInv => StreamTypeOK
  BY DEF StreamInv
<1> QED
  BY <1>1, StreamInvariant, PTL

LEMMA InvExplains == StreamInv => MissingIsExplained
<1> SUFFICES ASSUME StreamInv, NEW v \in Views, Subscribed(v), NEW k \in 1..last
             PROVE  k \in Elements(shown[v]) \cup Coming(v) \cup excused[v]
  BY DEF MissingIsExplained
<1> USE ViewTypes
<1>1. ViewInv(v)
  BY DEF StreamInv
<1> DEFINE snapshot == socket[v].pc = "hello" \/ Snapshot \in Elements(channel[v])
<1>2. \/ Covered(last, socket[v], snapshot, Has(v))
      \/ (fresh \/ v \in targets) /\ Covered(last - 1, socket[v], snapshot, Has(v))
  BY <1>1 DEF ViewInv, SocketOK, Subscribed
<1>3. \/ k \in Has(v) \/ k \in socket[v].next..socket[v].upto \/ (snapshot /\ k \in Stored(socket[v]))
      \/ (fresh \/ v \in targets) /\ k = last
  BY <1>2 DEF Covered
<1> QED
  BY <1>3 DEF Has, Coming

\* A stored event that an open page neither shows nor will be sent was cut off
\* by a limit, emitted between its SELECT and its subscription, in a snapshot
\* the web page ignores or wiped out by a snapshot.
THEOREM NothingElseIsMissed == StreamSpec => []MissingIsExplained
<1>1. StreamInv => MissingIsExplained
  BY InvExplains
<1> QED
  BY <1>1, StreamInvariant, PTL

-----------------------------------------------------------------------------
(* what is pending is on its way, in the same order *)

\* s is t without some of its elements
Embeds(s, t) == \E f \in [DOMAIN s -> DOMAIN t] :
    /\ \A i, j \in DOMAIN s : i < j => f[i] < f[j]
    /\ \A i \in DOMAIN s : s[i] = t[f[i]]

\* the pending events and the one whose sender still has to book it
Held(v) == IF socket[v].lock = "run" THEN last ELSE socket[v].next
Queued(lock, n, a, p) == IF lock # "free" /\ n > a THEN Append(p, n) ELSE p
Queue(v) == Queued(socket[v].lock, Held(v), acked[v], pending[v])

\* An acknowledgement of the first event on its way pops that event, if it is
\* pending, because the first pending event is not acknowledged.
QueueOK(a, open, q, c) ==
    /\ Embeds(q, c)
    /\ q # <<>> => open /\ q[1] > a

ViewQueueInv(v) == QueueOK(acked[v], Subscribed(v), Queue(v), channel[v])
QueueInv == \A v \in Views : ViewQueueInv(v)

LEMMA EmbedsElements ==
    ASSUME NEW s, NEW t, Embeds(s, t)
    PROVE  Elements(s) \subseteq Elements(t)
BY DEF Embeds, Elements

LEMMA EmptyEmbeds == ASSUME NEW t PROVE Embeds(<<>>, t)
<1>1. DOMAIN <<>> = {} /\ [x \in {} |-> 1] \in [{} -> DOMAIN t]
  OBVIOUS
<1> QED
  BY <1>1 DEF Embeds

LEMMA EmbedsAppend ==
    ASSUME NEW S, NEW s \in Seq(S), NEW t \in Seq(S), NEW e \in S, Embeds(s, t)
    PROVE  Embeds(s, Append(t, e)) /\ Embeds(Append(s, e), Append(t, e))
<1>1. /\ Len(s) \in Nat /\ DOMAIN s = 1..Len(s) /\ DOMAIN Append(s, e) = 1..(Len(s) + 1)
      /\ Len(t) \in Nat /\ DOMAIN t = 1..Len(t) /\ DOMAIN Append(t, e) = 1..(Len(t) + 1)
  OBVIOUS
<1>2. /\ \A i \in 1..Len(s) : Append(s, e)[i] = s[i]
      /\ \A i \in 1..Len(t) : Append(t, e)[i] = t[i]
      /\ Append(s, e)[Len(s) + 1] = e /\ Append(t, e)[Len(t) + 1] = e
  OBVIOUS
<1>3. PICK f \in [1..Len(s) -> 1..Len(t)] :
        /\ \A i, j \in 1..Len(s) : i < j => f[i] < f[j]
        /\ \A i \in 1..Len(s) : s[i] = t[f[i]]
  BY <1>1 DEF Embeds
<1>4. Embeds(s, Append(t, e))
  <2>1. f \in [1..Len(s) -> 1..(Len(t) + 1)]
    BY <1>1
  <2>2. \A i \in 1..Len(s) : s[i] = Append(t, e)[f[i]]
    BY <1>2, <1>3
  <2> QED
    BY <1>1, <1>3, <2>1, <2>2 DEF Embeds
<1>5. Embeds(Append(s, e), Append(t, e))
  <2> DEFINE g == [i \in 1..(Len(s) + 1) |-> IF i <= Len(s) THEN f[i] ELSE Len(t) + 1]
  <2>1. g \in [1..(Len(s) + 1) -> 1..(Len(t) + 1)]
    BY <1>1
  <2>2. \A i, j \in 1..(Len(s) + 1) : i < j => g[i] < g[j]
    BY <1>1, <1>3
  <2>3. \A i \in 1..(Len(s) + 1) : Append(s, e)[i] = Append(t, e)[g[i]]
    <3> SUFFICES ASSUME NEW i \in 1..(Len(s) + 1) PROVE Append(s, e)[i] = Append(t, e)[g[i]]
      OBVIOUS
    <3>1. CASE i <= Len(s)
      <4>1. i \in 1..Len(s) /\ g[i] = f[i] /\ f[i] \in 1..Len(t)
        BY <1>1, <3>1
      <4> QED
        BY <1>2, <1>3, <4>1
    <3>2. CASE ~(i <= Len(s))
      BY <1>1, <1>2, <3>2
    <3> QED
      BY <3>1, <3>2
  <2> HIDE DEF g
  <2> QED
    BY <1>1, <2>1, <2>2, <2>3 DEF Embeds
<1> QED
  BY <1>4, <1>5

\* a part of s that leaves out its first element, if t starts with that, is in
\* the tail of t
LEMMA EmbedsTail ==
    ASSUME NEW S, NEW s \in Seq(S), NEW t \in Seq(S), t # <<>>, Embeds(s, t),
           NEW m \in Nat, NEW n \in Nat, m <= n, n <= Len(s),
           m > 0 \/ m = n \/ s[1] # Head(t)
    PROVE  Embeds(SubSeq(s, m + 1, n), Tail(t))
<1> DEFINE u == SubSeq(s, m + 1, n)
<1>1. /\ Len(s) \in Nat /\ DOMAIN s = 1..Len(s) /\ DOMAIN u = 1..(n - m)
      /\ Len(t) \in Nat \ {0} /\ DOMAIN t = 1..Len(t) /\ DOMAIN Tail(t) = 1..(Len(t) - 1)
  OBVIOUS
<1>2. /\ \A i \in 1..(n - m) : u[i] = s[m + i]
      /\ \A i \in 1..(Len(t) - 1) : Tail(t)[i] = t[i + 1]
      /\ Head(t) = t[1]
  OBVIOUS
<1>3. PICK f \in [1..Len(s) -> 1..Len(t)] :
        /\ \A i, j \in 1..Len(s) : i < j => f[i] < f[j]
        /\ \A i \in 1..Len(s) : s[i] = t[f[i]]
  BY <1>1 DEF Embeds
<1> HIDE DEF u
<1>4. \A k \in 1..Len(s) : f[k] \in 1..Len(t)
  OBVIOUS
<1>5. ASSUME NEW i \in 1..(n - m) PROVE m + i \in 1..Len(s) /\ f[m + i] - 1 \in 1..(Len(t) - 1)
  <2>3. m + i \in 1..Len(s) /\ 1 \in 1..Len(s)
    BY <1>1
  <2>1. m + i \in 1..Len(s) /\ f[m + i] \in 1..Len(t) /\ 1 \in 1..Len(s) /\ f[1] \in 1..Len(t)
    BY <1>4, <2>3
  <2>2. f[m + i] # 1
    <3>1. CASE m + i = 1
      BY <1>1, <1>2, <1>3, <2>1, <3>1
    <3>2. CASE m + i # 1
      <4>1. f[1] < f[m + i]
        BY <1>3, <2>1, <3>2
      <4> QED
        BY <2>1, <4>1
    <3> QED
      BY <3>1, <3>2
  <2> QED
    BY <1>1, <2>1, <2>2
<1> DEFINE h == [i \in 1..(n - m) |-> f[m + i] - 1]
<1>6. h \in [1..(n - m) -> 1..(Len(t) - 1)]
  BY <1>5
<1>7. ASSUME NEW i \in 1..(n - m), NEW j \in 1..(n - m), i < j PROVE h[i] < h[j]
  <2>1. m + i \in 1..Len(s) /\ m + j \in 1..Len(s) /\ m + i < m + j
    BY <1>5, <1>7
  <2>2. f[m + i] < f[m + j] /\ f[m + i] \in 1..Len(t) /\ f[m + j] \in 1..Len(t)
    BY <1>3, <2>1
  <2> QED
    BY <2>2
<1>8. ASSUME NEW i \in 1..(n - m) PROVE u[i] = Tail(t)[h[i]]
  <2>1. m + i \in 1..Len(s) /\ f[m + i] - 1 \in 1..(Len(t) - 1) /\ h[i] = f[m + i] - 1
    BY <1>5
  <2>2. f[m + i] \in 1..Len(t) /\ h[i] \in 1..(Len(t) - 1) /\ h[i] + 1 = f[m + i]
    BY <1>1, <1>4, <2>1
  <2> QED
    BY <1>2, <1>3, <2>1, <2>2
<1> HIDE DEF h
<1>9. Embeds(u, Tail(t))
  BY <1>1, <1>6, <1>7, <1>8 DEF Embeds
<1> QED
  BY <1>9 DEF u

\* an acknowledgement pops the longest prefix of events up to n
LEMMA UnpoppedRest ==
    ASSUME NEW q \in Seq(Nat), NEW n \in Nat
    PROVE  \E m \in 0..Len(q) :
             /\ Unpopped(q, n) = SubSeq(q, m + 1, Len(q))
             /\ \A i \in 1..m : q[i] <= n
             /\ m < Len(q) => q[m + 1] > n
<1> DEFINE popped == {i \in DOMAIN q : \A j \in 1..i : q[j] <= n}
           m == Cardinality(popped)
<1>1. Len(q) \in Nat /\ DOMAIN q = 1..Len(q) /\ \A i \in 1..Len(q) : q[i] \in Nat
  OBVIOUS
<1>2. \A k \in Nat : IsFiniteSet(1..k) /\ Cardinality(1..k) = k
  BY FS_Interval
<1>3. popped \subseteq 1..Len(q)
  BY <1>1
<1>4. \A i \in popped : 1..i \subseteq popped
  BY <1>1
<1>5. Unpopped(q, n) = SubSeq(q, m + 1, Len(q))
  BY DEF Unpopped
<1>6. \A i \in 1..Len(q) : i \in popped <=> \A j \in 1..i : q[j] <= n
  BY <1>1
<1> HIDE DEF popped
<1>7. IsFiniteSet(popped) /\ m \in Nat /\ m <= Len(q)
  <2>1. IsFiniteSet(1..Len(q)) /\ Cardinality(1..Len(q)) = Len(q)
    BY <1>1, <1>2
  <2>2. IsFiniteSet(popped) /\ Cardinality(popped) <= Len(q)
    BY <1>3, <2>1, FS_Subset
  <2> QED
    BY <2>2, FS_CardinalityType
<1>8. popped = 1..m
  <2>1. ASSUME NEW i \in popped PROVE i \in 1..m
    <3>1. i \in Nat /\ i > 0 /\ Cardinality(1..i) = i
      BY <1>1, <1>2, <1>3
    <3>2. Cardinality(1..i) <= m
      BY <1>4, <1>7, FS_Subset
    <3> QED
      BY <1>7, <3>1, <3>2
  <2>2. popped \subseteq 1..m /\ IsFiniteSet(1..m) /\ Cardinality(1..m) = Cardinality(popped)
    BY <1>2, <1>7, <2>1
  <2> QED
    BY <2>2, FS_Subset
<1> HIDE DEF m
<1>9. ASSUME NEW i \in 1..m PROVE q[i] <= n
  BY <1>1, <1>6, <1>7, <1>8
<1>10. ASSUME m < Len(q) PROVE q[m + 1] > n
  <2>1. m + 1 \in 1..Len(q) /\ ~(m + 1 \in popped) /\ q[m + 1] \in Nat
    BY <1>1, <1>7, <1>8, <1>10
  <2>2. PICK j \in 1..(m + 1) : ~(q[j] <= n)
    BY <1>6, <2>1
  <2>3. j = m + 1
    BY <1>7, <1>9, <2>2
  <2> QED
    BY <2>1, <2>2, <2>3
<1> QED
  BY <1>5, <1>7, <1>9, <1>10

\* what the acknowledgement of b leaves of a queue: a part of it, without its
\* first element if that is acknowledged
LeftOf(r, q, b) == \E m \in Nat, k \in Nat :
    /\ m <= k /\ k <= Len(q) /\ r = SubSeq(q, m + 1, k)
    /\ q # <<>> /\ q[1] <= b => m > 0 \/ m = k
    /\ r # <<>> => r[1] > b

LEMMA AcknowledgedQueue ==
    ASSUME NEW p \in Seq(Nat), NEW n \in Nat, NEW a \in Nat, NEW b \in Nat, a < b,
           NEW lock, NEW q, q = Queued(lock, n, a, p),
           NEW r, r = Queued(lock, n, b, Unpopped(p, b))
    PROVE  LeftOf(r, q, b)
<1> DEFINE held == lock # "free"
<1>1. Len(p) \in Nat /\ \A i \in 1..Len(p) : p[i] \in Nat
  OBVIOUS
<1>2. PICK m \in 0..Len(p) : /\ Unpopped(p, b) = SubSeq(p, m + 1, Len(p))
                             /\ \A i \in 1..m : p[i] <= b
                             /\ m < Len(p) => p[m + 1] > b
  BY UnpoppedRest
<1> DEFINE u == SubSeq(p, m + 1, Len(p))
           k == IF held /\ n > b THEN Len(p) + 1 ELSE Len(p)
<1>3. /\ u \in Seq(Nat) /\ Len(u) = Len(p) - m
      /\ \A i \in 1..(Len(p) - m) : u[i] = p[m + i]
  BY <1>1
<1>4. /\ q \in Seq(Nat) /\ Len(q) = IF held /\ n > a THEN Len(p) + 1 ELSE Len(p)
      /\ \A i \in 1..Len(p) : q[i] = p[i]
      /\ held /\ n > a => q[Len(p) + 1] = n
  BY <1>1 DEF Queued
<1> HIDE DEF u
<1>5. m \in Nat /\ m <= Len(p) /\ k \in Nat /\ m <= k /\ k <= Len(q)
  BY <1>1, <1>4
<1>6. /\ r \in Seq(Nat) /\ Len(r) = k - m
      /\ \A i \in 1..(Len(p) - m) : r[i] = p[m + i]
      /\ held /\ n > b => r[Len(p) - m + 1] = n
  <2>1. r = IF held /\ n > b THEN Append(u, n) ELSE u
    BY <1>2 DEF u, Queued
  <2>2. CASE held /\ n > b
    <3>1. r = Append(u, n) /\ k = Len(p) + 1
      BY <2>1, <2>2
    <3> HIDE DEF k
    <3>2. /\ r \in Seq(Nat) /\ Len(r) = Len(u) + 1 /\ r[Len(u) + 1] = n
          /\ \A i \in 1..Len(u) : r[i] = u[i]
      <4>1. u \in Seq(Nat)
        BY <1>3
      <4>2. /\ Append(u, n) \in Seq(Nat) /\ Len(Append(u, n)) = Len(u) + 1
            /\ \A i \in 1..Len(u) : Append(u, n)[i] = u[i]
            /\ Append(u, n)[Len(u) + 1] = n
        BY <4>1
      <4> QED
        BY <3>1, <4>2, Zenon
    <3>3. Len(u) = Len(p) - m /\ Len(p) - m \in Nat /\ Len(r) = k - m
      BY <1>1, <1>3, <1>5, <3>1, <3>2
    <3>4. \A i \in 1..(Len(p) - m) : r[i] = p[m + i]
      BY <1>3, <3>2, <3>3, Zenon
    <3>5. r[Len(p) - m + 1] = n
      BY <3>2, <3>3, Zenon
    <3> QED
      BY <3>2, <3>3, <3>4, <3>5, Zenon
  <2>3. CASE ~(held /\ n > b)
    <3>1. r = u /\ k = Len(p)
      BY <2>1, <2>3
    <3> QED
      BY <1>3, <2>3, <3>1
  <2> QED
    BY <2>2, <2>3
<1> HIDE DEF k
<1>7. r = SubSeq(q, m + 1, k)
  <2> DEFINE s == SubSeq(q, m + 1, k)
  <2>1. s \in Seq(Nat) /\ Len(s) = k - m /\ \A i \in 1..(k - m) : s[i] = q[m + i]
    <3>1. q \in Seq(Nat) /\ k <= Len(q) /\ k \in Nat /\ m \in Nat /\ m <= k
      BY <1>4, <1>5
    <3>2. /\ m + 1 \in Int /\ k \in Int /\ k - (m + 1) + 1 = k - m
          /\ \A i \in (m + 1)..k : q[i] \in Nat
      BY <3>1
    <3>3. /\ s \in Seq(Nat)
          /\ Len(s) = IF m + 1 <= k THEN k - (m + 1) + 1 ELSE 0
          /\ \A i \in 1..(k - (m + 1) + 1) : s[i] = q[m + 1 + i - 1]
      BY <3>2, SubSeqProperties
    <3>4. Len(s) = k - m
      BY <3>1, <3>3
    <3> HIDE DEF s
    <3>5. ASSUME NEW i \in 1..(k - m) PROVE s[i] = q[m + i]
      <4>1. m + 1 + i - 1 = m + i
        BY <3>1
      <4>2. s[i] = q[m + 1 + i - 1]
        BY <3>2, <3>3
      <4> QED
        BY <4>1, <4>2
    <3> QED
      BY <3>3, <3>4, <3>5
  <2>2. ASSUME NEW i \in 1..(k - m) PROVE r[i] = s[i]
    <3>1. s[i] = q[m + i]
      BY <2>1
    <3>2. CASE i <= Len(p) - m
      <4>1. i \in 1..(Len(p) - m) /\ m + i \in 1..Len(p)
        BY <1>5, <3>2
      <4> QED
        BY <1>4, <1>6, <3>1, <4>1
    <3>3. CASE ~(i <= Len(p) - m)
      <4>1. held /\ n > b /\ n > a /\ i = Len(p) - m + 1 /\ m + i = Len(p) + 1
        <5>1. /\ Len(p) \in Nat /\ m \in Nat /\ k \in Nat /\ m <= k /\ i \in 1..(k - m)
              /\ k = IF held /\ n > b THEN Len(p) + 1 ELSE Len(p)
          BY <1>1, <1>5 DEF k
        <5>2. held /\ n > b
          BY <3>3, <5>1
        <5>3. k = Len(p) + 1
          BY <5>1, <5>2
        <5> QED
          BY <3>3, <5>1, <5>2, <5>3
      <4> QED
        BY <1>4, <1>6, <3>1, <4>1
    <3> QED
      BY <3>2, <3>3
  <2> HIDE DEF s
  <2>3. r = s
    BY <1>6, <2>1, <2>2, SeqEqual
  <2> QED
    BY <2>3 DEF s
<1>8. ASSUME q # <<>>, q[1] <= b PROVE m > 0 \/ m = k
  <2>1. CASE Len(p) > 0
    <3>1. q[1] = p[1] /\ 1 \in 1..Len(p)
      BY <1>1, <1>4, <2>1
    <3>2. ~(p[1] > b)
      BY <1>1, <1>8, <3>1
    <3> QED
      BY <1>1, <1>2, <2>1, <3>2
  <2>2. CASE Len(p) = 0
    <3>1. held /\ n > b => q[1] = n
      BY <1>4, <2>2
    <3>2. ~(held /\ n > b)
      BY <1>8, <3>1
    <3> QED
      BY <1>5, <2>2, <3>2 DEF k
  <2> QED
    BY <1>1, <2>1, <2>2
<1>9. ASSUME r # <<>> PROVE r[1] > b
  <2>1. Len(r) > 0
    BY <1>6, <1>9
  <2>2. CASE m < Len(p)
    <3>1. 1 \in 1..(Len(p) - m)
      BY <1>1, <1>5, <2>2
    <3> QED
      BY <1>2, <1>6, <2>2, <3>1
  <2>3. CASE m = Len(p)
    <3>1. held /\ n > b
      BY <1>1, <1>6, <2>1, <2>3 DEF k
    <3> QED
      BY <1>6, <2>3, <3>1
  <2> QED
    BY <1>5, <2>2, <2>3
<1> QED
  BY <1>5, <1>7, <1>8, <1>9, Zenon DEF LeftOf

\* the lock is held for a page that is subscribed, to send it an event
LEMMA HeldEvent ==
    ASSUME StreamInv, NEW v \in Views, socket[v].lock # "free"
    PROVE  Held(v) \in Seqs /\ Subscribed(v)
<1>1. ViewInv(v) /\ socket[v].lock \in {"run", "replay"}
  BY ViewTypes DEF StreamInv, Sockets
<1>2. CASE socket[v].lock = "run"
  <2>1. v \in targets /\ Subscribed(v)
    BY <1>1, <1>2 DEF ViewInv, SocketOK, Subscribed
  <2> QED
    BY <1>2, <2>1, ViewTypes DEF StreamInv, Seqs, Held
<1>3. CASE socket[v].lock = "replay"
  <2>1. socket[v].next <= socket[v].upto /\ Subscribed(v)
    BY <1>1, <1>3 DEF ViewInv, SocketOK, Subscribed
  <2> QED
    BY <1>3, <2>1, ViewTypes DEF Seqs, Held
<1> QED
  BY <1>1, <1>2, <1>3

LEMMA QueueTypes ==
    ASSUME StreamInv, NEW v \in Views
    PROVE  Queue(v) \in Seq(Seqs) /\ acked[v] \in Nat /\ MaxEvents \in Nat
<1>1. socket[v].lock # "free" => Held(v) \in Seqs
  BY HeldEvent
<1> QED
  BY <1>1, ViewTypes DEF Queue, Queued

\* the queue of a view whose part of the state stays
LEMMA QueueUndisturbed ==
    ASSUME StreamInv, NEW w \in Views, ViewQueueInv(w), socket'[w] = socket[w],
           acked'[w] = acked[w], pending'[w] = pending[w], channel'[w] = channel[w],
           socket[w].lock = "run" => last' = last
    PROVE  ViewQueueInv(w)'
<1>1. Queue(w)' = Queue(w)
  <2>1. socket[w].lock # "free" => Held(w)' = Held(w)
    BY DEF Held
  <2> QED
    BY <2>1 DEF Queue, Queued
<1>2. Subscribed(w)' = Subscribed(w)
  BY DEF Subscribed
<1> QED
  BY <1>1, <1>2 DEF ViewQueueInv

\* nothing but the queue of the view changes
OnlyQueue(v) ==
    /\ last' = last
    /\ \A w \in Views \ {v} : /\ socket'[w] = socket[w] /\ acked'[w] = acked[w]
                              /\ pending'[w] = pending[w] /\ channel'[w] = channel[w]

LEMMA OneQueue ==
    ASSUME StreamInv, QueueInv, NEW v \in Views, OnlyQueue(v), ViewQueueInv(v)'
    PROVE  QueueInv'
<1>1. ASSUME NEW w \in Views, w # v PROVE ViewQueueInv(w)'
  <2>1. /\ socket'[w] = socket[w] /\ acked'[w] = acked[w] /\ pending'[w] = pending[w]
        /\ channel'[w] = channel[w] /\ last' = last
    BY <1>1 DEF OnlyQueue
  <2> QED
    BY <2>1, QueueUndisturbed DEF QueueInv
<1> QED
  BY <1>1 DEF QueueInv

\* a socket whose handler has not sent anything, or has ended
LEMMA NoQueue ==
    ASSUME NEW v \in Views, pending'[v] = <<>>, socket'[v].lock = "free"
    PROVE  ViewQueueInv(v)'
<1>1. Queue(v)' = <<>>
  BY DEF Queue, Queued
<1> QED
  BY <1>1, EmptyEmbeds DEF ViewQueueInv, QueueOK

LEMMA OpeningQueue ==
    ASSUME StreamInv, QueueInv, NEW v \in Views, Load(v) \/ Select(v)
    PROVE  QueueInv'
<1>1. \E s : s.lock = socket[v].lock /\ socket' = [socket EXCEPT ![v] = s]
  <2>0. socket[v] \in Sockets
    BY ViewTypes
  <2>1. CASE Load(v)
    <3>1. PICK app, n : Set(v, [socket[v] EXCEPT !.pc = "loaded", !.mobile = app,
                                                            !.next = n])
      BY <2>1, Zenon DEF Load
    <3> DEFINE s == [socket[v] EXCEPT !.pc = "loaded", !.mobile = app, !.next = n]
    <3>2. s.lock = socket[v].lock
      BY <2>0 DEF Sockets
    <3> HIDE DEF s
    <3>3. socket' = [socket EXCEPT ![v] = s]
      BY <3>1 DEF Set, s
    <3> QED
      BY <3>2, <3>3, Zenon
  <2>2. CASE Select(v)
    <3>1. PICK n, u, p : Set(v, [socket[v] EXCEPT !.pc = "selected", !.next = n, !.upto = u,
                                                  !.snap = p])
      BY <2>2, Zenon DEF Select, SelectFrom
    <3> DEFINE s == [socket[v] EXCEPT !.pc = "selected", !.next = n, !.upto = u, !.snap = p]
    <3>2. s.lock = socket[v].lock
      BY <2>0 DEF Sockets
    <3> HIDE DEF s
    <3>3. socket' = [socket EXCEPT ![v] = s]
      BY <3>1 DEF Set, s
    <3> QED
      BY <3>2, <3>3, Zenon
  <2> QED
    BY <2>1, <2>2, Zenon
<1> USE DEF StreamInv, StreamTypeOK
<1>2. ~Subscribed(v)
  BY DEF Load, Select, SelectFrom, Subscribed
<1>3. Queue(v) = <<>>
  BY <1>2 DEF QueueInv, ViewQueueInv, QueueOK
<1>4. socket[v].lock = "free" /\ pending[v] = <<>>
  <2>1. socket[v].lock = "free"
    BY <1>2, HeldEvent
  <2> QED
    BY <1>3, <2>1 DEF Queue, Queued
<1>5. PICK s : s.lock = socket[v].lock /\ socket' = [socket EXCEPT ![v] = s]
  BY <1>1
<1>6. /\ last' = last /\ pending' = pending /\ channel' = channel
      /\ \A w \in Views \ {v} : acked'[w] = acked[w]
  BY DEF Load, Select, SelectFrom, server, delivery
<1>7. OnlyQueue(v) /\ socket'[v].lock = "free" /\ pending'[v] = <<>>
  BY <1>4, <1>5, <1>6 DEF OnlyQueue
<1> QED
  BY <1>7, NoQueue, OneQueue

LEMMA SubscribeQueue ==
    ASSUME StreamInv, QueueInv, NEW v \in Views, Subscribe(v)
    PROVE  QueueInv'
<1> USE DEF StreamInv, StreamTypeOK
<1>1. /\ socket[v].pc = "selected" /\ last' = last /\ acked' = acked /\ pending' = pending
      /\ channel' = channel /\ socket' = [socket EXCEPT ![v] = [socket[v] EXCEPT !.pc = "hello"]]
  BY DEF Subscribe, Set, server, delivery
<1>2. socket[v].lock = "free"
  BY <1>1, HeldEvent DEF Subscribed
<1>3. Queue(v) = <<>>
  BY <1>1 DEF QueueInv, ViewQueueInv, QueueOK, Subscribed
<1>4. OnlyQueue(v) /\ socket'[v].lock = "free" /\ pending'[v] = <<>>
  BY <1>1, <1>2, <1>3 DEF OnlyQueue, Sockets, Queue, Queued
<1> QED
  BY <1>4, NoQueue, OneQueue

\* the snapshot goes behind what is on its way
LEMMA HelloQueue ==
    ASSUME StreamInv, QueueInv, NEW v \in Views, Hello(v)
    PROVE  QueueInv'
<1> USE DEF StreamInv, StreamTypeOK
<1>1. /\ socket[v].pc = "hello" /\ last' = last /\ acked' = acked /\ pending' = pending
      /\ channel' = [channel EXCEPT ![v] = Append(channel[v], Snapshot)]
      /\ socket' = [socket EXCEPT ![v] = [socket[v] EXCEPT !.pc = "open"]]
  BY DEF Hello, Set, server, delivery
<1>2. /\ socket'[v].lock = socket[v].lock /\ socket'[v].next = socket[v].next
      /\ socket'[v].pc = "open"
  BY <1>1 DEF Sockets
<1>3. Queue(v)' = Queue(v) /\ Subscribed(v)'
  BY <1>1, <1>2 DEF Queue, Queued, Held, Subscribed
<1>4. Embeds(Queue(v), Append(channel[v], Snapshot))
  <2>1. Embeds(Queue(v), channel[v])
    BY DEF QueueInv, ViewQueueInv, QueueOK
  <2>2. Queue(v) \in Seq(Seqs \cup {Snapshot}) /\ channel[v] \in Seq(Seqs \cup {Snapshot})
    BY QueueTypes
  <2>3. Snapshot \in Seqs \cup {Snapshot}
    OBVIOUS
  <2> QED
    BY <2>1, <2>2, <2>3, EmbedsAppend
<1>5. ViewQueueInv(v)'
  BY <1>1, <1>3, <1>4 DEF QueueInv, ViewQueueInv, QueueOK
<1>6. OnlyQueue(v)
  BY <1>1 DEF OnlyQueue
<1> QED
  BY <1>5, <1>6, OneQueue

\* an event is sent: from here on it is in the queue, unless it is acknowledged
LEMMA SendQueue ==
    ASSUME StreamInv, QueueInv, NEW v \in Views, SendLive(v) \/ SendReplay(v)
    PROVE  QueueInv'
<1>1. PICK who \in {"run", "replay"}, n \in Seqs :
        SendJson(v, who, n) /\ Subscribed(v) /\ n = IF who = "run" THEN last ELSE socket[v].next
  <2>1. CASE SendLive(v)
    <3>1. last \in Seqs
      BY <2>1, ViewTypes DEF StreamInv, SendLive, Seqs
    <3>2. ViewInv(v) /\ v \in targets
      BY <2>1 DEF StreamInv, SendLive
    <3>3. Subscribed(v)
      BY <3>2 DEF ViewInv, SocketOK, Subscribed
    <3> QED
      BY <2>1, <3>1, <3>3 DEF SendLive
  <2>2. CASE SendReplay(v)
    <3>1. socket[v].next \in Seqs /\ Subscribed(v)
      BY <2>2, ViewTypes DEF SendReplay, Seqs, Subscribed
    <3> QED
      BY <2>2, <3>1 DEF SendReplay
  <2> QED
    BY <2>1, <2>2
<1> USE DEF StreamInv, StreamTypeOK
<1>2. /\ socket[v].lock = "free" /\ last' = last /\ acked' = acked /\ pending' = pending
      /\ channel' = [channel EXCEPT ![v] = Append(channel[v], n)]
      /\ socket' = [socket EXCEPT ![v] = [socket[v] EXCEPT !.lock = who]]
  BY <1>1 DEF SendJson, Set, server
<1>3. /\ socket'[v].lock = who /\ socket'[v].next = socket[v].next /\ socket'[v].pc = socket[v].pc
  BY <1>2 DEF Sockets
<1>4. Queue(v) = pending[v] /\ Held(v)' = n /\ Subscribed(v)'
  BY <1>1, <1>2, <1>3 DEF Queue, Queued, Held, Subscribed
<1>5. Queue(v)' = IF n > acked[v] THEN Append(pending[v], n) ELSE pending[v]
  BY <1>1, <1>2, <1>3, <1>4 DEF Queue, Queued
<1>6. Embeds(Queue(v)', Append(channel[v], n))
  <2>1. Embeds(pending[v], channel[v])
    BY <1>4 DEF QueueInv, ViewQueueInv, QueueOK
  <2>2. pending[v] \in Seq(Seqs \cup {Snapshot}) /\ channel[v] \in Seq(Seqs \cup {Snapshot})
    BY <1>4, QueueTypes
  <2>3. n \in Seqs \cup {Snapshot}
    OBVIOUS
  <2> QED
    BY <1>5, <2>1, <2>2, <2>3, EmbedsAppend
<1>7. Queue(v)' # <<>> => Queue(v)'[1] > acked[v]
  <2>1. pending[v] # <<>> => pending[v][1] > acked[v]
    BY <1>4 DEF QueueInv, ViewQueueInv, QueueOK
  <2>2. pending[v] \in Seq(Seqs)
    BY <1>4, QueueTypes
  <2>3. Append(pending[v], n)[1] = IF pending[v] = <<>> THEN n ELSE pending[v][1]
    BY <2>2
  <2> QED
    BY <1>5, <2>1, <2>3
<1>8. ViewQueueInv(v)'
  BY <1>2, <1>4, <1>6, <1>7 DEF ViewQueueInv, QueueOK
<1>9. OnlyQueue(v)
  BY <1>2 DEF OnlyQueue
<1> QED
  BY <1>8, <1>9, OneQueue

LEMMA CloseQueue ==
    ASSUME StreamInv, QueueInv, NEW v \in Views, Close(v)
    PROVE  QueueInv'
<1> USE DEF StreamInv, StreamTypeOK
<1>1. /\ socket' = [socket EXCEPT ![v] = Gone] /\ acked' = [acked EXCEPT ![v] = 0]
      /\ pending' = [pending EXCEPT ![v] = <<>>] /\ channel' = [channel EXCEPT ![v] = <<>>]
      /\ last' = last
  BY DEF Close, Set
<1>2. OnlyQueue(v) /\ socket'[v].lock = "free" /\ pending'[v] = <<>>
  BY <1>1 DEF OnlyQueue, Gone, NewSocket
<1> QED
  BY <1>2, NoQueue, OneQueue

\* the sender books what the queue has already
LEMMA BookQueueStays ==
    ASSUME StreamInv, QueueInv, NEW v \in Views, Book(v)
    PROVE  QueueInv'
<1>1. BookQueue(v, Queue(v)) /\ socket[v].lock # "free"
  BY DEF Book, BookQueue, Queue, Queued, Held
<1>2. CASE Len(Queue(v)) > MaxPending
  BY <1>1, <1>2, CloseQueue DEF BookQueue
<1>3. CASE ~(Len(Queue(v)) > MaxPending)
  <2> USE DEF StreamInv, StreamTypeOK
  <2> DEFINE s == [socket[v] EXCEPT !.lock = "free",
                        !.next = IF socket[v].lock = "replay" THEN @ + 1 ELSE @]
  <2>1. /\ last' = last /\ acked' = acked /\ channel' = channel
        /\ pending' = [pending EXCEPT ![v] = Queue(v)] /\ socket' = [socket EXCEPT ![v] = s]
    BY <1>1, <1>3 DEF BookQueue, Set
  <2>2. s.lock = "free" /\ s.pc = socket[v].pc
    BY DEF Sockets
  <2> HIDE DEF s
  <2>3. Queue(v)' = Queue(v) /\ Subscribed(v)' = Subscribed(v)
    <3>1. socket'[v].lock = "free" /\ pending'[v] = Queue(v) /\ socket'[v].pc = socket[v].pc
      BY <2>1, <2>2
    <3> QED
      BY <3>1 DEF Queue, Queued, Subscribed
  <2>4. ViewQueueInv(v)'
    BY <2>1, <2>3 DEF QueueInv, ViewQueueInv, QueueOK
  <2>5. OnlyQueue(v)
    BY <2>1 DEF OnlyQueue
  <2> QED
    BY <2>4, <2>5, OneQueue
<1> QED
  BY <1>2, <1>3

\* what arrives leaves the queue, if it is its first element
LEMMA ReceiveQueue ==
    ASSUME StreamInv, QueueInv, NEW v \in Views, Receive(v)
    PROVE  QueueInv'
<1> DEFINE c == channel[v]
           q == Queue(v)
<1>1. /\ c # <<>> /\ c \in Seq(Seqs \cup {Snapshot}) /\ Subscribed(v)
      /\ channel' = [channel EXCEPT ![v] = Tail(c)]
      /\ last' = last /\ socket' = socket
  BY ViewTypes DEF Receive, server
<1>2. /\ q \in Seq(Seqs) /\ q \in Seq(Seqs \cup {Snapshot}) /\ acked[v] \in Nat
      /\ \A i \in 1..Len(q) : q[i] \in Seqs
  BY QueueTypes
<1>3. Embeds(q, c) /\ (q # <<>> => q[1] > acked[v])
  BY DEF QueueInv, ViewQueueInv, QueueOK
<1>4. PICK b \in Nat : Acknowledge(v, b) /\ (Head(c) # Snapshot => b = Head(c))
  <2>1. CASE Head(c) = Snapshot /\ socket[v].mobile
    <3>1. Acknowledge(v, IF Stored(socket[v]) = {} THEN 0 ELSE socket[v].upto)
      BY <2>1 DEF Receive, ApplySnapshot
    <3>2. (IF Stored(socket[v]) = {} THEN 0 ELSE socket[v].upto) \in Nat
      BY ViewTypes
    <3> QED
      BY <2>1, <3>1, <3>2
  <2>2. CASE Head(c) = Snapshot /\ ~socket[v].mobile
    <3>1. UNCHANGED <<acked, pending>>
      BY <2>2 DEF Receive, ApplySnapshot
    <3>2. Acknowledge(v, 0)
      BY <1>2, <3>1 DEF Acknowledge
    <3> QED
      BY <2>2, <3>2
  <2>3. CASE Head(c) # Snapshot
    <3>1. Head(c) \in Nat
      BY <1>1, <2>3, TailElements DEF Seqs
    <3>2. Acknowledge(v, Head(c))
      BY <2>3 DEF Receive
    <3> QED
      BY <3>1, <3>2
  <2> QED
    BY <2>1, <2>2, <2>3
<1>5. q # <<>> /\ q[1] = Head(c) => q[1] <= b
  <2>1. q # <<>> => q[1] \in Seqs /\ q[1] \in Nat
    BY <1>2 DEF Seqs
  <2> QED
    BY <1>4, <2>1 DEF Seqs, Snapshot
<1>6. PICK r : r = Queue(v)'
  OBVIOUS
<1>7. PICK m \in Nat, k \in Nat :
        /\ m <= k /\ k <= Len(q) /\ r = SubSeq(q, m + 1, k)
        /\ q # <<>> /\ q[1] = Head(c) => m > 0 \/ m = k
        /\ r # <<>> => r[1] > acked'[v]
  <2>1. CASE b <= acked[v]
    <3>1. acked' = acked /\ pending' = pending
      BY <1>4, <2>1 DEF Acknowledge
    <3>2. r = q
      BY <1>1, <1>6, <3>1 DEF Queue, Held
    <3>3. q = SubSeq(q, 0 + 1, Len(q)) /\ Len(q) \in Nat
      BY <1>2
    <3>4. q # <<>> => q[1] # Head(c)
      <4>1. q # <<>> => q[1] \in Nat
        BY <1>2 DEF Seqs
      <4> QED
        BY <1>2, <1>3, <1>4, <1>5, <2>1, <4>1
    <3>5. q # <<>> => q[1] > acked'[v]
      BY <1>3, <3>1
    <3> HIDE DEF q
    <3>6. 0 <= Len(q) /\ Len(q) <= Len(q) /\ r = SubSeq(q, 0 + 1, Len(q))
      BY <3>2, <3>3
    <3> QED
      BY <3>2, <3>3, <3>4, <3>5, <3>6, Zenon
  <2>2. CASE ~(b <= acked[v])
    <3>1. /\ acked' = [acked EXCEPT ![v] = b]
          /\ pending' = [pending EXCEPT ![v] = Unpopped(pending[v], b)]
      BY <1>4, <2>2 DEF Acknowledge
    <3>2. acked'[v] = b /\ pending'[v] = Unpopped(pending[v], b)
      BY <3>1 DEF StreamInv, StreamTypeOK
    <3>3. PICK lock, n, a, p : /\ lock = socket[v].lock /\ n = Held(v)
                               /\ a = acked[v] /\ p = pending[v]
      OBVIOUS
    <3>4. q = Queued(lock, n, a, p) /\ r = Queued(lock, n, b, Unpopped(p, b))
      BY <1>1, <1>6, <3>2, <3>3 DEF Queue, Held
    <3>5. p \in Seq(Nat) /\ n \in Nat /\ a \in Nat /\ a < b
      BY <1>2, <1>4, <2>2, <3>3, ViewTypes DEF Seqs, Held
    <3> HIDE DEF q
    <3>6. LeftOf(r, q, b)
      BY <3>4, <3>5, AcknowledgedQueue
    <3>7. PICK m \in Nat, k \in Nat :
             /\ m <= k /\ k <= Len(q) /\ r = SubSeq(q, m + 1, k)
             /\ q # <<>> /\ q[1] <= b => m > 0 \/ m = k
             /\ r # <<>> => r[1] > b
      BY <3>6 DEF LeftOf
    <3>8. m <= k /\ k <= Len(q) /\ r = SubSeq(q, m + 1, k)
      BY <3>7
    <3>9. q # <<>> /\ q[1] = Head(c) => m > 0 \/ m = k
      BY <1>5, <3>7
    <3>10. r # <<>> => r[1] > acked'[v]
      BY <3>2, <3>7
    <3> QED
      BY <3>8, <3>9, <3>10, Zenon
  <2> QED
    BY <2>1, <2>2
<1> HIDE DEF q
<1>8. Embeds(r, Tail(c))
  <2>1. m > 0 \/ m = k \/ q[1] # Head(c)
    <3>1. q = <<>> => m = k
      BY <1>2, <1>7
    <3> QED
      BY <1>7, <3>1
  <2>2. Embeds(SubSeq(q, m + 1, k), Tail(c))
    BY <1>1, <1>2, <1>3, <1>7, <2>1, EmbedsTail
  <2> QED
    BY <1>7, <2>2
<1>9. ViewQueueInv(v)'
  <2>1. Subscribed(v)' /\ channel'[v] = Tail(c)
    BY <1>1 DEF Subscribed, StreamInv, StreamTypeOK
  <2> QED
    BY <1>6, <1>7, <1>8, <2>1 DEF ViewQueueInv, QueueOK
<1>10. OnlyQueue(v)
  BY <1>1, <1>4 DEF OnlyQueue, Acknowledge, StreamInv, StreamTypeOK
<1> QED
  BY <1>9, <1>10, OneQueue

LEMMA CrashQueue ==
    ASSUME StreamInv, QueueInv, StreamCrash
    PROVE  QueueInv'
<1> SUFFICES ASSUME NEW v \in Views PROVE ViewQueueInv(v)'
  BY DEF QueueInv
<1> DEFINE open == socket[v].pc \notin {"new", "loaded"}
<1>1. /\ last' = last
      /\ socket'[v] = IF open THEN Gone ELSE socket[v]
      /\ acked'[v] = IF open THEN 0 ELSE acked[v]
      /\ pending'[v] = IF open THEN <<>> ELSE pending[v]
      /\ channel'[v] = IF open THEN <<>> ELSE channel[v]
  BY DEF StreamCrash
<1>2. CASE open
  <2>1. pending'[v] = <<>> /\ socket'[v].lock = "free"
    BY <1>1, <1>2 DEF Gone, NewSocket
  <2> QED
    BY <2>1, NoQueue
<1>3. CASE ~open
  BY <1>1, <1>3, QueueUndisturbed DEF QueueInv
<1> QED
  BY <1>2, <1>3

LEMMA QueueInvNext == StreamInv /\ QueueInv /\ [StreamNext]_stream => QueueInv'
<1> SUFFICES ASSUME StreamInv, QueueInv, [StreamNext]_stream PROVE QueueInv'
  OBVIOUS
<1>1. ASSUME NEW v \in Views, Select(v) \/ Watch(v) PROVE QueueInv'
  <2>1. CASE Load(v) \/ Select(v)
    BY <2>1, OpeningQueue
  <2>2. CASE Subscribe(v)
    BY <2>2, SubscribeQueue
  <2>3. CASE Hello(v)
    BY <2>3, HelloQueue
  <2>4. CASE SendLive(v) \/ SendReplay(v)
    BY <2>4, SendQueue
  <2>5. CASE Book(v)
    BY <2>5, BookQueueStays
  <2>6. CASE Receive(v)
    BY <2>6, ReceiveQueue
  <2>7. CASE Leave(v)
    BY <2>7, CloseQueue DEF Leave
  <2> QED
    BY <1>1, <2>1, <2>2, <2>3, <2>4, <2>5, <2>6, <2>7 DEF Watch, Deliver
<1>2. CASE AppendEvent \/ Aim \/ UNCHANGED stream
  <2> SUFFICES ASSUME NEW v \in Views PROVE ViewQueueInv(v)'
    BY DEF QueueInv
  <2>1. socket' = socket /\ acked' = acked /\ pending' = pending /\ channel' = channel
    BY <1>2 DEF AppendEvent, Aim, stream, server, delivery
  <2>2. socket[v].lock = "run" => last' = last
    <3>1. ViewInv(v)
      BY DEF StreamInv
    <3>2. socket[v].lock = "run" => targets # {}
      BY <3>1 DEF ViewInv, SocketOK
    <3> QED
      BY <1>2, <3>2 DEF AppendEvent, Quiet, Aim, stream, server
  <2> QED
    BY <2>1, <2>2, QueueUndisturbed DEF QueueInv
<1>3. CASE StreamCrash
  BY <1>3, CrashQueue
<1> QED
  BY <1>1, <1>2, <1>3 DEF StreamNext

\* The pending events of a socket are on their way to the page in the order of
\* the queue, and the first of them is not acknowledged.
THEOREM QueueInvariant == StreamSpec => []QueueInv
<1>1. StreamInit => QueueInv
  <2> SUFFICES ASSUME StreamInit, NEW v \in Views PROVE ViewQueueInv(v)
    BY DEF QueueInv
  <2>1. Queue(v) = <<>>
    BY DEF StreamInit, Queue, Queued, NewSocket
  <2> QED
    BY <2>1, EmptyEmbeds DEF ViewQueueInv, QueueOK
<1>2. StreamInv /\ QueueInv /\ [StreamNext]_stream => QueueInv'
  BY QueueInvNext
<1> QED
  BY <1>1, <1>2, StreamInvariant, PTL DEF StreamSpec

LEMMA InvUnheard == StreamInv /\ QueueInv => PendingIsUnheard
<1> SUFFICES ASSUME StreamInv, QueueInv, NEW v \in Views
             PROVE  Elements(pending[v]) \subseteq Elements(channel[v])
  BY DEF PendingIsUnheard
<1>1. Elements(Queue(v)) \subseteq Elements(channel[v])
  BY EmbedsElements DEF QueueInv, ViewQueueInv, QueueOK
<1>2. Elements(pending[v]) \subseteq Elements(Queue(v))
  <2>1. pending[v] \in Seq(Seqs)
    BY ViewTypes
  <2>2. CASE Queue(v) = pending[v]
    BY <2>2
  <2>3. CASE Queue(v) # pending[v]
    <3>1. Held(v) \in Seqs /\ Queue(v) = Append(pending[v], Held(v))
      BY <2>3, HeldEvent DEF Queue, Queued
    <3> QED
      BY <2>1, <3>1, AppendElements
  <2> QED
    BY <2>2, <2>3
<1> QED
  BY <1>1, <1>2

\* A socket counts as pending only what is still on its way to the page, whether
\* an event is booked or acknowledged first.
THEOREM OnlyUnheardIsPending == StreamSpec => []PendingIsUnheard
<1>1. StreamInv /\ QueueInv => PendingIsUnheard
  BY InvUnheard
<1> QED
  BY <1>1, StreamInvariant, QueueInvariant, PTL

-----------------------------------------------------------------------------
(* what is sent twice *)

\* no element is twice in s but d, and that not three times
Few(s, d) == \A i, j \in DOMAIN s : i < j /\ s[i] = s[j] =>
    s[i] = d /\ \A k \in DOMAIN s : s[k] = d => k \in {i, j}
Once(s, d) == \A i, j \in DOMAIN s : s[i] = d /\ s[j] = d => i = j

\* all that a page has applied and that is on its way to it
Flow(v) == shown[v] \o channel[v]

\* a snapshot is on its way, or will be
SnapshotDue(v) == socket[v].pc \in {"selected", "hello"} \/ Snapshot \in Elements(channel[v])

\* how far the stored events are: a page that waits for a snapshot has none
Cursor(v) ==
    IF SnapshotDue(v) /\ Stored(socket[v]) # {} THEN 0
    ELSE IF socket[v].lock = "replay" THEN socket[v].next ELSE socket[v].next - 1

\* how far the run's events are
Emitted(v) == IF fresh \/ (v \in targets /\ socket[v].lock # "run") THEN last - 1 ELSE last

\* The stored events end at upto and those the run sends to the page start there,
\* so that only upto can be of both.
FlowOK(cursor, upto, emitted, f) ==
    /\ Few(f, upto)
    /\ \A k \in Elements(f) \ {Snapshot} : k <= cursor \/ (upto <= k /\ k <= emitted)
    /\ cursor < upto \/ emitted < upto => Once(f, upto)

ViewFlowInv(v) == LET s == socket[v] IN
    /\ s.pc \in {"new", "gone"} => shown[v] = <<>> /\ channel[v] = <<>>
    /\ s.pc = "loaded" => shown[v] = FromTo(1, s.next - 1) /\ channel[v] = <<>>
    /\ s.pc \in {"selected", "hello"} => Snapshot \notin Elements(channel[v])
    /\ s.pc \in {"selected", "hello", "open"} =>
         /\ s.upto <= last /\ s.next <= s.upto + 1
         /\ Stored(s) # {} => s.next = s.upto + 1
         /\ FlowOK(Cursor(v), s.upto, Emitted(v), Flow(v))

FlowInv == \A v \in Views : ViewFlowInv(v)

LEMMA FewEmbeds ==
    ASSUME NEW S, NEW s \in Seq(S), NEW t \in Seq(S), NEW d, Embeds(s, t)
    PROVE  (Few(t, d) => Few(s, d)) /\ (Once(t, d) => Once(s, d))
<1>1. PICK f \in [DOMAIN s -> DOMAIN t] :
        /\ \A i, j \in DOMAIN s : i < j => f[i] < f[j]
        /\ \A i \in DOMAIN s : s[i] = t[f[i]]
  BY DEF Embeds
<1>2. DOMAIN s = 1..Len(s) /\ DOMAIN t = 1..Len(t) /\ Len(s) \in Nat /\ Len(t) \in Nat
  OBVIOUS
<1>3. \A i \in DOMAIN s : f[i] \in DOMAIN t
  OBVIOUS
<1>4. ASSUME NEW i \in DOMAIN s, NEW j \in DOMAIN s, f[i] = f[j] PROVE i = j
  <2>1. i \in Nat /\ j \in Nat /\ f[i] \in Nat /\ f[j] \in Nat
    BY <1>2, <1>3
  <2>2. ~(i < j) /\ ~(j < i)
    BY <1>1, <1>4, <2>1
  <2> QED
    BY <2>1, <2>2
<1>5. ASSUME Few(t, d), NEW i \in DOMAIN s, NEW j \in DOMAIN s, i < j, s[i] = s[j]
      PROVE  s[i] = d /\ \A k \in DOMAIN s : s[k] = d => k \in {i, j}
  <2>1. f[i] < f[j] /\ t[f[i]] = t[f[j]] /\ f[i] \in DOMAIN t /\ f[j] \in DOMAIN t
    BY <1>1, <1>3, <1>5
  <2>2. t[f[i]] = d /\ \A k \in DOMAIN t : t[k] = d => k \in {f[i], f[j]}
    BY <1>5, <2>1 DEF Few
  <2>3. ASSUME NEW k \in DOMAIN s, s[k] = d PROVE k \in {i, j}
    <3>1. f[k] \in DOMAIN t /\ t[f[k]] = d
      BY <1>1, <1>3, <2>3
    <3> QED
      BY <1>4, <2>2, <3>1
  <2> QED
    BY <1>1, <2>2, <2>3
<1>6. ASSUME Once(t, d) PROVE Once(s, d)
  BY <1>1, <1>3, <1>4, <1>6 DEF Once
<1> QED
  BY <1>5, <1>6 DEF Few

LEMMA FewAppend ==
    ASSUME NEW S, NEW s \in Seq(S), NEW e \in S, NEW d, Few(s, d),
           e \in Elements(s) => e = d /\ Once(s, d)
    PROVE  Few(Append(s, e), d)
<1> DEFINE t == Append(s, e)
<1>1. /\ Len(s) \in Nat /\ DOMAIN s = 1..Len(s) /\ DOMAIN t = 1..(Len(s) + 1)
      /\ \A i \in 1..Len(s) : t[i] = s[i]
      /\ t[Len(s) + 1] = e
  OBVIOUS
<1> HIDE DEF t
<1>2. ASSUME NEW i \in DOMAIN t, NEW j \in DOMAIN t, i < j, t[i] = t[j]
      PROVE  t[i] = d /\ \A k \in DOMAIN t : t[k] = d => k \in {i, j}
  <2>1. i \in DOMAIN s /\ t[i] = s[i] /\ (j \in DOMAIN s \/ j = Len(s) + 1)
    BY <1>1, <1>2
  <2>2. CASE j = Len(s) + 1
    <3>1. s[i] = e /\ e \in Elements(s)
      BY <1>1, <1>2, <2>1, <2>2 DEF Elements
    <3>2. e = d /\ Once(s, d)
      BY <3>1
    <3>3. ASSUME NEW k \in DOMAIN t, t[k] = d PROVE k \in {i, j}
      <4>1. CASE k = Len(s) + 1
        BY <2>2, <4>1
      <4>2. CASE k # Len(s) + 1
        <5>1. k \in DOMAIN s /\ s[k] = d
          BY <1>1, <3>3, <4>2
        <5> QED
          BY <2>1, <3>1, <3>2, <5>1 DEF Once
      <4> QED
        BY <4>1, <4>2
    <3> QED
      BY <2>1, <3>1, <3>2, <3>3
  <2>3. CASE j \in DOMAIN s
    <3>1. s[i] = s[j]
      BY <1>1, <1>2, <2>1, <2>3
    <3>2. s[i] = d /\ \A k \in DOMAIN s : s[k] = d => k \in {i, j}
      BY <1>2, <2>1, <2>3, <3>1 DEF Few
    <3>3. ~(e = d)
      <4>1. d \in Elements(s) /\ ~Once(s, d)
        <5>1. i # j
          BY <1>1, <1>2
        <5> QED
          BY <2>1, <2>3, <3>1, <3>2, <5>1 DEF Elements, Once
      <4> QED
        BY <4>1
    <3>4. ASSUME NEW k \in DOMAIN t, t[k] = d PROVE k \in {i, j}
      <4>1. k \in DOMAIN s /\ s[k] = d
        BY <1>1, <3>3, <3>4
      <4> QED
        BY <3>2, <4>1
    <3> QED
      BY <2>1, <3>2, <3>4
  <2> QED
    BY <2>1, <2>2, <2>3
<1>3. Few(t, d)
  BY <1>2 DEF Few
<1> QED
  BY <1>3 DEF t

LEMMA OnceAppend ==
    ASSUME NEW S, NEW s \in Seq(S), NEW e \in S, NEW d,
           (Once(s, d) /\ e # d) \/ d \notin Elements(s)
    PROVE  Once(Append(s, e), d)
<1> DEFINE t == Append(s, e)
<1>1. /\ Len(s) \in Nat /\ DOMAIN s = 1..Len(s) /\ DOMAIN t = 1..(Len(s) + 1)
      /\ \A i \in 1..Len(s) : t[i] = s[i]
      /\ t[Len(s) + 1] = e
  OBVIOUS
<1> HIDE DEF t
<1>2. ASSUME NEW i \in DOMAIN t, NEW j \in DOMAIN t, t[i] = d, t[j] = d PROVE i = j
  <2>1. CASE Once(s, d) /\ e # d
    <3>1. i \in DOMAIN s /\ j \in DOMAIN s /\ s[i] = d /\ s[j] = d
      BY <1>1, <1>2, <2>1
    <3> QED
      BY <2>1, <3>1 DEF Once
  <2>2. CASE d \notin Elements(s)
    <3>1. ~(i \in DOMAIN s) /\ ~(j \in DOMAIN s)
      BY <1>1, <1>2, <2>2 DEF Elements
    <3> QED
      BY <1>1, <3>1
  <2> QED
    BY <2>1, <2>2
<1>3. Once(t, d)
  BY <1>2 DEF Once
<1> QED
  BY <1>3 DEF t

\* such a sequence is at most one longer than its elements
LEMMA FewCount ==
    ASSUME NEW S, NEW s \in Seq(S), NEW d, Few(s, d)
    PROVE  Len(s) <= Cardinality(Elements(s)) + 1
<1>1. Len(s) \in Nat /\ DOMAIN s = 1..Len(s)
  OBVIOUS
<1>2. IsFiniteSet(1..Len(s)) /\ Cardinality(1..Len(s)) = Len(s)
  BY <1>1, FS_Interval
<1>3. IsFiniteSet(Elements(s)) /\ Cardinality(Elements(s)) \in Nat
  <2> DEFINE g == [i \in 1..Len(s) |-> s[i]]
  <2>1. \A i \in 1..Len(s) : g[i] \in Elements(s)
    BY <1>1 DEF Elements
  <2>2. \A e \in Elements(s) : \E i \in 1..Len(s) : g[i] = e
    BY <1>1 DEF Elements
  <2>3. g \in [1..Len(s) -> Elements(s)]
    BY <2>1
  <2> HIDE DEF g
  <2>4. g \in Surjection(1..Len(s), Elements(s))
    BY <2>2, <2>3 DEF Surjection
  <2> QED
    BY <1>2, <2>4, FS_Surjection, FS_CardinalityType
\* without the second of the two, all are different
<1>4. PICK x : \A i, j \in 1..Len(s) : i < j /\ s[i] = s[j] => j = x
  <2>1. CASE \E i, j \in 1..Len(s) : i < j /\ s[i] = s[j]
    <3>1. PICK i \in 1..Len(s), j \in 1..Len(s) : i < j /\ s[i] = s[j]
      BY <2>1
    <3>2. s[i] = d /\ s[j] = d
      BY <1>1, <3>1 DEF Few
    <3>3. ASSUME NEW k \in 1..Len(s), NEW l \in 1..Len(s), k < l, s[k] = s[l] PROVE l = j
      <4>1. i \in {k, l} /\ j \in {k, l}
        BY <1>1, <3>2, <3>3 DEF Few
      <4> QED
        BY <3>1, <3>3, <4>1
    <3> QED
      BY <3>3
  <2> QED
    BY <2>1
<1> DEFINE D == 1..Len(s) \ {x}
           h == [i \in D |-> s[i]]
<1>5. Cardinality(D) \in Nat /\ Len(s) <= Cardinality(D) + 1
  <2>1. /\ IsFiniteSet(D)
        /\ Cardinality(D) = IF x \in 1..Len(s) THEN Len(s) - 1 ELSE Len(s)
    BY <1>2, FS_RemoveElement
  <2> QED
    BY <1>1, <2>1, FS_CardinalityType
<1>6. Cardinality(D) <= Cardinality(Elements(s))
  <2>1. h \in [D -> Elements(s)]
    BY <1>1 DEF Elements
  <2>2. ASSUME NEW i \in D, NEW j \in D, h[i] = h[j] PROVE i = j
    <3>1. i \in 1..Len(s) /\ j \in 1..Len(s) /\ s[i] = s[j] /\ i # x /\ j # x
      BY <2>2
    <3>2. ~(i < j) /\ ~(j < i)
      BY <1>4, <3>1
    <3> QED
      BY <3>1, <3>2
  <2> HIDE DEF h, D
  <2>3. h \in Injection(D, Elements(s))
    BY <2>1, <2>2, Fun_IsInj
  <2> QED
    BY <1>3, <2>3, FS_Injection
<1> HIDE DEF D
<1> QED
  BY <1>1, <1>3, <1>5, <1>6

LEMMA Flows ==
    ASSUME NEW S, NEW a \in Seq(S), NEW c \in Seq(S)
    PROVE  /\ a \o c \in Seq(S)
           /\ Elements(a \o c) = Elements(a) \cup Elements(c)
           /\ Embeds(a, a \o c) /\ Embeds(c, a \o c)
<1> DEFINE t == a \o c
<1>1. /\ Len(a) \in Nat /\ DOMAIN a = 1..Len(a) /\ Len(c) \in Nat /\ DOMAIN c = 1..Len(c)
      /\ t \in Seq(S) /\ DOMAIN t = 1..(Len(a) + Len(c))
  OBVIOUS
<1>2. /\ \A i \in 1..Len(a) : t[i] = a[i]
      /\ \A i \in 1..Len(c) : t[Len(a) + i] = c[i]
  OBVIOUS
<1> HIDE DEF t
<1>3. Embeds(a, t)
  <2> DEFINE f == [i \in 1..Len(a) |-> i]
  <2>1. f \in [1..Len(a) -> 1..(Len(a) + Len(c))]
    BY <1>1
  <2>2. \A i, j \in 1..Len(a) : i < j => f[i] < f[j]
    OBVIOUS
  <2>3. \A i \in 1..Len(a) : a[i] = t[f[i]]
    BY <1>2
  <2> HIDE DEF f
  <2> QED
    BY <1>1, <2>1, <2>2, <2>3 DEF Embeds
<1>4. Embeds(c, t)
  <2> DEFINE f == [i \in 1..Len(c) |-> Len(a) + i]
  <2>1. f \in [1..Len(c) -> 1..(Len(a) + Len(c))]
    BY <1>1
  <2>2. \A i, j \in 1..Len(c) : i < j => f[i] < f[j]
    BY <1>1
  <2>3. \A i \in 1..Len(c) : c[i] = t[f[i]]
    BY <1>2
  <2> HIDE DEF f
  <2> QED
    BY <1>1, <2>1, <2>2, <2>3 DEF Embeds
<1>5. ASSUME NEW e \in Elements(t) PROVE e \in Elements(a) \cup Elements(c)
  <2>1. PICK i \in 1..(Len(a) + Len(c)) : e = t[i]
    BY <1>1 DEF Elements
  <2>2. CASE i <= Len(a)
    <3>1. i \in 1..Len(a) /\ t[i] = a[i]
      BY <1>1, <1>2, <2>2
    <3> QED
      BY <1>1, <2>1, <3>1 DEF Elements
  <2>3. CASE ~(i <= Len(a))
    <3>1. i - Len(a) \in 1..Len(c) /\ Len(a) + (i - Len(a)) = i
      BY <1>1, <2>3
    <3>2. t[i] = c[i - Len(a)]
      BY <1>2, <3>1
    <3> QED
      BY <1>1, <2>1, <3>1, <3>2 DEF Elements
  <2> QED
    BY <2>2, <2>3
<1>6. Elements(t) = Elements(a) \cup Elements(c)
  BY <1>3, <1>4, <1>5, EmbedsElements
<1> QED
  BY <1>1, <1>3, <1>4, <1>6 DEF t

\* sending, receiving and dropping an event, as the flow has them
LEMMA FlowSteps ==
    ASSUME NEW S, NEW a \in Seq(S), NEW c \in Seq(S)
    PROVE  /\ \A e \in S : a \o Append(c, e) = Append(a \o c, e)
           /\ c # <<>> => /\ Append(a, Head(c)) \o Tail(c) = a \o c
                          /\ Embeds(a \o Tail(c), a \o c)
<1>1. /\ Len(a) \in Nat /\ DOMAIN a = 1..Len(a) /\ Len(c) \in Nat /\ DOMAIN c = 1..Len(c)
  OBVIOUS
<1>2. ASSUME NEW e \in S PROVE a \o Append(c, e) = Append(a \o c, e)
  <2>1. /\ a \o Append(c, e) \in Seq(S) /\ Append(a \o c, e) \in Seq(S)
        /\ Len(a \o Append(c, e)) = Len(a) + Len(c) + 1
        /\ Len(Append(a \o c, e)) = Len(a) + Len(c) + 1
    OBVIOUS
  <2>2. ASSUME NEW i \in 1..(Len(a) + Len(c) + 1) PROVE (a \o Append(c, e))[i] = Append(a \o c, e)[i]
    BY <1>1
  <2> QED
    BY <2>1, <2>2, SeqEqual
<1>3. ASSUME c # <<>> PROVE Append(a, Head(c)) \o Tail(c) = a \o c /\ Embeds(a \o Tail(c), a \o c)
  <2> DEFINE r == Tail(c)
             t == a \o c
             u == a \o r
  <2>1. /\ r \in Seq(S) /\ Head(c) \in S /\ Head(c) = c[1] /\ Len(c) > 0 /\ Len(r) = Len(c) - 1
        /\ \A i \in 1..(Len(c) - 1) : r[i] = c[i + 1]
    BY <1>3
  <2>2. /\ t \in Seq(S) /\ Len(t) = Len(a) + Len(c) /\ DOMAIN t = 1..(Len(a) + Len(c))
        /\ \A i \in 1..Len(a) : t[i] = a[i]
        /\ \A i \in 1..Len(c) : t[Len(a) + i] = c[i]
    BY <1>1
  <2> HIDE DEF r, t
  <2>3. /\ Append(a, Head(c)) \in Seq(S) /\ Len(Append(a, Head(c))) = Len(a) + 1
        /\ \A i \in 1..Len(a) : Append(a, Head(c))[i] = a[i]
        /\ Append(a, Head(c))[Len(a) + 1] = c[1]
    BY <2>1
  <2> DEFINE b == Append(a, Head(c))
             w == b \o r
  <2>4. Append(a, Head(c)) \o r = t
    <3> HIDE DEF b
    <3>1. /\ w \in Seq(S) /\ Len(w) = Len(a) + Len(c)
          /\ \A i \in 1..(Len(a) + 1) : w[i] = b[i]
          /\ \A i \in 1..(Len(c) - 1) : w[Len(a) + 1 + i] = r[i]
      <4>1. b \in Seq(S) /\ Len(b) = Len(a) + 1
        BY <2>3 DEF b
      <4>2. /\ w \in Seq(S) /\ Len(w) = Len(b) + Len(r)
            /\ \A i \in 1..(Len(b) + Len(r)) : w[i] = IF i <= Len(b) THEN b[i] ELSE r[i - Len(b)]
        BY <2>1, <4>1, ConcatProperties
      <4> HIDE DEF w
      <4>3. ASSUME NEW i \in 1..(Len(c) - 1) PROVE w[Len(a) + 1 + i] = r[i]
        <5>1. /\ Len(a) + 1 + i \in 1..(Len(b) + Len(r)) /\ ~(Len(a) + 1 + i <= Len(b))
              /\ (Len(a) + 1 + i) - Len(b) = i
          BY <1>1, <2>1, <4>1
        <5> QED
          BY <4>2, <5>1
      <4>4. ASSUME NEW i \in 1..(Len(a) + 1) PROVE w[i] = b[i]
        <5>1. i \in 1..(Len(b) + Len(r)) /\ i <= Len(b)
          BY <1>1, <2>1, <4>1
        <5> QED
          BY <4>2, <5>1
      <4> QED
        BY <1>1, <2>1, <4>1, <4>2, <4>3, <4>4
    <3>2. (\A i \in 1..Len(a) : b[i] = a[i]) /\ b[Len(a) + 1] = c[1]
      BY <2>3 DEF b
    <3> HIDE DEF w
    <3>3. ASSUME NEW i \in 1..(Len(a) + Len(c)) PROVE w[i] = t[i]
      <4>1. CASE i <= Len(a)
        <5>1. i \in 1..Len(a) /\ i \in 1..(Len(a) + 1)
          BY <1>1, <4>1
        <5> QED
          BY <2>2, <3>1, <3>2, <5>1
      <4>2. CASE i = Len(a) + 1
        <5>1. i \in 1..(Len(a) + 1) /\ 1 \in 1..Len(c)
          BY <1>1, <2>1, <4>2
        <5> QED
          BY <2>2, <3>1, <3>2, <4>2, <5>1
      <4>3. CASE i > Len(a) + 1
        <5> DEFINE k == i - Len(a) - 1
        <5>1. k \in 1..(Len(c) - 1) /\ i = Len(a) + 1 + k
          BY <1>1, <4>3
        <5>2. k + 1 \in 1..Len(c) /\ i = Len(a) + (k + 1)
          BY <1>1, <5>1
        <5> HIDE DEF k
        <5>3. r[k] = c[k + 1]
          BY <2>1, <5>1
        <5>4. t[Len(a) + (k + 1)] = c[k + 1]
          BY <2>2, <5>2
        <5> QED
          BY <3>1, <5>1, <5>2, <5>3, <5>4
      <4> QED
        BY <1>1, <4>1, <4>2, <4>3
    <3>4. w = t
      BY <2>2, <3>1, <3>3, SeqEqual
    <3> QED
      BY <3>4 DEF w, b
  <2>5. Embeds(u, t)
    <3>1. /\ u \in Seq(S) /\ DOMAIN u = 1..(Len(a) + Len(c) - 1)
          /\ \A i \in 1..Len(a) : u[i] = a[i]
          /\ \A i \in 1..(Len(c) - 1) : u[Len(a) + i] = r[i]
      BY <1>1, <2>1
    <3> HIDE DEF u
    <3> DEFINE f == [i \in 1..(Len(a) + Len(c) - 1) |-> IF i <= Len(a) THEN i ELSE i + 1]
    <3>2. f \in [1..(Len(a) + Len(c) - 1) -> 1..(Len(a) + Len(c))]
      BY <1>1
    <3>3. \A i, j \in 1..(Len(a) + Len(c) - 1) : i < j => f[i] < f[j]
      BY <1>1
    <3>4. ASSUME NEW i \in 1..(Len(a) + Len(c) - 1) PROVE u[i] = t[f[i]]
      <4>1. CASE i <= Len(a)
        <5>1. i \in 1..Len(a) /\ f[i] = i
          BY <1>1, <4>1
        <5> QED
          BY <2>2, <3>1, <5>1
      <4>2. CASE ~(i <= Len(a))
        <5> DEFINE k == i - Len(a)
        <5>1. k \in 1..(Len(c) - 1) /\ i = Len(a) + k
          BY <1>1, <4>2
        <5>2. k + 1 \in 1..Len(c) /\ f[i] = Len(a) + (k + 1)
          BY <1>1, <4>2, <5>1
        <5> HIDE DEF k
        <5>3. r[k] = c[k + 1]
          BY <2>1, <5>1
        <5>4. t[Len(a) + (k + 1)] = c[k + 1]
          BY <2>2, <5>2
        <5> QED
          BY <3>1, <5>1, <5>2, <5>3, <5>4
      <4> QED
        BY <4>1, <4>2
    <3> HIDE DEF f
    <3> QED
      BY <2>2, <3>1, <3>2, <3>3, <3>4 DEF Embeds
  <2> QED
    BY <2>4, <2>5 DEF r, t
<1> QED
  BY <1>2, <1>3

LEMMA EmbedsTrans ==
    ASSUME NEW s, NEW t, NEW u, Embeds(s, t), Embeds(t, u)
    PROVE  Embeds(s, u)
<1>1. PICK f \in [DOMAIN s -> DOMAIN t] :
        /\ \A i, j \in DOMAIN s : i < j => f[i] < f[j]
        /\ \A i \in DOMAIN s : s[i] = t[f[i]]
  BY DEF Embeds
<1>2. PICK g \in [DOMAIN t -> DOMAIN u] :
        /\ \A i, j \in DOMAIN t : i < j => g[i] < g[j]
        /\ \A i \in DOMAIN t : t[i] = u[g[i]]
  BY DEF Embeds
<1> DEFINE h == [i \in DOMAIN s |-> g[f[i]]]
<1>3. \A i \in DOMAIN s : f[i] \in DOMAIN t /\ g[f[i]] \in DOMAIN u
  OBVIOUS
<1>4. h \in [DOMAIN s -> DOMAIN u]
  BY <1>3
<1>5. \A i, j \in DOMAIN s : i < j => h[i] < h[j]
  BY <1>1, <1>2, <1>3
<1>6. \A i \in DOMAIN s : s[i] = u[h[i]]
  BY <1>1, <1>2, <1>3
<1> HIDE DEF h
<1> QED
  BY <1>4, <1>5, <1>6 DEF Embeds

LEMMA EmbedsItself == ASSUME NEW t PROVE Embeds(t, t)
<1> DEFINE f == [i \in DOMAIN t |-> i]
<1>1. /\ f \in [DOMAIN t -> DOMAIN t]
      /\ \A i, j \in DOMAIN t : i < j => f[i] < f[j]
      /\ \A i \in DOMAIN t : t[i] = t[f[i]]
  OBVIOUS
<1> QED
  BY <1>1 DEF Embeds

LEMMA ElementsType ==
    ASSUME NEW S, NEW s \in Seq(S)
    PROVE  Elements(s) \subseteq S
<1>1. DOMAIN s = 1..Len(s) /\ \A i \in 1..Len(s) : s[i] \in S
  OBVIOUS
<1> QED
  BY <1>1 DEF Elements

\* a page is sent less, or either sender is further
LEMMA FlowLess ==
    ASSUME NEW f \in Seq(Nat), NEW g \in Seq(Nat), Embeds(g, f),
           NEW c \in Int, NEW d \in Int, NEW m \in Int, NEW n \in Int, NEW upto \in Int,
           c <= d, m <= n, FlowOK(c, upto, m, f)
    PROVE  FlowOK(d, upto, n, g)
<1>1. Few(g, upto) /\ (Once(f, upto) => Once(g, upto))
  BY FewEmbeds DEF FlowOK
<1>2. Elements(g) \subseteq Elements(f)
  BY EmbedsElements
<1>3. Elements(g) \subseteq Nat
  BY ElementsType
<1> QED
  BY <1>1, <1>2, <1>3 DEF FlowOK

\* the run sends the next event
LEMMA FlowLive ==
    ASSUME NEW f \in Seq(Nat), NEW c \in Int, NEW upto \in Nat, NEW m \in Int,
           NEW e \in Nat \ {0}, e = m + 1, upto <= e, c <= upto, FlowOK(c, upto, m, f)
    PROVE  FlowOK(c, upto, e, Append(f, e))
<1>1. /\ Append(f, e) \in Seq(Nat) /\ Elements(Append(f, e)) = Elements(f) \cup {e}
      /\ Elements(f) \subseteq Nat
  BY AppendElements, ElementsType
<1>2. \A k \in Elements(f) : k = Snapshot \/ k <= c \/ (upto <= k /\ k <= m)
  BY DEF FlowOK
<1>3. e # Snapshot
  BY DEF Snapshot
<1>4. e \in Elements(f) => e = upto /\ Once(f, upto)
  BY <1>1, <1>2, <1>3 DEF FlowOK
<1>5. Few(Append(f, e), upto)
  BY <1>4, FewAppend DEF FlowOK
<1>6. ASSUME c < upto \/ e < upto PROVE Once(Append(f, e), upto)
  <2>1. c < upto /\ Once(f, upto)
    BY <1>6 DEF FlowOK
  <2>2. e = upto => upto \notin Elements(f)
    BY <1>2, <1>3, <2>1
  <2> QED
    BY <2>1, <2>2, OnceAppend
<1>7. \A k \in Elements(Append(f, e)) \ {Snapshot} : k <= c \/ (upto <= k /\ k <= e)
  BY <1>1, <1>2
<1> QED
  BY <1>5, <1>6, <1>7 DEF FlowOK

\* the next stored event is sent
LEMMA FlowReplay ==
    ASSUME NEW f \in Seq(Nat), NEW c \in Int, NEW upto \in Nat, NEW m \in Int,
           NEW e \in Nat \ {0}, e = c + 1, e <= upto, FlowOK(c, upto, m, f)
    PROVE  FlowOK(e, upto, m, Append(f, e))
<1>1. /\ Append(f, e) \in Seq(Nat) /\ Elements(Append(f, e)) = Elements(f) \cup {e}
      /\ Elements(f) \subseteq Nat
  BY AppendElements, ElementsType
<1>2. \A k \in Elements(f) : k = Snapshot \/ k <= c \/ (upto <= k /\ k <= m)
  BY DEF FlowOK
<1>3. e # Snapshot /\ upto # Snapshot
  BY DEF Snapshot
<1>4. Once(f, upto) /\ (e \in Elements(f) => e = upto)
  BY <1>1, <1>2, <1>3 DEF FlowOK
<1>5. Few(Append(f, e), upto)
  BY <1>4, FewAppend DEF FlowOK
<1>6. ASSUME e < upto \/ m < upto PROVE Once(Append(f, e), upto)
  <2>1. e = upto => upto \notin Elements(f)
    BY <1>2, <1>3, <1>6
  <2> QED
    BY <1>4, <2>1, OnceAppend
<1>7. \A k \in Elements(Append(f, e)) \ {Snapshot} : k <= e \/ (upto <= k /\ k <= m)
  BY <1>1, <1>2
<1> QED
  BY <1>5, <1>6, <1>7 DEF FlowOK

\* the snapshot is sent
LEMMA FlowHello ==
    ASSUME NEW f \in Seq(Nat), NEW c \in Int, NEW upto \in Nat, NEW m \in Int,
           Snapshot \notin Elements(f), FlowOK(c, upto, m, f)
    PROVE  FlowOK(c, upto, m, Append(f, Snapshot))
<1>1. Snapshot \in Nat
  BY DEF Snapshot
<1>2. Elements(Append(f, Snapshot)) = Elements(f) \cup {Snapshot}
  BY <1>1, AppendElements
<1>3. Few(Append(f, Snapshot), upto)
  BY <1>1, FewAppend DEF FlowOK
<1>4. Once(f, upto) => Once(Append(f, Snapshot), upto)
  BY <1>1, OnceAppend
<1> QED
  BY <1>2, <1>3, <1>4 DEF FlowOK

\* what a page loads is there once
LEMMA FlowStart ==
    ASSUME NEW a \in Nat, NEW c \in Int, NEW upto, NEW m, a <= c
    PROVE  FlowOK(c, upto, m, FromTo(1, a))
<1>1. FromTo(1, a) = [i \in 1..a |-> i]
  BY DEF FromTo
<1>2. Few(FromTo(1, a), upto) /\ Once(FromTo(1, a), upto)
  BY <1>1 DEF Few, Once
<1>3. Elements(FromTo(1, a)) = 1..a
  BY <1>1 DEF Elements
<1> QED
  BY <1>2, <1>3 DEF FlowOK

\* the mobile app replaces all by the snapshot: what is still on its way to it
\* are events of the run
LEMMA FlowSnapshot ==
    ASSUME NEW f \in Seq(Nat), NEW r \in Seq(Nat), Embeds(r, f), Snapshot \notin Elements(r),
           NEW upto \in Nat, NEW snap \in 1..upto, NEW m \in Int, FlowOK(0, upto, m, f)
    PROVE  FlowOK(upto, upto, m, FromTo(snap, upto) \o r)
<1> DEFINE a == FromTo(snap, upto)
           n == upto + 1 - snap
           t == a \o r
<1>1. /\ n \in Nat \ {0} /\ a = [i \in 1..n |-> snap - 1 + i] /\ a \in Seq(Nat) /\ Len(a) = n
      /\ Elements(a) = snap..upto
  <2>1. snap \in Nat /\ snap > 0 /\ snap..upto \subseteq Nat /\ n \in Nat \ {0}
    OBVIOUS
  <2>2. a = [i \in 1..n |-> snap - 1 + i]
    BY DEF FromTo
  <2>3. a \in Seq(Nat) /\ Elements(a) = snap..upto
    BY <2>1, FromToElements
  <2> HIDE DEF a, n
  <2>4. DOMAIN a = 1..n
    BY <2>2
  <2>5. Len(a) = n
    BY <2>1, <2>3, <2>4, LenProperties
  <2> QED
    BY <2>1, <2>2, <2>3, <2>5
<1> HIDE DEF a
<1>2. Few(r, upto) /\ Once(r, upto)
  BY FewEmbeds DEF FlowOK
<1>3. \A k \in Elements(r) : k \in Nat /\ upto <= k /\ k <= m
  <2>1. Elements(r) \subseteq Elements(f) /\ Elements(r) \subseteq Nat
    BY EmbedsElements, ElementsType
  <2> QED
    BY <2>1 DEF FlowOK, Snapshot
<1>4. t \in Seq(Nat) /\ Elements(t) = (snap..upto) \cup Elements(r)
  <2>1. a \in Seq(Nat) /\ Elements(a) = snap..upto
    BY <1>1
  <2>2. a \o r \in Seq(Nat) /\ Elements(a \o r) = Elements(a) \cup Elements(r)
    BY <2>1, Flows
  <2> QED
    BY <2>1, <2>2
<1>5. /\ Len(r) \in Nat /\ DOMAIN r = 1..Len(r) /\ DOMAIN t = 1..(n + Len(r))
      /\ \A i \in 1..n : t[i] = snap - 1 + i
      /\ \A i \in 1..Len(r) : t[n + i] = r[i]
  <2>1. /\ Len(t) = n + Len(r)
        /\ \A i \in 1..(n + Len(r)) : t[i] = IF i <= n THEN a[i] ELSE r[i - n]
    BY <1>1, ConcatProperties
  <2> HIDE DEF n, t
  <2>2. Len(r) \in Nat /\ DOMAIN r = 1..Len(r) /\ DOMAIN t = 1..Len(t)
    BY <1>4
  <2>3. ASSUME NEW i \in 1..n PROVE t[i] = snap - 1 + i
    <3>1. i \in 1..(n + Len(r)) /\ i <= n /\ a[i] = snap - 1 + i
      BY <1>1, <2>2
    <3> QED
      BY <2>1, <3>1
  <2>4. ASSUME NEW i \in 1..Len(r) PROVE t[n + i] = r[i]
    <3> DEFINE k == n + i
    <3>1. k \in 1..(n + Len(r)) /\ ~(k <= n) /\ k - n = i
      BY <1>1, <2>2
    <3> HIDE DEF k
    <3>2. t[k] = r[i]
      BY <2>1, <3>1
    <3> QED
      BY <3>2 DEF k
  <2> QED
    BY <2>1, <2>2, <2>3, <2>4
<1> HIDE DEF t
<1>6. n \in Nat /\ snap \in Nat /\ snap - 1 + n = upto
  BY <1>1
<1> HIDE DEF n
\* upto is at n, and may be once behind it
<1>7. ASSUME NEW k \in DOMAIN t
      PROVE  \/ k \in 1..n /\ t[k] = snap - 1 + k
             \/ k - n \in 1..Len(r) /\ t[k] = r[k - n] /\ t[k] \in Elements(r)
  <2>1. CASE k <= n
    BY <1>5, <1>6, <2>1
  <2>2. CASE ~(k <= n)
    <3>1. k - n \in 1..Len(r) /\ n + (k - n) = k
      BY <1>5, <1>6, <2>2
    <3>2. t[k] = r[k - n]
      BY <1>5, <3>1
    <3> QED
      BY <1>5, <3>1, <3>2 DEF Elements
  <2> QED
    BY <2>1, <2>2
<1>8. ASSUME NEW k \in DOMAIN t, NEW l \in DOMAIN t, k > n, l > n, t[k] = t[l], k < l
      PROVE  FALSE
  <2>1. /\ k - n \in 1..Len(r) /\ t[k] = r[k - n]
        /\ l - n \in 1..Len(r) /\ t[l] = r[l - n]
        /\ k - n < l - n
    BY <1>5, <1>6, <1>7, <1>8
  <2>2. r[k - n] = upto /\ r[l - n] = upto
    BY <1>2, <1>5, <1>8, <2>1 DEF Few
  <2>3. k - n = l - n
    BY <1>2, <1>5, <2>1, <2>2 DEF Once
  <2> QED
    BY <2>1, <2>3
<1>9. ASSUME NEW i \in DOMAIN t, NEW j \in DOMAIN t, i < j, t[i] = t[j]
      PROVE  t[i] = upto /\ \A k \in DOMAIN t : t[k] = upto => k \in {i, j}
  <2>1. i <= n /\ j > n
    <3>1. ~(i > n)
      BY <1>5, <1>6, <1>8, <1>9
    <3>2. ~(j <= n)
      BY <1>5, <1>6, <1>9
    <3> QED
      BY <1>5, <1>6, <3>1, <3>2
  <2>2. t[i] = snap - 1 + i /\ t[j] \in Elements(r)
    BY <1>5, <1>6, <1>7, <2>1
  <2>3. t[i] = upto /\ t[j] = upto /\ i = n
    <3>1. upto <= t[j] /\ t[j] \in Nat
      BY <1>3, <2>2
    <3>2. i \in Nat /\ t[i] = snap - 1 + i /\ t[i] = t[j]
      BY <1>5, <1>6, <1>9, <2>2
    <3> QED
      BY <1>6, <2>1, <3>1, <3>2
  <2>4. ASSUME NEW k \in DOMAIN t, t[k] = upto PROVE k \in {i, j}
    <3>1. CASE k <= n
      BY <1>5, <1>6, <2>3, <2>4, <3>1
    <3>2. CASE k > n
      <4>1. ~(k < j) /\ ~(j < k)
        BY <1>8, <2>1, <2>3, <2>4, <3>2
      <4> QED
        BY <1>5, <1>6, <4>1
    <3> QED
      BY <1>5, <1>6, <3>1, <3>2
  <2> QED
    BY <2>3, <2>4
<1>10. ASSUME m < upto PROVE Once(t, upto)
  <2>1. Elements(r) = {}
    BY <1>3, <1>10
  <2>2. \A k \in DOMAIN t : k \in 1..n /\ t[k] = snap - 1 + k
    BY <1>7, <2>1
  <2> QED
    BY <1>6, <2>2 DEF Once
<1>11. FlowOK(upto, upto, m, t)
  BY <1>3, <1>4, <1>6, <1>9, <1>10 DEF FlowOK, Few
<1> QED
  BY <1>11 DEF t, a

\* a step of one page touches no other
LEMMA OneViewSteps ==
    ASSUME StreamTypeOK, NEW v \in Views, Select(v) \/ Watch(v)
    PROVE  OnlyView(v)
<1> USE DEF StreamTypeOK, OnlyView, server, delivery, page
<1>1. CASE Load(v)
  BY <1>1 DEF Load, Set
<1>2. CASE Select(v)
  BY <1>2 DEF Select, SelectFrom, Set
<1>3. CASE Subscribe(v) \/ Hello(v)
  BY <1>3 DEF Subscribe, Hello, Set
<1>4. CASE SendLive(v) \/ SendReplay(v)
  BY <1>4 DEF SendLive, SendReplay, SendJson, Set
<1>5. ASSUME Close(v) PROVE OnlyView(v)
  BY <1>5 DEF Close, Set
<1>6. CASE Book(v)
  <2>1. PICK queue : BookQueue(v, queue)
    BY <1>6 DEF Book
  <2> QED
    BY <1>5, <2>1 DEF BookQueue, Set
<1>7. CASE Receive(v)
  BY <1>7 DEF Receive, ApplySnapshot
<1>8. CASE Leave(v)
  BY <1>5, <1>8 DEF Leave
<1> QED
  BY <1>1, <1>2, <1>3, <1>4, <1>6, <1>7, <1>8 DEF Watch, Deliver

LEMMA WiderSeq == ASSUME NEW S, NEW T, S \subseteq T, NEW s \in Seq(S) PROVE s \in Seq(T)
<1>1. Len(s) \in Nat /\ s \in [1..Len(s) -> S]
  BY LenProperties
<1>2. s \in [1..Len(s) -> T]
  BY <1>1
<1> QED
  BY <1>1, <1>2

LEMMA FlowTypes ==
    ASSUME StreamInv, NEW v \in Views
    PROVE  /\ shown[v] \in Seq(Nat) /\ channel[v] \in Seq(Nat) /\ Flow(v) \in Seq(Nat)
           /\ Snapshot \in Elements(Flow(v)) => Snapshot \in Elements(channel[v])
           /\ Cursor(v) \in Int /\ Emitted(v) \in Int
<1>1. /\ shown[v] \in Seq(Seqs) /\ channel[v] \in Seq(Seqs \cup {Snapshot})
      /\ last \in Nat /\ socket[v].next \in Nat
  BY ViewTypes
<1>2. shown[v] \in Seq(Nat) /\ channel[v] \in Seq(Nat)
  <2>1. Seqs \subseteq Nat /\ Seqs \cup {Snapshot} \subseteq Nat
    BY DEF Seqs, Snapshot
  <2> QED
    BY <1>1, <2>1, WiderSeq
<1>3. Flow(v) \in Seq(Nat) /\ Elements(Flow(v)) = Elements(shown[v]) \cup Elements(channel[v])
  BY <1>2, Flows DEF Flow
<1>4. ~(Snapshot \in Elements(shown[v]))
  <2>1. Elements(shown[v]) \subseteq Seqs
    BY <1>1, ElementsType
  <2> QED
    BY <2>1 DEF Seqs, Snapshot
<1>5. Cursor(v) \in Int /\ Emitted(v) \in Int
  BY <1>1 DEF Cursor, Emitted
<1> QED
  BY <1>2, <1>3, <1>4, <1>5

\* a view whose part of the state stays
LEMMA FlowUndisturbed ==
    ASSUME NEW w \in Views, ViewFlowInv(w),
           last' = last, fresh' = fresh, (w \in targets') <=> (w \in targets),
           socket'[w] = socket[w], channel'[w] = channel[w], shown'[w] = shown[w]
    PROVE  ViewFlowInv(w)'
<1>1. Flow(w)' = Flow(w) /\ Cursor(w)' = Cursor(w) /\ Emitted(w)' = Emitted(w)
  BY DEF Flow, Cursor, Emitted, SnapshotDue, Stored
<1> QED
  BY <1>1 DEF ViewFlowInv, Stored

LEMMA OneFlow ==
    ASSUME FlowInv, NEW v \in Views, OnlyView(v), ViewFlowInv(v)'
    PROVE  FlowInv'
<1>1. ASSUME NEW w \in Views, w # v PROVE ViewFlowInv(w)'
  <2>1. /\ ViewFlowInv(w) /\ last' = last /\ fresh' = fresh
        /\ ((w \in targets') <=> (w \in targets))
    BY <1>1 DEF FlowInv, OnlyView
  <2>2. socket'[w] = socket[w] /\ channel'[w] = channel[w] /\ shown'[w] = shown[w]
    BY <1>1 DEF OnlyView
  <2> QED
    BY <2>1, <2>2, FlowUndisturbed
<1> QED
  BY <1>1 DEF FlowInv

\* the run commits an event, or looks up its sockets
LEMMA EmitFlow ==
    ASSUME StreamInv, FlowInv, AppendEvent \/ Aim
    PROVE  FlowInv'
<1> SUFFICES ASSUME NEW v \in Views PROVE ViewFlowInv(v)'
  BY DEF FlowInv
<1>1. ViewInv(v) /\ ViewFlowInv(v) /\ targets = {}
  BY DEF StreamInv, FlowInv, AppendEvent, Quiet, Aim
<1>2. socket' = socket /\ channel' = channel /\ shown' = shown
  BY DEF AppendEvent, Aim, delivery, page
<1>3. Flow(v)' = Flow(v) /\ Cursor(v)' = Cursor(v)
  BY <1>2 DEF Flow, Cursor, SnapshotDue, Stored
<1>4. last <= last' /\ Emitted(v) <= Emitted(v)' /\ Emitted(v)' \in Int
  <2>1. CASE AppendEvent
    BY <2>1, ViewTypes DEF AppendEvent, Quiet, Emitted
  <2>2. CASE Aim
    <3>1. socket[v].lock # "run"
      BY <1>1 DEF ViewInv, SocketOK
    <3> QED
      BY <1>1, <1>2, <2>2, <3>1, ViewTypes DEF Aim, Emitted
  <2> QED
    BY <2>1, <2>2
<1>5. ASSUME FlowOK(Cursor(v), socket[v].upto, Emitted(v), Flow(v))
      PROVE  FlowOK(Cursor(v), socket[v].upto, Emitted(v)', Flow(v))
  BY <1>4, <1>5, FlowTypes, FlowLess, EmbedsItself, ViewTypes
<1>6. last \in Nat /\ last' \in Nat /\ socket[v].upto \in Nat
  <2>1. last' = last \/ last' = last + 1
    BY DEF AppendEvent, Aim
  <2> QED
    BY <2>1, ViewTypes
<1>7. socket[v].upto <= last => socket[v].upto <= last'
  BY <1>4, <1>6
<1> QED
  BY <1>1, <1>2, <1>3, <1>5, <1>7 DEF ViewFlowInv, Stored

LEMMA LoadFlow ==
    ASSUME StreamInv, FlowInv, NEW v \in Views, Load(v)
    PROVE  ViewFlowInv(v)'
<1> DEFINE n == Least(last, RestLimit)
<1>1. n \in Nat
  BY ViewTypes, StreamAssumption DEF Least
<1>2. PICK app \in BOOLEAN :
        socket' = [socket EXCEPT ![v] = [socket[v] EXCEPT !.pc = "loaded", !.mobile = app,
                                                          !.next = n + 1]]
  BY DEF Load, Set
<1>3. /\ socket[v].pc = "new" /\ shown' = [shown EXCEPT ![v] = FromTo(1, n)]
      /\ channel' = channel
  BY DEF Load, delivery
<1> HIDE DEF n
<1>4. socket'[v].pc = "loaded" /\ socket'[v].next - 1 = n
  BY <1>1, <1>2, ViewTypes DEF Sockets, StreamInv, StreamTypeOK
<1>5. shown'[v] = FromTo(1, n) /\ channel'[v] = <<>>
  BY <1>3 DEF StreamInv, StreamTypeOK, FlowInv, ViewFlowInv
<1> QED
  BY <1>4, <1>5 DEF ViewFlowInv

\* the events the page has loaded are on its side of the cursor
LEMMA SelectFlow ==
    ASSUME StreamInv, FlowInv, NEW v \in Views, Select(v)
    PROVE  ViewFlowInv(v)'
<1> DEFINE after == socket[v].next - 1
           end == Least(last, after + ReplayLimit)
           first == IF end > SnapshotSize THEN end - SnapshotSize + 1 ELSE 1
           s == IF after = 0
                THEN [socket[v] EXCEPT !.pc = "selected", !.next = end + 1, !.upto = end,
                                       !.snap = first]
                ELSE [socket[v] EXCEPT !.pc = "selected", !.next = socket[v].next,
                                       !.upto = end, !.snap = end + 1]
<1>0. /\ s.pc = "selected" /\ s.upto = end
      /\ s.next = (IF after = 0 THEN end + 1 ELSE socket[v].next)
      /\ after # 0 => s.snap = end + 1
  <2>1. socket[v] \in Sockets
    BY ViewTypes
  <2>2. CASE after = 0
    <3>1. s = [socket[v] EXCEPT !.pc = "selected", !.next = end + 1, !.upto = end, !.snap = first]
      BY <2>2, Zenon
    <3> HIDE DEF s, after, end, first
    <3>2. s.pc = "selected" /\ s.next = end + 1 /\ s.upto = end /\ s.snap = first
      BY <2>1, <3>1 DEF Sockets
    <3> QED
      BY <2>2, <3>2, Zenon
  <2>3. CASE after # 0
    <3>1. s = [socket[v] EXCEPT !.pc = "selected", !.next = socket[v].next, !.upto = end,
                                !.snap = end + 1]
      BY <2>3, Zenon
    <3> HIDE DEF s, after, end, first
    <3>2. s.pc = "selected" /\ s.next = socket[v].next /\ s.upto = end /\ s.snap = end + 1
      BY <2>1, <3>1 DEF Sockets
    <3> QED
      BY <2>3, <3>2, Zenon
  <2> QED
    BY <2>2, <2>3, Zenon
<1> USE ViewTypes
<1>1. /\ socket[v].pc = "loaded" /\ last' = last /\ channel' = channel /\ shown' = shown
      /\ socket' = [socket EXCEPT ![v] = s]
  BY DEF Select, SelectFrom, Set, server
<1>2. after \in Nat /\ after <= last /\ end \in Nat /\ after <= end /\ end <= last
  <2>1. ViewInv(v)
    BY DEF StreamInv
  <2>2. after \in Nat /\ after <= last
    BY <1>1, <2>1 DEF ViewInv, SocketOK
  <2> QED
    BY <2>2, StreamAssumption, SMTT(20) DEF Least
<1>3. /\ s.pc = "selected" /\ s.upto = end
      /\ s.next = (IF after = 0 THEN end + 1 ELSE after + 1)
      /\ after # 0 => s.snap = end + 1
  <2> HIDE DEF s
  <2>1. socket[v].next = after + 1
    OBVIOUS
  <2> HIDE DEF after, end
  <2> QED
    BY <1>0, <2>1, Zenon
<1> HIDE DEF s
<1>4. socket'[v] = s
  BY <1>1 DEF StreamInv, StreamTypeOK
<1>5. shown[v] = FromTo(1, after) /\ channel[v] = <<>>
  BY <1>1 DEF FlowInv, ViewFlowInv
<1> HIDE DEF after, end
<1>6. Flow(v)' = FromTo(1, after)
  <2>1. Flow(v)' = shown[v] \o <<>> /\ shown[v] \in Seq(Nat)
    BY <1>1, <1>5, FlowTypes DEF Flow
  <2>2. shown[v] \o <<>> = shown[v]
    BY <2>1, ConcatEmptySeq
  <2> QED
    BY <1>5, <2>1, <2>2
<1>7. Stored(s) # {} => after = 0 /\ s.next = s.upto + 1
  BY <1>2, <1>3 DEF Stored
<1>8. after <= Cursor(v)' /\ Cursor(v)' \in Int
  <2>1. after <= s.next - 1 /\ s.next \in Nat
    BY <1>2, <1>3
  <2>2. Stored(s) # {} => after = 0
    BY <1>7
  <2>3. \/ Cursor(v)' = 0 /\ Stored(s) # {}
        \/ Cursor(v)' = s.next \/ Cursor(v)' = s.next - 1
    BY <1>4 DEF Cursor, Stored
  <2> QED
    BY <1>2, <2>1, <2>2, <2>3
<1>9. FlowOK(Cursor(v)', s.upto, Emitted(v)', Flow(v)')
  BY <1>2, <1>6, <1>8, FlowStart
<1>10. Snapshot \notin Elements(channel'[v])
  BY <1>1, <1>5 DEF Elements
<1>11. s.upto <= last' /\ s.next <= s.upto + 1
  BY <1>1, <1>2, <1>3
<1> QED
  BY <1>3, <1>4, <1>7, <1>9, <1>10, <1>11 DEF ViewFlowInv, Stored

LEMMA SubscribeFlow ==
    ASSUME StreamInv, FlowInv, NEW v \in Views, Subscribe(v)
    PROVE  ViewFlowInv(v)'
<1> DEFINE s == [socket[v] EXCEPT !.pc = "hello"]
<1>1. /\ socket[v].pc = "selected" /\ socket'[v] = s
      /\ last' = last /\ fresh' = fresh /\ targets' = targets
      /\ channel' = channel /\ shown' = shown
  BY DEF Subscribe, Set, StreamInv, StreamTypeOK, server, delivery, page
<1>2. /\ s.pc = "hello" /\ s.next = socket[v].next /\ s.upto = socket[v].upto
      /\ s.snap = socket[v].snap /\ s.lock = socket[v].lock
  BY ViewTypes DEF Sockets
<1> HIDE DEF s
<1>3. Flow(v)' = Flow(v) /\ Cursor(v)' = Cursor(v) /\ Emitted(v)' = Emitted(v)
  BY <1>1, <1>2 DEF Flow, Cursor, Emitted, SnapshotDue, Stored
<1> QED
  BY <1>1, <1>2, <1>3 DEF FlowInv, ViewFlowInv, Stored

LEMMA HelloFlow ==
    ASSUME StreamInv, FlowInv, NEW v \in Views, Hello(v)
    PROVE  ViewFlowInv(v)'
<1> DEFINE s == [socket[v] EXCEPT !.pc = "open"]
<1>1. /\ socket[v].pc = "hello" /\ socket'[v] = s
      /\ last' = last /\ fresh' = fresh /\ targets' = targets
      /\ channel'[v] = Append(channel[v], Snapshot) /\ shown' = shown
  BY DEF Hello, Set, StreamInv, StreamTypeOK, server, page
<1>2. /\ s.pc = "open" /\ s.next = socket[v].next /\ s.upto = socket[v].upto
      /\ s.snap = socket[v].snap /\ s.lock = socket[v].lock
  BY ViewTypes DEF Sockets
<1> HIDE DEF s
<1>3. Snapshot \in Nat /\ Snapshot \in Elements(channel'[v])
  <2>1. Snapshot \in Nat /\ channel[v] \in Seq(Nat)
    BY FlowTypes DEF Snapshot
  <2> QED
    BY <1>1, <2>1, AppendElements
<1>4. Cursor(v)' = Cursor(v) /\ Emitted(v)' = Emitted(v)
  BY <1>1, <1>2, <1>3 DEF Cursor, Emitted, SnapshotDue, Stored
<1>5. Flow(v)' = Append(Flow(v), Snapshot)
  <2>1. Flow(v)' = shown[v] \o Append(channel[v], Snapshot)
    BY <1>1 DEF Flow
  <2>2. shown[v] \in Seq(Nat) /\ channel[v] \in Seq(Nat)
    BY FlowTypes
  <2>3. shown[v] \o Append(channel[v], Snapshot) = Append(shown[v] \o channel[v], Snapshot)
    BY <1>3, <2>2, FlowSteps
  <2> QED
    BY <2>1, <2>3 DEF Flow
<1>6. ViewFlowInv(v)
  BY DEF FlowInv
<1>7. FlowOK(Cursor(v), s.upto, Emitted(v), Append(Flow(v), Snapshot))
  BY <1>1, <1>2, <1>6, FlowTypes, FlowHello, ViewTypes DEF ViewFlowInv
<1> QED
  BY <1>1, <1>2, <1>4, <1>5, <1>6, <1>7 DEF ViewFlowInv, Stored

\* either sender sends the event that follows its own
LEMMA SendFlow ==
    ASSUME StreamInv, FlowInv, NEW v \in Views, SendLive(v) \/ SendReplay(v)
    PROVE  ViewFlowInv(v)'
<1> USE ViewTypes
<1>1. ViewInv(v) /\ ViewFlowInv(v)
  BY DEF StreamInv, FlowInv
<1>2. PICK who \in {"run", "replay"}, e \in Nat \ {0} :
        /\ SendJson(v, who, e) /\ socket[v].pc \in {"hello", "open"}
        /\ who = "run" => v \in targets /\ e = last
        /\ who = "replay" => socket[v].next <= socket[v].upto /\ e = socket[v].next
  <2>1. CASE SendLive(v)
    <3>1. v \in targets /\ last \in Nat \ {0} /\ SendJson(v, "run", last)
      BY <2>1 DEF SendLive, StreamInv
    <3>2. socket[v].pc \in {"hello", "open"}
      BY <1>1, <3>1 DEF ViewInv, SocketOK
    <3> QED
      BY <3>1, <3>2
  <2>2. CASE SendReplay(v)
    BY <2>2 DEF SendReplay
  <2> QED
    BY <2>1, <2>2
<1> DEFINE s == [socket[v] EXCEPT !.lock = who]
<1>3. /\ socket[v].lock = "free" /\ socket'[v] = s
      /\ last' = last /\ fresh' = fresh /\ targets' = targets
      /\ channel'[v] = Append(channel[v], e) /\ shown' = shown
  BY <1>2 DEF SendJson, Set, StreamInv, StreamTypeOK, server, page
<1>4. /\ s.pc = socket[v].pc /\ s.next = socket[v].next /\ s.upto = socket[v].upto
      /\ s.snap = socket[v].snap /\ s.lock = who
  <2>1. socket[v] \in Sockets
    BY Zenon
  <2>2. s = [socket[v] EXCEPT !.lock = who]
    BY Zenon
  <2> HIDE DEF s
  <2> QED
    BY <2>1, <2>2 DEF Sockets
<1> HIDE DEF s
<1>5. Snapshot \in Elements(channel'[v]) <=> Snapshot \in Elements(channel[v])
  <2>1. channel[v] \in Seq(Nat) /\ e # Snapshot
    BY FlowTypes DEF Snapshot
  <2> QED
    BY <1>3, <2>1, AppendElements, SMTT(20)
<1>6. Flow(v)' = Append(Flow(v), e)
  <2>1. Flow(v)' = shown[v] \o Append(channel[v], e)
    BY <1>3 DEF Flow
  <2>2. shown[v] \in Seq(Nat) /\ channel[v] \in Seq(Nat)
    BY FlowTypes
  <2>3. shown[v] \o Append(channel[v], e) = Append(shown[v] \o channel[v], e)
    BY <2>2, FlowSteps
  <2> QED
    BY <2>1, <2>3 DEF Flow
<1>7. /\ socket[v].upto <= last /\ socket[v].next <= socket[v].upto + 1
      /\ Stored(socket[v]) # {} => socket[v].next = socket[v].upto + 1
      /\ FlowOK(Cursor(v), socket[v].upto, Emitted(v), Flow(v))
  BY <1>1, <1>2 DEF ViewFlowInv
<1>8. SnapshotDue(v)' = SnapshotDue(v)
  BY <1>3, <1>4, <1>5 DEF SnapshotDue
<1>9. FlowOK(Cursor(v)', socket[v].upto, Emitted(v)', Append(Flow(v), e))
  <2>1. CASE who = "run"
    <3>1. Cursor(v)' = Cursor(v) /\ Cursor(v) <= socket[v].upto
      BY <1>3, <1>4, <1>7, <1>8, <2>1 DEF Cursor, Stored
    <3>2. ~fresh /\ Emitted(v) = e - 1 /\ Emitted(v)' = e
      BY <1>2, <1>3, <1>4, <2>1 DEF Emitted, StreamInv
    <3> QED
      BY <1>2, <1>7, <2>1, <3>1, <3>2, FlowTypes, FlowLive
  <2>2. CASE who = "replay"
    <3>1. Stored(socket[v]) = {} /\ e <= socket[v].upto /\ e = socket[v].next
      BY <1>2, <1>7, <2>2
    <3>2. Cursor(v) = e - 1 /\ Cursor(v)' = e
      BY <1>3, <1>4, <2>2, <3>1 DEF Cursor, Stored
    <3>3. Emitted(v)' = Emitted(v)
      BY <1>3, <1>4, <2>2 DEF Emitted
    <3> QED
      BY <1>7, <3>1, <3>2, <3>3, FlowTypes, FlowReplay, SMTT(20)
  <2> QED
    BY <2>1, <2>2
<1> QED
  BY <1>1, <1>2, <1>3, <1>4, <1>5, <1>6, <1>9 DEF ViewFlowInv, Stored

LEMMA CloseFlow ==
    ASSUME StreamInv, NEW v \in Views, Close(v)
    PROVE  ViewFlowInv(v)'
<1>1. socket'[v].pc = "gone" /\ shown'[v] = <<>> /\ channel'[v] = <<>>
  BY DEF Close, Set, Gone, NewSocket, StreamInv, StreamTypeOK
<1> QED
  BY <1>1 DEF ViewFlowInv

\* the sender's event counts before and after it is booked
LEMMA BookFlow ==
    ASSUME StreamInv, FlowInv, NEW v \in Views, Book(v)
    PROVE  ViewFlowInv(v)'
<1> USE ViewTypes
<1>1. PICK queue : BookQueue(v, queue)
  BY DEF Book
<1>2. CASE Len(queue) > MaxPending
  BY <1>1, <1>2, CloseFlow DEF BookQueue
<1>3. CASE ~(Len(queue) > MaxPending)
  <2> DEFINE s == [socket[v] EXCEPT !.lock = "free",
                        !.next = IF socket[v].lock = "replay" THEN @ + 1 ELSE @]
  <2>1. /\ socket[v].lock # "free" /\ socket'[v] = s
        /\ targets' = IF socket[v].lock = "run" THEN targets \ {v} ELSE targets
        /\ last' = last /\ fresh' = fresh /\ channel' = channel /\ shown' = shown
    BY <1>1, <1>3 DEF BookQueue, Set, StreamInv, StreamTypeOK, page
  <2>2. /\ s.pc = socket[v].pc /\ s.upto = socket[v].upto /\ s.snap = socket[v].snap
        /\ s.lock = "free"
        /\ s.next = IF socket[v].lock = "replay" THEN socket[v].next + 1 ELSE socket[v].next
    BY DEF Sockets
  <2> HIDE DEF s
  <2>3. /\ ViewInv(v) /\ ViewFlowInv(v) /\ socket[v].lock \in {"run", "replay"}
        /\ socket[v].lock = "run" => v \in targets /\ ~fresh
        /\ socket[v].lock = "replay" => socket[v].next <= socket[v].upto
        /\ socket[v].pc \in {"hello", "open"}
    <3>1. socket[v].lock \in {"run", "replay"} /\ ViewInv(v) /\ ViewFlowInv(v)
      BY <2>1 DEF Sockets, StreamInv, FlowInv
    <3>2. socket[v].lock = "run" => v \in targets /\ ~fresh
      BY <3>1 DEF ViewInv, SocketOK, StreamInv
    <3> QED
      BY <3>1, <3>2 DEF ViewInv, SocketOK
  <2>4. socket[v].lock = "replay" => Stored(socket[v]) = {}
    BY <2>3 DEF ViewFlowInv
  <2>5. Flow(v)' = Flow(v) /\ SnapshotDue(v)' = SnapshotDue(v)
    BY <2>1, <2>2 DEF Flow, SnapshotDue
  <2>6. Cursor(v)' = Cursor(v)
    BY <2>1, <2>2, <2>3, <2>4, <2>5 DEF Cursor, Stored
  <2>7. Emitted(v)' = Emitted(v)
    BY <2>1, <2>2, <2>3 DEF Emitted
  <2>8. s.next <= s.upto + 1 /\ (Stored(s) # {} => s.next = s.upto + 1)
    BY <2>2, <2>3, <2>4 DEF ViewFlowInv, Stored
  <2> QED
    BY <2>1, <2>2, <2>3, <2>5, <2>6, <2>7, <2>8 DEF ViewFlowInv
<1> QED
  BY <1>2, <1>3

\* what arrives leaves the flow as it is, but for a snapshot
LEMMA ReceiveFlow ==
    ASSUME StreamInv, FlowInv, NEW v \in Views, Receive(v)
    PROVE  ViewFlowInv(v)'
<1> DEFINE s == socket[v]
           n == Head(channel[v])
<1> USE ViewTypes
<1>1. /\ Subscribed(v) /\ channel[v] # <<>> /\ channel'[v] = Tail(channel[v])
      /\ last' = last /\ fresh' = fresh /\ targets' = targets /\ socket' = socket
  BY DEF Receive, server, StreamInv, StreamTypeOK
<1>2. PICK a, c : a = shown[v] /\ c = channel[v]
  OBVIOUS
<1>3. /\ a \in Seq(Nat) /\ c \in Seq(Nat) /\ Tail(c) \in Seq(Nat) /\ n \in Nat /\ n = Head(c)
      /\ Elements(c) = Elements(Tail(c)) \cup {n}
  <2>1. a \in Seq(Nat) /\ c \in Seq(Nat)
    BY <1>2, FlowTypes
  <2> QED
    BY <1>1, <1>2, <2>1, TailElements
<1>4. /\ Append(a, n) \o Tail(c) = a \o c
      /\ Embeds(a \o Tail(c), a \o c) /\ a \o Tail(c) \in Seq(Nat)
      /\ Embeds(Tail(c), a \o Tail(c))
  <2>1. Append(a, Head(c)) \o Tail(c) = a \o c /\ Embeds(a \o Tail(c), a \o c)
    BY <1>1, <1>2, <1>3, FlowSteps, ZenonT(30)
  <2>2. a \o Tail(c) \in Seq(Nat) /\ Embeds(Tail(c), a \o Tail(c))
    BY <1>3, Flows
  <2> QED
    BY <1>3, <2>1, <2>2
<1>5. ViewFlowInv(v) /\ ViewInv(v) /\ Flow(v) = a \o c /\ Emitted(v)' = Emitted(v)
  BY <1>1, <1>2 DEF FlowInv, StreamInv, Flow, Emitted
<1>6. /\ s.upto <= last /\ s.next <= s.upto + 1
      /\ Stored(s) # {} => s.next = s.upto + 1
      /\ FlowOK(Cursor(v), s.upto, Emitted(v), a \o c)
      /\ s.pc = "hello" => Snapshot \notin Elements(c)
  BY <1>1, <1>2, <1>5 DEF ViewFlowInv, Subscribed
\* it is enough that the flow is right for the cursor
<1>7. ASSUME FlowOK(Cursor(v)', s.upto, Emitted(v), Flow(v)') PROVE ViewFlowInv(v)'
  <2>1. s.pc = "hello" => Snapshot \notin Elements(channel'[v])
    BY <1>1, <1>2, <1>3, <1>6
  <2> QED
    BY <1>1, <1>5, <1>6, <1>7, <2>1 DEF ViewFlowInv, Stored, Subscribed
<1>8. CASE n # Snapshot
  <2>1. shown'[v] = Append(shown[v], n)
    BY <1>8 DEF Receive, StreamInv, StreamTypeOK
  <2>2. Flow(v)' = a \o c
    BY <1>1, <1>2, <1>4, <2>1 DEF Flow
  <2>3. SnapshotDue(v)' = SnapshotDue(v)
    BY <1>1, <1>2, <1>3, <1>8 DEF SnapshotDue
  <2>4. Cursor(v)' = Cursor(v)
    BY <1>1, <2>3 DEF Cursor, Stored
  <2> QED
    BY <1>6, <1>7, <2>2, <2>4
<1>9. CASE n = Snapshot
  <2>1. SnapshotDue(v) /\ s.pc = "open"
    BY <1>1, <1>2, <1>3, <1>6, <1>9 DEF SnapshotDue, Subscribed
  <2>2. Cursor(v) <= Cursor(v)' /\ Cursor(v) \in Int /\ Cursor(v)' \in Int
    BY <1>1, <2>1 DEF Cursor, Stored
  <2>3. Emitted(v) \in Int /\ a \o c \in Seq(Nat)
    BY <1>5, FlowTypes
  <2>4. ASSUME NEW g \in Seq(Nat), Embeds(g, a \o c)
        PROVE  FlowOK(Cursor(v)', s.upto, Emitted(v), g)
    <3>1. PICK f, i, j, m, upto :
            /\ f = a \o c /\ i = Cursor(v) /\ j = Cursor(v)' /\ m = Emitted(v)
            /\ upto = s.upto
      BY Zenon
    <3>2. /\ f \in Seq(Nat) /\ i \in Int /\ j \in Int /\ m \in Int /\ upto \in Int
          /\ FlowOK(i, upto, m, f) /\ i <= j /\ m <= m /\ Embeds(g, f)
      BY <1>6, <2>2, <2>3, <2>4, <3>1
    <3>3. FlowOK(j, upto, m, g)
      BY <3>2, FlowLess
    <3> QED
      BY <3>1, <3>3
  <2>5. CASE ~s.mobile
    <3>1. shown' = shown
      BY <1>9, <2>5 DEF Receive, ApplySnapshot
    <3>2. Flow(v)' = a \o Tail(c)
      BY <1>1, <1>2, <3>1 DEF Flow
    <3>3. FlowOK(Cursor(v)', s.upto, Emitted(v), a \o Tail(c))
      BY <1>4, <2>4
    <3> QED
      BY <1>7, <3>2, <3>3
  <2>6. CASE s.mobile /\ Stored(s) = {}
    <3>1. shown'[v] = FromTo(s.snap, s.upto)
      BY <1>9, <2>6 DEF Receive, ApplySnapshot, StreamInv, StreamTypeOK
    <3>2. FromTo(s.snap, s.upto) = <<>>
      <4>1. s.upto + 1 - s.snap <= 0 /\ s.upto + 1 - s.snap \in Int
        BY <2>6 DEF Stored
      <4>2. 1..(s.upto + 1 - s.snap) = {}
        BY <4>1
      <4> QED
        BY <4>2 DEF FromTo
    <3>3. Flow(v)' = Tail(c)
      <4>1. Flow(v)' = <<>> \o Tail(c)
        BY <1>1, <1>2, <3>1, <3>2 DEF Flow
      <4> QED
        BY <1>3, <4>1, ConcatEmptySeq
    <3>4. Embeds(Tail(c), a \o c)
      BY <1>4, EmbedsTrans
    <3>5. FlowOK(Cursor(v)', s.upto, Emitted(v), Tail(c))
      BY <1>3, <2>4, <3>4
    <3> QED
      BY <1>7, <3>3, <3>5
  <2>7. CASE s.mobile /\ Stored(s) # {}
    <3>1. shown'[v] = FromTo(s.snap, s.upto)
      BY <1>9, <2>7 DEF Receive, ApplySnapshot, StreamInv, StreamTypeOK
    <3>2. Flow(v)' = FromTo(s.snap, s.upto) \o Tail(c)
      BY <1>1, <1>2, <3>1 DEF Flow
    <3>3. s.snap \in 1..s.upto /\ s.upto \in Nat \ {0} /\ s.next = s.upto + 1
      BY <1>6, <2>7 DEF Stored
    <3>4. s.lock # "replay"
      BY <1>5, <3>3 DEF ViewInv, SocketOK
    <3>5. Embeds(Tail(c), a \o c)
      BY <1>4, EmbedsTrans
    <3>6. Snapshot \notin Elements(Tail(c))
      <4>1. Few(c, s.upto)
        BY <1>3, <1>6, Flows, FewEmbeds DEF FlowOK
      <4>2. ASSUME Snapshot \in Elements(Tail(c)) PROVE FALSE
        <5>1. /\ Len(c) \in Nat /\ Len(c) > 0 /\ DOMAIN c = 1..Len(c) /\ Head(c) = c[1]
              /\ DOMAIN Tail(c) = 1..(Len(c) - 1)
              /\ \A i \in 1..(Len(c) - 1) : Tail(c)[i] = c[i + 1]
          BY <1>1, <1>2, <1>3
        <5>2. PICK i \in 1..(Len(c) - 1) : Snapshot = c[i + 1]
          BY <4>2, <5>1 DEF Elements
        <5>3. i + 1 \in DOMAIN c /\ 1 \in DOMAIN c /\ 1 < i + 1 /\ c[1] = c[i + 1]
          BY <1>3, <1>9, <5>1, <5>2
        <5>4. Snapshot = s.upto
          BY <4>1, <5>2, <5>3 DEF Few
        <5> QED
          BY <3>3, <5>4 DEF Snapshot
      <4> QED
        BY <4>2
    <3>7. Cursor(v) = 0
      BY <2>1, <2>7 DEF Cursor
    <3>8. Cursor(v)' = s.upto
      <4>1. ~SnapshotDue(v)'
        BY <1>1, <1>2, <2>1, <3>6 DEF SnapshotDue
      <4> QED
        BY <1>1, <3>3, <3>4, <4>1 DEF Cursor
    <3>9. FlowOK(s.upto, s.upto, Emitted(v), FromTo(s.snap, s.upto) \o Tail(c))
      BY <1>3, <1>6, <2>3, <3>3, <3>5, <3>6, <3>7, FlowSnapshot
    <3> QED
      BY <1>7, <3>2, <3>8, <3>9
  <2> QED
    BY <2>5, <2>6, <2>7
<1> QED
  BY <1>8, <1>9

LEMMA CrashFlow ==
    ASSUME StreamInv, FlowInv, StreamCrash
    PROVE  FlowInv'
<1> SUFFICES ASSUME NEW v \in Views PROVE ViewFlowInv(v)'
  BY DEF FlowInv
<1> DEFINE open == socket[v].pc \notin {"new", "loaded"}
<1>1. /\ socket'[v] = IF open THEN Gone ELSE socket[v]
      /\ channel'[v] = IF open THEN <<>> ELSE channel[v]
      /\ shown'[v] = IF open THEN <<>> ELSE shown[v]
  BY DEF StreamCrash
<1>2. CASE open
  BY <1>1, <1>2 DEF ViewFlowInv, Gone, NewSocket
<1>3. CASE ~open
  BY <1>1, <1>3 DEF FlowInv, ViewFlowInv
<1> QED
  BY <1>2, <1>3

LEMMA FlowInvNext == StreamInv /\ FlowInv /\ [StreamNext]_stream => FlowInv'
<1> SUFFICES ASSUME StreamInv, FlowInv, [StreamNext]_stream PROVE FlowInv'
  OBVIOUS
<1>1. ASSUME NEW v \in Views, Select(v) \/ Watch(v) PROVE FlowInv'
  <2>1. ViewFlowInv(v)'
    <3>1. CASE Load(v)
      BY <3>1, LoadFlow
    <3>2. CASE Select(v)
      BY <3>2, SelectFlow
    <3>3. CASE Subscribe(v)
      BY <3>3, SubscribeFlow
    <3>4. CASE Hello(v)
      BY <3>4, HelloFlow
    <3>5. CASE SendLive(v) \/ SendReplay(v)
      BY <3>5, SendFlow
    <3>6. CASE Book(v)
      BY <3>6, BookFlow
    <3>7. CASE Receive(v)
      BY <3>7, ReceiveFlow
    <3>8. CASE Leave(v)
      BY <3>8, CloseFlow DEF Leave
    <3> QED
      BY <1>1, <3>1, <3>2, <3>3, <3>4, <3>5, <3>6, <3>7, <3>8 DEF Watch, Deliver
  <2>2. OnlyView(v)
    BY <1>1, OneViewSteps DEF StreamInv
  <2> QED
    BY <2>1, <2>2, OneFlow
<1>2. CASE AppendEvent \/ Aim
  BY <1>2, EmitFlow
<1>3. CASE StreamCrash
  BY <1>3, CrashFlow
<1>4. CASE UNCHANGED stream
  <2>1. /\ last' = last /\ fresh' = fresh /\ targets' = targets /\ socket' = socket
        /\ channel' = channel /\ shown' = shown
    BY <1>4 DEF stream, server, delivery, page
  <2> QED
    BY <2>1, FlowUndisturbed DEF FlowInv
<1> QED
  BY <1>1, <1>2, <1>3, <1>4 DEF StreamNext

\* A page's applied events and those on their way have no event twice but the
\* last stored one, and that not three times.
THEOREM FlowInvariant == StreamSpec => []FlowInv
<1>1. StreamInit => FlowInv
  BY DEF StreamInit, FlowInv, ViewFlowInv, NewSocket
<1>2. StreamInv /\ FlowInv /\ [StreamNext]_stream => FlowInv'
  BY FlowInvNext
<1> QED
  BY <1>1, <1>2, StreamInvariant, PTL DEF StreamSpec

LEMMA InvOneDouble == StreamInv /\ FlowInv => AtMostOneDouble
<1> SUFFICES ASSUME StreamInv, FlowInv, NEW v \in Views
             PROVE  Len(shown[v]) <= Cardinality(Elements(shown[v])) + 1
  BY DEF AtMostOneDouble
<1>1. ViewFlowInv(v) /\ shown[v] \in Seq(Nat) /\ channel[v] \in Seq(Nat)
  BY FlowTypes DEF FlowInv
<1>2. PICK d : Few(shown[v], d)
  <2>1. CASE socket[v].pc \in {"new", "gone"}
    <3>1. shown[v] = <<>>
      BY <1>1, <2>1 DEF ViewFlowInv
    <3>2. Few(shown[v], 0)
      BY <3>1 DEF Few
    <3> QED
      BY <3>2
  <2>2. CASE socket[v].pc = "loaded"
    <3> DEFINE n == socket[v].next - 1
    <3>1. shown[v] = FromTo(1, n) /\ n \in Nat
      BY <1>1, <2>2, ViewTypes DEF ViewFlowInv
    <3> HIDE DEF n
    <3>2. FlowOK(n, 0, 0, FromTo(1, n))
      BY <3>1, FlowStart
    <3> QED
      BY <3>1, <3>2 DEF FlowOK
  <2>3. CASE socket[v].pc \in {"selected", "hello", "open"}
    <3>1. Few(Flow(v), socket[v].upto)
      BY <1>1, <2>3 DEF ViewFlowInv, FlowOK
    <3>2. Embeds(shown[v], Flow(v)) /\ Flow(v) \in Seq(Nat)
      BY <1>1, Flows DEF Flow
    <3> QED
      BY <1>1, <3>1, <3>2, FewEmbeds
  <2> QED
    BY <2>1, <2>2, <2>3, ViewTypes DEF Sockets
<1> QED
  BY <1>1, <1>2, FewCount

\* No page applies more than one event twice, or one three times, whatever the
\* order of its replay, its snapshot and the run's events.
THEOREM OnlyOneDouble == StreamSpec => []AtMostOneDouble
<1>1. StreamInv /\ FlowInv => AtMostOneDouble
  BY InvOneDouble
<1> QED
  BY <1>1, StreamInvariant, FlowInvariant, PTL
=============================================================================

------------------------ MODULE WebSocketClientProofs ------------------------
(***************************************************************************)
(* Theorems about WebSocketClient, for any number of calls and drops.      *)
(***************************************************************************)
EXTENDS WebSocketClient, SequenceTheorems, TLAPS

(***************************************************************************)
(* The inductive invariant.  isConnecting is not tied to the current       *)
(* socket by the code: disconnect() forgets the socket and keeps the flag, *)
(* and the events of any socket clear it.  What holds is that the flag     *)
(* never survives the failure of the current socket, and that without a    *)
(* current socket it stands for one whose failure is still to be reported. *)
(***************************************************************************)
SocketTypes ==
    /\ sock \in [Sockets -> {"unused", "connecting", "open", "failing", "ending",
                             "failed", "ended"}]
    /\ ws \in Sockets \cup {0}
    /\ isConnecting \in BOOLEAN
    /\ timer \in BOOLEAN

Owed == \E i \in Sockets : sock[i] = "failing"

BusyMeans ==
    isConnecting => \/ ws # 0 /\ sock[ws] \in {"connecting", "failing"}
                    \/ ws = 0 /\ Owed

ConnInv == SocketTypes /\ BusyMeans /\ NeverStranded /\ QueuedOnlyOffline

LEMMA ZeroIsNoSocket == 0 \notin Sockets
BY BoundsAssumption DEF Sockets

LEMMA ConnInit == Init => ConnInv
BY ZeroIsNoSocket DEF Init, ConnInv, SocketTypes, BusyMeans, NeverStranded,
                      QueuedOnlyOffline, IsOpen

\* connect() leaves the application with a connection, or with something that
\* makes one, unless it was open or busy before.
LEMMA ConnectStep ==
    ASSUME NEW s \in [Sockets -> {"unused", "connecting", "open", "failing", "ending",
                                  "failed", "ended"}],
           NEW p, NEW b \in BOOLEAN, ws \in Sockets \cup {0},
           b => \/ ws # 0 /\ s[ws] \in {"connecting", "failing"}
                \/ ws = 0 /\ \E i \in Sockets : s[i] = "failing",
           (ws # 0 /\ s[ws] = "open") => queue = <<>>,
           ConnectFrom(s, p, b), timer' \in BOOLEAN, UNCHANGED queue
    PROVE  ConnInv'
<1>1. CASE b \/ (ws # 0 /\ s[ws] = "open")
  <2>1. sock' = s /\ isConnecting' = b /\ ws' = ws
    BY <1>1 DEF ConnectFrom
  <2>. QED
    BY <1>1, <2>1 DEF ConnInv, SocketTypes, BusyMeans, Owed, NeverStranded,
                      QueuedOnlyOffline, IsOpen
<1>2. CASE ~ (b \/ (ws # 0 /\ s[ws] = "open"))
  <2>1. PICK i \in Sockets : /\ sock' = [s EXCEPT ![i] = "connecting"]
                             /\ ws' = i /\ isConnecting' = TRUE
    BY <1>2 DEF ConnectFrom
  <2>2. sock'[ws'] = "connecting" /\ ws' # 0
    BY <2>1, ZeroIsNoSocket
  <2>. QED
    BY <2>1, <2>2 DEF ConnInv, SocketTypes, BusyMeans, NeverStranded, QueuedOnlyOffline, IsOpen
<1>. QED
  BY <1>1, <1>2

LEMMA ConnStep == ConnInv /\ [Next]_vars => ConnInv'
<1> SUFFICES ASSUME ConnInv, [Next]_vars PROVE ConnInv'
  OBVIOUS
<1>0. 0 \notin Sockets
  BY ZeroIsNoSocket
<1>1. CASE Connect
  BY <1>1, ConnectStep DEF Connect, retryVars, outboxVars, ConnInv, SocketTypes, BusyMeans,
                           Owed, QueuedOnlyOffline, IsOpen
<1>2. CASE Disconnect
  <2>1. /\ ws' = 0 /\ timer' = FALSE /\ goal' = "off"
        /\ UNCHANGED <<isConnecting, queue>>
    BY <1>2 DEF Disconnect, Call, outboxVars
  <2>2. /\ sock' \in [Sockets -> {"unused", "connecting", "open", "failing", "ending",
                                  "failed", "ended"}]
        /\ ws # 0 /\ sock[ws] \in {"connecting", "failing"} => sock'[ws] = "failing"
        /\ ws = 0 => UNCHANGED sock
    BY <1>2 DEF Disconnect, CloseCurrent, ConnInv, SocketTypes
  <2>. QED
    BY <2>1, <2>2 DEF ConnInv, SocketTypes, BusyMeans, Owed, NeverStranded,
                      QueuedOnlyOffline, IsOpen
<1>3. CASE Send
  BY <1>3 DEF Send, socketVars, retryVars, boundVars, ConnInv, SocketTypes, BusyMeans, Owed,
              NeverStranded, QueuedOnlyOffline, IsOpen
<1>4. CASE TimerFires
  BY <1>4, ConnectStep DEF TimerFires, outboxVars, ConnInv, SocketTypes, BusyMeans,
                           Owed, QueuedOnlyOffline, IsOpen
<1>5. ASSUME NEW i \in Sockets, SocketOpens(i) PROVE ConnInv'
  <2>1. /\ sock[i] = "connecting" /\ sock' = [sock EXCEPT ![i] = "open"]
        /\ isConnecting' = FALSE
        /\ UNCHANGED <<ws, timer, goal>>
    BY <1>5 DEF SocketOpens, boundVars
  <2>2. QueuedOnlyOffline'
    BY <1>5, <2>1 DEF SocketOpens, Flush, QueuedOnlyOffline, IsOpen
  <2>3. NeverStranded'
    BY <2>1 DEF ConnInv, SocketTypes, NeverStranded
  <2>. QED
    BY <2>1, <2>2, <2>3 DEF ConnInv, SocketTypes, BusyMeans
<1>6. ASSUME NEW i \in Sockets, SocketDrops(i) PROVE ConnInv'
  <2>1. /\ sock[i] \in {"connecting", "open"}
        /\ \/ sock' = [sock EXCEPT ![i] = "failing"]
           \/ sock[i] = "open" /\ sock' = [sock EXCEPT ![i] = "ending"]
        /\ UNCHANGED <<ws, timer, goal, isConnecting, queue>>
    BY <1>6 DEF SocketDrops, retryVars, outboxVars
  <2>. QED
    BY <2>1 DEF ConnInv, SocketTypes, BusyMeans, Owed, NeverStranded, QueuedOnlyOffline, IsOpen
<1>7. ASSUME NEW i \in Sockets, SocketCloses(i) PROVE ConnInv'
  <2> DEFINE s == [sock EXCEPT ![i] = IF @ = "failing" THEN "failed" ELSE "ended"]
  <2>1. /\ sock[i] \in {"failing", "ending"}
        /\ timer' = (timer \/ sock[i] = "failing")
        /\ UNCHANGED queue
    BY <1>7 DEF SocketCloses, Reconnects, outboxVars
  <2>2. /\ s \in [Sockets -> {"unused", "connecting", "open", "failing", "ending",
                              "failed", "ended"}]
        /\ (ws # 0 /\ s[ws] = "open") => queue = <<>>
    BY <2>1 DEF ConnInv, SocketTypes, QueuedOnlyOffline, IsOpen
  <2>3. ASSUME NEW p, ConnectFrom(s, p, BusyAfterClose) PROVE ConnInv'
    BY <2>1, <2>2, <2>3, ConnectStep DEF BusyAfterClose, ConnInv, SocketTypes
  <2>4. CASE sock' = s /\ isConnecting' = BusyAfterClose /\ UNCHANGED <<ws, goal>>
    <3>1. NeverStranded'
      BY <2>1, <2>4 DEF ConnInv, SocketTypes, NeverStranded
    <3>. QED
      BY <2>1, <2>2, <2>4, <3>1 DEF BusyAfterClose, ConnInv, SocketTypes, BusyMeans,
                                    QueuedOnlyOffline, IsOpen
  <2>. QED
    BY <1>7, <2>3, <2>4 DEF SocketCloses
<1>8. CASE UNCHANGED vars
  BY <1>8 DEF vars, socketVars, retryVars, outboxVars, boundVars, ConnInv, SocketTypes,
              BusyMeans, Owed, NeverStranded, QueuedOnlyOffline, IsOpen
<1>. QED
  BY <1>1, <1>2, <1>3, <1>4, <1>5, <1>6, <1>7, <1>8 DEF Next

\* The flag that makes connect() a no-op is never stuck.
THEOREM BusyAlwaysEnds == Spec => []BusyEnds
<1>1. ConnInv => BusyEnds
  BY DEF ConnInv, SocketTypes, BusyMeans, Owed, BusyEnds
<1>. QED
  BY <1>1, ConnInit, ConnStep, PTL DEF Spec

\* Whatever the sockets' events interleave with, an application that wants the
\* connection has it, or something under way restores it.
THEOREM ConnectionIsRestored == Spec => []NeverStranded
<1>1. ConnInv => NeverStranded
  BY DEF ConnInv
<1>. QED
  BY <1>1, ConnInit, ConnStep, PTL DEF Spec

\* No message is left in the queue of an open connection.
THEOREM QueueIsFlushed == Spec => []QueuedOnlyOffline
<1>1. ConnInv => QueuedOnlyOffline
  BY DEF ConnInv
<1>. QED
  BY <1>1, ConnInit, ConnStep, PTL DEF Spec

-----------------------------------------------------------------------------
(* The outbox.                                                              *)

(***************************************************************************)
(* The order of the messages, part by part: those sent, those waiting, and *)
(* the former before the latter.  It is not inductive by itself: a message *)
(* that is sent at once would overtake a queue that is not empty, which    *)
(* ConnInv excludes (QueuedOnlyOffline), and it is new because the numbers *)
(* do not exceed made.                                                     *)
(***************************************************************************)
Increasing(s) == \A i, j \in 1 .. Len(s) : i < j => s[i] < s[j]

Precedes(s, t) == \A i \in 1 .. Len(s), j \in 1 .. Len(t) : s[i] < t[j]

Ordered(s, q, m) ==
    /\ s \in Seq(1 .. m) /\ q \in Seq(1 .. m)
    /\ Increasing(s) /\ Increasing(q) /\ Precedes(s, q)

\* Numbers that only grow.
LEMMA SeqOfMore ==
    ASSUME NEW m \in Nat, NEW s \in Seq(1 .. m)
    PROVE  s \in Seq(1 .. m + 1)
<1>1. 1 .. m \subseteq 1 .. m + 1
  OBVIOUS
<1>. QED
  BY <1>1, SeqMonotonic

\* A new message is the last one.
LEMMA AppendNew ==
    ASSUME NEW m \in Nat, NEW s \in Seq(1 .. m), Increasing(s)
    PROVE  /\ Append(s, m + 1) \in Seq(1 .. m + 1)
           /\ Len(Append(s, m + 1)) = Len(s) + 1
           /\ Increasing(Append(s, m + 1))
<1>1. s \in Seq(1 .. m + 1) /\ m + 1 \in 1 .. m + 1
  BY SeqOfMore
<1>2. PICK n \in Nat : n = Len(s)
  BY LenProperties
<1>3. \A i \in 1 .. n : s[i] \in 1 .. m
  BY <1>2, ElementOfSeq
<1>4. /\ Append(s, m + 1) \in Seq(1 .. m + 1)
      /\ Len(Append(s, m + 1)) = n + 1
      /\ \A i \in 1 .. n : Append(s, m + 1)[i] = s[i]
      /\ Append(s, m + 1)[n + 1] = m + 1
  BY <1>1, <1>2, AppendProperties
<1>5. ASSUME NEW i \in 1 .. n + 1, NEW j \in 1 .. n + 1, i < j
      PROVE  Append(s, m + 1)[i] < Append(s, m + 1)[j]
  <2>1. CASE j <= n
    BY <1>2, <1>4, <1>5, <2>1 DEF Increasing
  <2>2. CASE j = n + 1
    BY <1>3, <1>4, <1>5, <2>2
  <2>. QED
    BY <1>2, <1>5, <2>1, <2>2
<1>. QED
  BY <1>2, <1>4, <1>5 DEF Increasing

\* It is sent after all that were sent.
LEMMA SendNow ==
    ASSUME NEW m \in Nat, NEW s, Ordered(s, <<>>, m)
    PROVE  Ordered(Append(s, m + 1), <<>>, m + 1)
<1>1. <<>> \in Seq(1 .. m + 1) /\ Len(<<>>) = 0
  BY EmptySeq
<1>. QED
  BY <1>1, AppendNew DEF Ordered, Increasing, Precedes

\* The last part of a queue.
LEMMA QueueEnds ==
    ASSUME NEW m \in Nat, NEW s, NEW q, Ordered(s, q, m), NEW e \in 0 .. Len(q)
    PROVE  /\ Ordered(s, SubSeq(q, e + 1, Len(q)), m)
           /\ Len(SubSeq(q, e + 1, Len(q))) = Len(q) - e
<1>1. s \in Seq(1 .. m) /\ q \in Seq(1 .. m) /\ Increasing(q) /\ Precedes(s, q)
  BY DEF Ordered
<1>2. PICK n \in Nat : n = Len(q)
  BY <1>1, LenProperties
<1>3. \A i \in e + 1 .. n : q[i] \in 1 .. m
  BY <1>1, <1>2, ElementOfSeq
<1>4. PICK t \in Seq(1 .. m) :
          /\ t = SubSeq(q, e + 1, n) /\ Len(t) = n - e
          /\ \A i \in 1 .. n - e : t[i] = q[e + i]
  <2>1. /\ SubSeq(q, e + 1, n) \in Seq(1 .. m)
        /\ Len(SubSeq(q, e + 1, n)) = IF e + 1 <= n THEN n - (e + 1) + 1 ELSE 0
        /\ \A i \in 1 .. n - (e + 1) + 1 : SubSeq(q, e + 1, n)[i] = q[e + 1 + i - 1]
    BY <1>2, <1>3, SubSeqProperties
  <2>2. ASSUME NEW i \in 1 .. n - e PROVE SubSeq(q, e + 1, n)[i] = q[e + i]
    <3>1. i \in 1 .. n - (e + 1) + 1 /\ e + 1 + i - 1 = e + i
      BY <1>2
    <3>. QED
      BY <2>1, <3>1
  <2>3. Len(SubSeq(q, e + 1, n)) = n - e
    BY ONLY <1>2, <2>1, e \in 0 .. Len(q)
  <2>. QED
    BY ONLY <1>2, <2>1, <2>2, <2>3
<1>5. ASSUME NEW i \in 1 .. n - e PROVE e + i \in 1 .. n /\ t[i] = q[e + i]
  BY <1>2, <1>4
<1>6. Increasing(t)
  <2> SUFFICES ASSUME NEW i \in 1 .. n - e, NEW j \in 1 .. n - e, i < j PROVE t[i] < t[j]
    BY <1>4 DEF Increasing
  <2>1. e + i < e + j
    BY <1>2
  <2>. QED
    BY <1>1, <1>2, <1>5, <2>1 DEF Increasing
<1>7. Precedes(s, t)
  BY <1>1, <1>2, <1>4, <1>5 DEF Precedes
<1>. QED
  BY <1>1, <1>2, <1>4, <1>6, <1>7 DEF Ordered

\* It is queued after all that wait.
LEMMA SendLater ==
    ASSUME NEW m \in Nat, NEW s, NEW q, Ordered(s, q, m), Len(q) <= QueueMax
    PROVE  /\ Ordered(s, Enqueue(q, m + 1), m + 1)
           /\ Len(Enqueue(q, m + 1)) <= QueueMax
<1>1. PICK r : /\ r = IF Len(q) >= QueueMax THEN Tail(q) ELSE q
               /\ Enqueue(q, m + 1) = Append(r, m + 1)
  BY DEF Enqueue
<1>2. q \in Seq(1 .. m) /\ Len(q) \in Nat
  BY LenProperties DEF Ordered
<1>3. Ordered(s, r, m) /\ Len(r) \in Nat /\ Len(r) < QueueMax
  <2>1. CASE Len(q) >= QueueMax
    <3>1. Len(q) = QueueMax /\ q # <<>>
      BY <1>2, <2>1, BoundsAssumption, EmptySeq
    <3>2. Tail(q) = SubSeq(q, 1 + 1, Len(q))
      BY <1>2, <3>1, TailIsSubSeq
    <3>3. 1 \in 0 .. Len(q)
      BY <3>1, BoundsAssumption
    <3>4. Ordered(s, Tail(q), m) /\ Len(Tail(q)) = Len(q) - 1
      BY <3>2, <3>3, QueueEnds
    <3>5. r = Tail(q)
      BY <1>1, <2>1
    <3>. QED
      BY <3>1, <3>4, <3>5, BoundsAssumption
  <2>2. CASE ~ (Len(q) >= QueueMax)
    BY <1>1, <1>2, <2>2, BoundsAssumption
  <2>. QED
    BY <2>1, <2>2
<1>4. /\ s \in Seq(1 .. m) /\ Increasing(s) /\ r \in Seq(1 .. m) /\ Increasing(r)
      /\ Precedes(s, r)
  BY <1>3 DEF Ordered
<1>5. /\ Append(r, m + 1) \in Seq(1 .. m + 1) /\ Increasing(Append(r, m + 1))
      /\ Len(Append(r, m + 1)) = Len(r) + 1
  BY <1>4, AppendNew
<1>6. /\ \A i \in 1 .. Len(r) : Append(r, m + 1)[i] = r[i]
      /\ Append(r, m + 1)[Len(r) + 1] = m + 1
  <2>1. r \in Seq(1 .. m + 1) /\ m + 1 \in 1 .. m + 1
    BY <1>4, SeqOfMore
  <2>. QED
    BY <2>1, AppendProperties
<1>7. Precedes(s, Append(r, m + 1))
  <2> SUFFICES ASSUME NEW i \in 1 .. Len(s), NEW j \in 1 .. Len(r) + 1
               PROVE  s[i] < Append(r, m + 1)[j]
    BY <1>5 DEF Precedes
  <2>1. s[i] \in 1 .. m
    BY <1>4, ElementOfSeq
  <2>2. CASE j = Len(r) + 1
    BY <1>6, <2>1, <2>2
  <2>3. CASE j \in 1 .. Len(r)
    BY <1>4, <1>6, <2>3 DEF Precedes
  <2>. QED
    BY <1>3, <2>2, <2>3
<1>8. s \in Seq(1 .. m + 1)
  BY <1>4, SeqOfMore
<1>9. Ordered(s, Append(r, m + 1), m + 1)
  BY <1>4, <1>5, <1>7, <1>8 DEF Ordered
<1>10. Len(Append(r, m + 1)) <= QueueMax
  BY <1>3, <1>5, BoundsAssumption
<1>. QED
  BY <1>1, <1>9, <1>10

\* What waited is sent behind what was sent.
LEMMA FlushAll ==
    ASSUME NEW m \in Nat, NEW s, NEW q, Ordered(s, q, m)
    PROVE  Ordered(s \o q, <<>>, m)
<1>1. /\ s \in Seq(1 .. m) /\ q \in Seq(1 .. m)
      /\ Increasing(s) /\ Increasing(q) /\ Precedes(s, q)
  BY DEF Ordered
<1>2. PICK n \in Nat, k \in Nat : n = Len(s) /\ k = Len(q)
  BY <1>1, LenProperties
<1>3. /\ s \o q \in Seq(1 .. m)
      /\ Len(s \o q) = n + k
      /\ \A i \in 1 .. n + k : (s \o q)[i] = IF i <= n THEN s[i] ELSE q[i - n]
  BY <1>1, <1>2, ConcatProperties
<1>4. ASSUME NEW i \in 1 .. n + k, NEW j \in 1 .. n + k, i < j
      PROVE  (s \o q)[i] < (s \o q)[j]
  <2>1. CASE j <= n
    BY <1>1, <1>2, <1>3, <1>4, <2>1 DEF Increasing
  <2>2. CASE i <= n /\ n < j
    <3>1. i \in 1 .. n /\ j - n \in 1 .. k /\ ~ (j <= n)
      BY <1>2, <1>4, <2>2
    <3>2. s[i] < q[j - n]
      BY <1>1, <1>2, <3>1 DEF Precedes
    <3>3. (s \o q)[i] = s[i] /\ (s \o q)[j] = q[j - n]
      BY <1>3, <2>2, <3>1
    <3>. QED
      BY <3>2, <3>3
  <2>3. CASE n < i
    <3>1. /\ i - n \in 1 .. k /\ j - n \in 1 .. k /\ i - n < j - n
          /\ ~ (i <= n) /\ ~ (j <= n)
      BY <1>2, <1>4, <2>3
    <3>2. q[i - n] < q[j - n]
      BY <1>1, <1>2, <3>1 DEF Increasing
    <3>3. (s \o q)[i] = q[i - n] /\ (s \o q)[j] = q[j - n]
      BY <1>3, <3>1
    <3>. QED
      BY <3>2, <3>3
  <2>. QED
    BY <1>2, <1>4, <2>1, <2>2, <2>3
<1>5. <<>> \in Seq(1 .. m) /\ Len(<<>>) = 0
  BY EmptySeq
<1>. QED
  BY <1>3, <1>4, <1>5 DEF Ordered, Increasing, Precedes

\* The whole order from its parts.
LEMMA OrderOfParts ==
    ASSUME made \in Nat, Ordered(sent, queue, made)
    PROVE  SentOnceInOrder
<1>1. Ordered(sent \o queue, <<>>, made)
  BY FlushAll
<1>2. sent \o queue \in Seq(1 .. made) /\ Increasing(sent \o queue)
  BY <1>1 DEF Ordered
<1>3. DOMAIN (sent \o queue) = 1 .. Len(sent \o queue)
  BY <1>2, LenProperties
<1>. QED
  BY <1>2, <1>3 DEF SentOnceInOrder, Increasing

OutboxInv ==
    /\ made \in 0 .. MaxMessages
    /\ Ordered(sent, queue, made) /\ Len(queue) <= QueueMax

LEMMA OutboxInit == Init => OutboxInv
<1> SUFFICES ASSUME Init PROVE OutboxInv
  OBVIOUS
<1>1. <<>> \in Seq(1 .. 0) /\ Len(<<>>) = 0
  BY EmptySeq
<1>. QED
  BY <1>1, BoundsAssumption DEF Init, OutboxInv, Ordered, Increasing, Precedes

LEMMA OutboxStep == ConnInv /\ OutboxInv /\ [Next]_vars => OutboxInv'
<1> SUFFICES ASSUME ConnInv, OutboxInv, [Next]_vars PROVE OutboxInv'
  OBVIOUS
<1>t. made \in Nat /\ Ordered(sent, queue, made) /\ Len(queue) <= QueueMax
      /\ queue \in Seq(1 .. made) /\ Len(queue) \in Nat
  BY BoundsAssumption, LenProperties DEF OutboxInv, Ordered
<1>u. ASSUME UNCHANGED outboxVars PROVE OutboxInv'
  BY <1>u DEF OutboxInv, outboxVars
<1>1. ASSUME Send PROVE OutboxInv'
  <2>1. made' = made + 1 /\ made' \in 0 .. MaxMessages
    BY <1>1, BoundsAssumption DEF Send, OutboxInv
  <2>2. CASE IsOpen(ws)
    <3>1. queue = <<>>
      BY <2>2 DEF ConnInv, QueuedOnlyOffline
    <3>2. sent' = Append(sent, made + 1) /\ queue' = <<>>
      BY <1>1, <2>1, <2>2, <3>1 DEF Send
    <3>3. Ordered(Append(sent, made + 1), <<>>, made + 1)
      BY <1>t, <3>1, SendNow
    <3>. QED
      BY <1>t, <2>1, <3>1, <3>2, <3>3 DEF OutboxInv
  <2>3. CASE ~ IsOpen(ws)
    <3>1. queue' = Enqueue(queue, made + 1) /\ sent' = sent
      BY <1>1, <2>1, <2>3 DEF Send
    <3>2. /\ Ordered(sent, Enqueue(queue, made + 1), made + 1)
          /\ Len(Enqueue(queue, made + 1)) <= QueueMax
      BY <1>t, SendLater
    <3>. QED
      BY <2>1, <3>1, <3>2 DEF OutboxInv
  <2>. QED
    BY <2>2, <2>3
<1>2. ASSUME NEW i \in Sockets, SocketOpens(i) PROVE OutboxInv'
  <2>1. PICK e \in 0 .. Len(queue) :
            Flush(ws # 0 /\ sock'[ws] = "open", SubSeq(queue, e + 1, Len(queue)))
    BY <1>2 DEF SocketOpens
  <2>2. PICK v : v = SubSeq(queue, e + 1, Len(queue))
    OBVIOUS
  <2>3. Ordered(sent, v, made) /\ Len(v) <= QueueMax
    <3>1. Ordered(sent, v, made) /\ Len(v) = Len(queue) - e
      BY <1>t, <2>2, QueueEnds
    <3>. QED
      BY <1>t, <3>1, BoundsAssumption
  <2>4. made' = made
    BY <1>2 DEF SocketOpens
  <2>5. CASE sent' = sent \o v /\ queue' = <<>>
    <3>1. Ordered(sent \o v, <<>>, made)
      BY <1>t, <2>3, FlushAll
    <3>2. Len(<<>>) <= QueueMax
      BY EmptySeq, BoundsAssumption
    <3>. QED
      BY <2>4, <2>5, <3>1, <3>2 DEF OutboxInv
  <2>6. CASE sent' = sent /\ queue' = v
    BY <2>3, <2>4, <2>6 DEF OutboxInv
  <2>. QED
    BY <2>1, <2>2, <2>5, <2>6 DEF Flush
<1>3. ASSUME \/ Connect \/ Disconnect \/ TimerFires
             \/ \E i \in Sockets : SocketDrops(i) \/ SocketCloses(i)
             \/ UNCHANGED vars
      PROVE  UNCHANGED outboxVars
  BY <1>3 DEF Connect, Disconnect, TimerFires, SocketDrops, SocketCloses, vars
<1>. QED
  BY <1>1, <1>2, <1>3, <1>u DEF Next

\* Messages are transmitted in the order of the send() calls and none twice, for any
\* size of the queue and any number of sockets, drops and messages (flushMessageQueue
\* and queueMessage, websocket-client.ts).
THEOREM MessagesAreInOrder == Spec => []SentOnceInOrder
<1>1. OutboxInv => SentOnceInOrder
  BY OrderOfParts, BoundsAssumption DEF OutboxInv
<1>2. ConnInv /\ OutboxInv /\ [Next]_vars => (ConnInv /\ OutboxInv)'
  BY ConnStep, OutboxStep
<1>. QED
  BY <1>1, <1>2, ConnInit, OutboxInit, PTL DEF Spec

\* What the invariants do not say of the types: promises, delays, pings and bounds.
RestTypes ==
    /\ promise \in [Sockets -> {"none", "pending", "resolved", "rejected"}]
    /\ reconnectAttempt \in 0 .. (Delays - 1)
    /\ ping \in Sockets \cup {0} /\ pings \subseteq Sockets
    /\ goal \in {"on", "off"} /\ calls \in 0 .. MaxCalls /\ drops \in 0 .. MaxDrops

LEMMA RestStep == RestTypes /\ [Next]_vars => RestTypes'
<1> SUFFICES ASSUME RestTypes, [Next]_vars PROVE RestTypes'
  OBVIOUS
<1>c. ASSUME NEW g \in {"on", "off"}, Call(g)
      PROVE  goal' \in {"on", "off"} /\ calls' \in 0 .. MaxCalls
  BY <1>c, BoundsAssumption DEF Call, RestTypes
<1>p. ASSUME NEW s, NEW p \in [Sockets -> {"none", "pending", "resolved", "rejected"}], NEW b,
             ConnectFrom(s, p, b)
      PROVE  promise' \in [Sockets -> {"none", "pending", "resolved", "rejected"}]
  BY <1>p DEF ConnectFrom
<1>1. CASE Connect
  BY <1>1, <1>c, <1>p DEF Connect, RestTypes, retryVars, pingVars
<1>2. CASE Disconnect
  <2>1. /\ reconnectAttempt' \in 0 .. (Delays - 1)
        /\ ping' \in Sockets \cup {0} /\ pings' \subseteq Sockets
        /\ promise' = promise
    BY <1>2, BoundsAssumption DEF Disconnect, StopPing, RestTypes
  <2>2. drops' \in 0 .. MaxDrops
    BY <1>2, BoundsAssumption DEF Disconnect, CloseCurrent, RestTypes
  <2>. QED
    BY <1>2, <1>c, <2>1, <2>2 DEF Disconnect, RestTypes
<1>3. CASE Send
  BY <1>3 DEF Send, RestTypes, socketVars, retryVars, pingVars, boundVars
<1>4. CASE TimerFires
  <2>1. reconnectAttempt' \in 0 .. (Delays - 1)
    BY <1>4, BoundsAssumption DEF TimerFires, RestTypes
  <2>. QED
    BY <1>4, <1>p, <2>1 DEF TimerFires, RestTypes, pingVars, boundVars
<1>5. ASSUME NEW i \in Sockets, SocketOpens(i) PROVE RestTypes'
  BY <1>5, BoundsAssumption DEF SocketOpens, RestTypes, boundVars
<1>6. ASSUME NEW i \in Sockets, SocketDrops(i) PROVE RestTypes'
  <2>1. drops' \in 0 .. MaxDrops
    BY <1>6, BoundsAssumption DEF SocketDrops, RestTypes
  <2>. QED
    BY <1>6, <2>1 DEF SocketDrops, RestTypes, retryVars, pingVars
<1>7. ASSUME NEW i \in Sockets, SocketCloses(i) PROVE RestTypes'
  <2>1. [promise EXCEPT ![i] = IF @ = "pending" THEN "rejected" ELSE @]
            \in [Sockets -> {"none", "pending", "resolved", "rejected"}]
    BY DEF RestTypes
  <2>2. promise' \in [Sockets -> {"none", "pending", "resolved", "rejected"}]
    BY <1>7, <1>p, <2>1 DEF SocketCloses, RestTypes
  <2>3. goal' \in {"on", "off"} /\ calls' \in 0 .. MaxCalls
    BY <1>7, <1>c DEF SocketCloses, RestTypes
  <2>. QED
    BY <1>7, <2>2, <2>3 DEF SocketCloses, StopPing, RestTypes
<1>8. CASE UNCHANGED vars
  BY <1>8 DEF vars, socketVars, retryVars, pingVars, boundVars, RestTypes
<1>. QED
  BY <1>1, <1>2, <1>3, <1>4, <1>5, <1>6, <1>7, <1>8 DEF Next

\* Every field of the client keeps its type; the queue never exceeds its bound, and
\* the index into RECONNECT_DELAYS never leaves the table.
THEOREM TypesKept == Spec => []TypeOK
<1>1. Init => RestTypes
  BY BoundsAssumption DEF Init, RestTypes
<1>2. ConnInv /\ OutboxInv /\ RestTypes => TypeOK
  BY DEF ConnInv, SocketTypes, OutboxInv, Ordered, RestTypes, TypeOK
<1>3. ConnInv /\ OutboxInv /\ RestTypes /\ [Next]_vars => (ConnInv /\ OutboxInv /\ RestTypes)'
  BY ConnStep, OutboxStep, RestStep
<1>. QED
  BY <1>1, <1>2, <1>3, ConnInit, OutboxInit, PTL DEF Spec
=============================================================================

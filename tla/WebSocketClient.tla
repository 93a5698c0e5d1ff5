---------------------------- MODULE WebSocketClient ----------------------------
(***************************************************************************)
(* The connection and the outbox of transport/websocket-client.ts.         *)
(*                                                                         *)
(* connect() replaces this.ws by a new socket whenever this.ws is not open *)
(* and isConnecting is false.  The callbacks of a replaced socket stay     *)
(* installed, and every callback works on the one client object: a late    *)
(* event of an old socket changes the state of the current one.            *)
(*                                                                         *)
(* readyState is compared with OPEN only, so the other values are kept as  *)
(* far as the events to come need them: "failing" and "ending" sockets owe *)
(* their close event, with wasClean false and true.  Delays, the access    *)
(* token and what messages say are abstracted; messages are numbered in    *)
(* the order of the send() calls.                                          *)
(***************************************************************************)
EXTENDS Naturals, Sequences

CONSTANTS QueueMax,     \* MESSAGE_QUEUE_MAX
          Delays,       \* length of RECONNECT_DELAYS
          MaxCalls,     \* bound: connect() and disconnect() calls
          MaxDrops,     \* bound: connections the network loses
          MaxMessages   \* bound: send() calls

ASSUME BoundsAssumption ==
    /\ QueueMax \in Nat \ {0} /\ Delays \in Nat \ {0}
    /\ MaxCalls \in Nat /\ MaxDrops \in Nat /\ MaxMessages \in Nat

VARIABLES
    sock,             \* sock[i]: the i-th WebSocket the client creates
    promise,          \* promise[i]: what connect() returned for it
    ws,               \* the current socket, or 0 for null
    isConnecting,
    reconnectAttempt, \* up to the index of the last delay, where it stops mattering
    timer,            \* reconnectTimeout is set
    ping,             \* the interval in pingInterval (by socket), or 0 for null
    pings,            \* the intervals that are running
    queue,            \* messageQueue
    made,             \* send() calls made
    sent,             \* history: the messages passed to an open socket
    goal,             \* history: the last of connect() and disconnect() called
    calls,            \* connect() and disconnect() calls made
    drops             \* connections lost by the network

socketVars == <<sock, promise, ws, isConnecting>>
retryVars  == <<reconnectAttempt, timer>>
pingVars   == <<ping, pings>>
outboxVars == <<queue, made, sent>>
boundVars  == <<goal, calls, drops>>
vars == <<socketVars, retryVars, pingVars, outboxVars, boundVars>>

\* A call opens at most one socket, directly or by the reconnect that its
\* close event schedules; so does a drop.
Sockets == 1 .. (MaxCalls + MaxDrops)

TypeOK ==
    /\ sock \in [Sockets -> {"unused", "connecting", "open", "failing", "ending",
                             "failed", "ended"}]
    /\ promise \in [Sockets -> {"none", "pending", "resolved", "rejected"}]
    /\ ws \in Sockets \cup {0}
    /\ isConnecting \in BOOLEAN /\ timer \in BOOLEAN
    /\ reconnectAttempt \in 0 .. (Delays - 1)
    /\ ping \in Sockets \cup {0} /\ pings \subseteq Sockets
    /\ queue \in Seq(1 .. made) /\ Len(queue) <= QueueMax
    /\ made \in 0 .. MaxMessages
    /\ sent \in Seq(1 .. made)
    /\ goal \in {"on", "off"} /\ calls \in 0 .. MaxCalls /\ drops \in 0 .. MaxDrops

Init ==
    /\ sock = [i \in Sockets |-> "unused"]
    /\ promise = [i \in Sockets |-> "none"]
    /\ ws = 0 /\ isConnecting = FALSE
    /\ reconnectAttempt = 0 /\ timer = FALSE
    /\ ping = 0 /\ pings = {}
    /\ queue = <<>> /\ made = 0 /\ sent = <<>>
    /\ goal = "off" /\ calls = 0 /\ drops = 0

-----------------------------------------------------------------------------

IsOpen(i) == i # 0 /\ sock[i] = "open"

Unused == {i \in Sockets : sock[i] = "unused"}

Fresh(i) == i \in Unused /\ \A j \in Unused : i <= j

\* connect(), called when the sockets are in state s, the promises in state p
\* and isConnecting is busy: nothing, or a new current socket.
ConnectFrom(s, p, busy) ==
    \/ /\ busy \/ (ws # 0 /\ s[ws] = "open")
       /\ sock' = s /\ promise' = p /\ isConnecting' = busy
       /\ UNCHANGED ws
    \/ /\ ~ busy /\ ~ (ws # 0 /\ s[ws] = "open")
       /\ \E i \in Sockets :
             /\ Fresh(i)
             /\ sock' = [s EXCEPT ![i] = "connecting"]
             /\ promise' = [p EXCEPT ![i] = "pending"]
             /\ ws' = i
       /\ isConnecting' = TRUE

StopPing ==
    /\ pings' = pings \ {ping}
    /\ ping' = 0

\* Mutant: messageQueue is not emptied before the messages are sent.
FlushKeeps(open, valid) ==
    IF open THEN sent' = sent \o valid /\ UNCHANGED queue
            ELSE queue' = valid /\ UNCHANGED sent

\* Every valid message goes through send() again: to the current socket if it
\* is open, and back to the queue if not.
Flush(open, valid) ==
    IF open THEN sent' = sent \o valid /\ queue' = <<>>
            ELSE queue' = valid /\ UNCHANGED sent

-----------------------------------------------------------------------------
(* The application.                                                        *)

Call(g) == calls < MaxCalls /\ calls' = calls + 1 /\ goal' = g

Connect ==
    /\ Call("on")
    /\ ConnectFrom(sock, promise, isConnecting)
    /\ UNCHANGED <<retryVars, pingVars, outboxVars, drops>>

\* close() on a connecting socket fails it; on an open one it starts the
\* closing handshake, which the peer may never finish.  isConnecting stays.
CloseCurrent ==
    IF ws = 0 \/ sock[ws] \notin {"connecting", "open"} THEN UNCHANGED <<sock, drops>>
    ELSE \/ sock[ws] = "connecting" /\ sock' = [sock EXCEPT ![ws] = "failing"]
            /\ UNCHANGED drops
         \/ sock[ws] = "open" /\ sock' = [sock EXCEPT ![ws] = "ending"]
            /\ UNCHANGED drops
         \/ sock[ws] = "open" /\ sock' = [sock EXCEPT ![ws] = "failing"]
            /\ drops < MaxDrops /\ drops' = drops + 1

Disconnect ==
    /\ Call("off")
    /\ timer' = FALSE /\ reconnectAttempt' = 0
    /\ StopPing
    /\ CloseCurrent
    /\ ws' = 0
    /\ UNCHANGED <<promise, isConnecting, outboxVars>>

\* Mutant: a full queue grows.
EnqueueAll(q, m) == Append(q, m)

\* Mutant: a message is queued in front.
EnqueueFirst(q, m) == <<m>> \o (IF Len(q) >= QueueMax THEN Tail(q) ELSE q)

\* queueMessage: a full queue loses its oldest message.
Enqueue(q, m) == Append(IF Len(q) >= QueueMax THEN Tail(q) ELSE q, m)

Send ==
    /\ made < MaxMessages
    /\ made' = made + 1
    /\ IF IsOpen(ws) THEN sent' = Append(sent, made') /\ UNCHANGED queue
                     ELSE queue' = Enqueue(queue, made') /\ UNCHANGED sent
    /\ UNCHANGED <<socketVars, retryVars, pingVars, boundVars>>

-----------------------------------------------------------------------------
(* The sockets and the timer.                                              *)

\* onopen.  The messages older than a minute are a prefix of the queue.
SocketOpens(i) ==
    /\ sock[i] = "connecting"
    /\ sock' = [sock EXCEPT ![i] = "open"]
    /\ isConnecting' = FALSE
    /\ reconnectAttempt' = 0
    /\ ping' = i /\ pings' = pings \cup {i}
    /\ \E expired \in 0 .. Len(queue) :
          Flush(ws # 0 /\ sock'[ws] = "open", SubSeq(queue, expired + 1, Len(queue)))
    /\ promise' = [promise EXCEPT ![i] = "resolved"]
    /\ UNCHANGED <<ws, timer, made, boundVars>>

\* The network gives up a connection, or the server ends it.
SocketDrops(i) ==
    /\ \/ /\ sock[i] \in {"connecting", "open"}
          /\ drops < MaxDrops /\ drops' = drops + 1
          /\ sock' = [sock EXCEPT ![i] = "failing"]
       \/ /\ sock[i] = "open"
          /\ sock' = [sock EXCEPT ![i] = "ending"]
          /\ UNCHANGED drops
    /\ UNCHANGED <<promise, ws, isConnecting, retryVars, pingVars, outboxVars, goal, calls>>

\* Mutant: the flag of a failed attempt stays set.
BusyStays == isConnecting

BusyAfterClose == FALSE

\* Mutant: the client gives up after the last delay.
RetriesRunOut(i) == sock[i] = "failing" /\ reconnectAttempt < Delays - 1

Reconnects(i) == sock[i] = "failing"

\* onclose.  The disconnect handlers of the application run before the client
\* decides on a reconnect, and before the test of isConnecting that guards
\* reject(): that test only succeeds when a handler called connect().
SocketCloses(i) ==
    /\ sock[i] \in {"failing", "ending"}
    /\ StopPing
    /\ timer' = (timer \/ Reconnects(i))
    /\ LET s == [sock EXCEPT ![i] = IF @ = "failing" THEN "failed" ELSE "ended"]
           p == [promise EXCEPT ![i] = IF @ = "pending" THEN "rejected" ELSE @]
       IN  \/ Call("on") /\ ConnectFrom(s, p, BusyAfterClose) /\ isConnecting'
           \/ Call("on") /\ ConnectFrom(s, promise, BusyAfterClose) /\ ~ isConnecting'
           \/ /\ sock' = s /\ isConnecting' = BusyAfterClose
              /\ UNCHANGED <<promise, ws, goal, calls>>
    /\ UNCHANGED <<reconnectAttempt, outboxVars, drops>>

TimerFires ==
    /\ timer
    /\ timer' = FALSE
    /\ reconnectAttempt' = IF reconnectAttempt < Delays - 1 THEN reconnectAttempt + 1
                           ELSE reconnectAttempt
    /\ ConnectFrom(sock, promise, isConnecting)
    /\ UNCHANGED <<pingVars, outboxVars, boundVars>>

Next ==
    \/ Connect \/ Disconnect \/ Send \/ TimerFires
    \/ \E i \in Sockets : SocketOpens(i) \/ SocketDrops(i) \/ SocketCloses(i)

Spec == Init /\ [][Next]_vars

\* A socket that connects opens or fails, one that closes says so, and a
\* timeout fires.
Fairness ==
    /\ WF_vars(TimerFires)
    /\ \A i \in Sockets : WF_vars(SocketOpens(i)) /\ WF_vars(SocketCloses(i))

FairSpec == Spec /\ Fairness

-----------------------------------------------------------------------------
(* Properties.                                                             *)

\* Whatever sockets open and close meanwhile, messages are transmitted in the
\* order of the send() calls and none of them twice; a queued message is newer
\* than every transmitted one.
SentOnceInOrder ==
    LET order == sent \o queue
    IN  \A i, j \in DOMAIN order : i < j => order[i] < order[j]

\* No message waits in the queue while there is an open connection to send it.
QueuedOnlyOffline == IsOpen(ws) => queue = <<>>

\* isConnecting, which turns connect() into a no-op, is only set while some
\* socket still owes the event that clears it, although disconnect() leaves
\* it set.
BusyEnds ==
    isConnecting => \E i \in Sockets : sock[i] \in {"connecting", "failing"}

\* An application that last asked for a connection has one, or it was closed
\* by agreement with the server, or something is under way to restore it: a
\* timer, or the close event of a socket that disconnect() failed while it was
\* connecting, which is all that remains of a connect() call that found
\* isConnecting still set.
NeverStranded ==
    goal = "on" =>
        \/ timer
        \/ ws # 0 /\ sock[ws] # "failed"
        \/ ws = 0 /\ \E i \in Sockets : sock[i] = "failing"

\* A connection that is asked for is made, if the network fails finitely often
\* and neither the application nor the server ends it.
Recovers ==
    goal = "on" ~> \/ IsOpen(ws) \/ goal = "off"
                   \/ ws # 0 /\ sock[ws] \in {"ending", "ended"}
=============================================================================

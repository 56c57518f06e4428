---------------------------- MODULE ClientSession ----------------------------
(***************************************************************************)
(* The packets of one client that plays by the rules, from its hello to    *)
(* its end: the receive, hash-check and info threads of the client         *)
(* (NetClient.cpp), the two byte streams, and the read callback, heartbeat *)
(* worker and monitor of the server (Server.cs).  Both ends take one packet *)
(* from each read, so packets that arrive together are lost but the first. *)
(***************************************************************************)
EXTENDS Integers, Sequences, FiniteSets

CONSTANTS
    HashPeriod,     \* time units between the hash checks of the client (30 minutes)
    MaxHashDelay,   \* time units the monitor waits for one (maxHashCheckDelayMinutes)
    MaxHeartbeats   \* bound: heartbeats sent and not answered yet

ASSUME SessionAssumption ==
    /\ HashPeriod \in Nat \ {0} /\ MaxHashDelay \in Nat
    /\ HashPeriod <= MaxHashDelay
    /\ MaxHeartbeats \in Nat \ {0}

VARIABLES
    status,         \* "open", or how the server or the client ended the session
    toServer, toClient,
    handled,        \* the read callback has handled a packet and not begun the next read
    inHeartbeatLoop,    \* in_heartbeat_loop
    worker,         \* the heartbeat worker: "none", "queued", "sent"
    expected,       \* heartbeat_responses from current_heartbeat_count on
    cookie,         \* the next cookie
    hashAge,        \* time since LastHashCheckTime
    handshakeCompleted,
    sinceHash,      \* time since the client's last hash check
    lost            \* history: the kinds of packets lost in a read

streams == <<toServer, toClient, lost>>
callbackVars == <<handled, expected, hashAge>>
workerVars == <<inHeartbeatLoop, worker, cookie>>
clientVars == <<handshakeCompleted, sinceHash>>
vars == <<status, streams, callbackVars, workerVars, clientVars>>

-----------------------------------------------------------------------------

\* The cookies are used in turn: none is used again while a packet may hold it.
Cookies == 0..2 * MaxHeartbeats
Packet(kind) == [kind |-> kind, cookie |-> 0]
Heartbeat(k) == [kind |-> "heartbeat", cookie |-> k]
Kinds == {"hello", "heartbeat", "hash", "info"}
Packets == [kind: Kinds, cookie: Cookies]

\* The client has connected and sent its hello.
Init ==
    /\ status = "open"
    /\ toServer = <<Packet("hello")>>
    /\ toClient = <<>>
    /\ handled = FALSE
    /\ inHeartbeatLoop = FALSE
    /\ worker = "none"
    /\ expected = <<>>
    /\ cookie = 0
    /\ hashAge = 0
    /\ handshakeCompleted = FALSE
    /\ sinceHash = HashPeriod
    /\ lost = {}

\* A read returns the first n packets of a stream; the code looks at the first.
After(stream, n) == SubSeq(stream, n + 1, Len(stream))
LostIn(stream, n) == {stream[k].kind : k \in 2..n}

-----------------------------------------------------------------------------
(* The server *)

\* The answer to the hello, and the check of a heartbeat: it must answer the entry of
\* heartbeat_responses whose turn it is; without one the look-up throws and the packet is
\* refused as well.
Answer(p) ==
    toClient' = IF p.kind = "hello" THEN Append(toClient, Packet("hello")) ELSE toClient
CheckHeartbeat(p) ==
    IF p.kind = "heartbeat"
    THEN /\ status' = IF expected # <<>> /\ Head(expected) = p.cookie
                      THEN "open" ELSE "rejected"
         /\ expected' = IF expected = <<>> THEN expected ELSE Tail(expected)
    ELSE UNCHANGED <<status, expected>>

\* Variant: the time of the hash check is not taken.
HandleWithoutTime(p) ==
    handled' = TRUE /\ Answer(p) /\ CheckHeartbeat(p) /\ UNCHANGED hashAge

\* HandlePacket
Handle(p) ==
    /\ handled' = TRUE
    /\ Answer(p) /\ CheckHeartbeat(p)
    /\ hashAge' = IF p.kind = "hash" THEN 0 ELSE hashAge

\* Only one read is begun at a time.
ReceiveOnServer(n) ==
    /\ status = "open" /\ ~handled
    /\ Handle(toServer[1])
    /\ toServer' = After(toServer, n)
    /\ lost' = lost \cup LostIn(toServer, n)
    /\ UNCHANGED <<workerVars, clientVars>>

\* After every packet a worker is queued unless one is waiting; then the next read begins.
QueueWorker ==
    /\ status = "open" /\ handled
    /\ handled' = FALSE
    /\ \/ /\ ~inHeartbeatLoop
          /\ inHeartbeatLoop' = TRUE
          /\ worker' = "queued"
       \/ /\ inHeartbeatLoop
          /\ UNCHANGED <<inHeartbeatLoop, worker>>
    /\ UNCHANGED <<status, streams, expected, hashAge, cookie, clientVars>>

\* Variant: only the last cookie is kept.
SendHeartbeatKeepsLast ==
    /\ status = "open" /\ worker = "queued"
    /\ Len(expected) < MaxHeartbeats
    /\ expected' = <<cookie>>
    /\ toClient' = Append(toClient, Heartbeat(cookie))
    /\ cookie' = (cookie + 1) % Cardinality(Cookies)
    /\ worker' = "sent"
    /\ UNCHANGED <<status, toServer, lost, handled, hashAge, inHeartbeatLoop, clientVars>>

\* A minute later the worker saves a new cookie and sends it.
SendHeartbeat ==
    /\ status = "open" /\ worker = "queued"
    /\ Len(expected) < MaxHeartbeats
    /\ expected' = Append(expected, cookie)
    /\ toClient' = Append(toClient, Heartbeat(cookie))
    /\ cookie' = (cookie + 1) % Cardinality(Cookies)
    /\ worker' = "sent"
    /\ UNCHANGED <<status, toServer, lost, handled, hashAge, inHeartbeatLoop, clientVars>>

\* Variant: the worker ends without clearing in_heartbeat_loop.
WorkerStaysInLoop ==
    /\ status = "open" /\ worker = "sent"
    /\ worker' = "none"
    /\ UNCHANGED <<status, streams, callbackVars, inHeartbeatLoop, cookie, clientVars>>

\* The worker ends; the answer to its heartbeat may have been handled before.
WorkerEnds ==
    /\ status = "open" /\ worker = "sent"
    /\ inHeartbeatLoop' = FALSE
    /\ worker' = "none"
    /\ UNCHANGED <<status, streams, callbackVars, cookie, clientVars>>

\* The monitor bans a client whose last hash check is too old.
MonitorTimesOut ==
    /\ status = "open" /\ hashAge > MaxHashDelay
    /\ status' = "timedOut"
    /\ UNCHANGED <<streams, callbackVars, workerVars, clientVars>>

-----------------------------------------------------------------------------
(* The client *)

\* ProcessRequests and HandleInboundPacket: a heartbeat is answered with its cookie.
ReceiveOnClient(n) ==
    /\ status = "open"
    /\ \/ /\ toClient[1].kind = "hello"
          /\ handshakeCompleted' = TRUE
          /\ UNCHANGED toServer
       \/ /\ toClient[1].kind = "heartbeat"
          /\ toServer' = Append(toServer, Heartbeat(toClient[1].cookie))
          /\ UNCHANGED handshakeCompleted
    /\ toClient' = After(toClient, n)
    /\ lost' = lost \cup LostIn(toClient, n)
    /\ UNCHANGED <<status, callbackVars, workerVars, sinceHash>>

SendHash ==
    /\ status = "open" /\ handshakeCompleted
    /\ sinceHash = HashPeriod
    /\ toServer' = Append(toServer, Packet("hash"))
    /\ sinceHash' = 0
    /\ UNCHANGED <<status, toClient, lost, callbackVars, workerVars, handshakeCompleted>>

\* Bound: one periodic info under way.
SendInfo ==
    /\ status = "open"
    /\ \A k \in 1..Len(toServer) : toServer[k].kind # "info"
    /\ toServer' = Append(toServer, Packet("info"))
    /\ UNCHANGED <<status, toClient, lost, callbackVars, workerVars, clientVars>>

\* EndConnection
Goodbye ==
    /\ status = "open"
    /\ status' = "left"
    /\ UNCHANGED <<streams, callbackVars, workerVars, clientVars>>

-----------------------------------------------------------------------------

\* A unit of time, long for the network and for the threads: what was sent has been
\* read and the hash thread has woken up.
TimePasses ==
    /\ status = "open"
    /\ toServer = <<>> /\ toClient = <<>> /\ ~handled
    /\ ~(handshakeCompleted /\ sinceHash = HashPeriod)
    /\ hashAge <= MaxHashDelay
    /\ hashAge' = hashAge + 1
    /\ sinceHash' = IF sinceHash < HashPeriod THEN sinceHash + 1 ELSE sinceHash
    /\ UNCHANGED <<status, streams, handled, expected, workerVars, handshakeCompleted>>

ReadCallback == QueueWorker \/ \E n \in 1..Len(toServer) : ReceiveOnServer(n)
Worker == SendHeartbeat \/ WorkerEnds
RecvThread == \E n \in 1..Len(toClient) : ReceiveOnClient(n)

Next ==
    \/ ReadCallback \/ Worker \/ MonitorTimesOut
    \/ RecvThread \/ SendHash \/ SendInfo \/ Goodbye
    \/ TimePasses

Spec == Init /\ [][Next]_vars

\* Every thread of both sides runs; a client need not leave, time need not pass.
Fairness ==
    /\ WF_vars(ReadCallback) /\ WF_vars(Worker) /\ WF_vars(MonitorTimesOut)
    /\ WF_vars(RecvThread) /\ WF_vars(SendHash) /\ WF_vars(SendInfo)

FairSpec == Spec /\ Fairness

-----------------------------------------------------------------------------
(* Properties *)

\* A client that answers every heartbeat it reads is refused for a wrong answer only
\* after a heartbeat or an answer was lost in a read: the answers arrive in the order of
\* heartbeat_responses however many cookies are under way.
NoFalseReject == status = "rejected" => "heartbeat" \in lost

\* A client that sends its hash checks in time is banned for a missing one only after
\* one was lost in a read: period, delay and the first check after the handshake agree.
NoFalseTimeout == status = "timedOut" => "hash" \in lost

\* While the session is open heartbeats go on, also when the answer to a heartbeat is
\* handled before its worker has cleared in_heartbeat_loop: the next periodic info then
\* queues the next worker.
HeartbeatsGoOn == []<>(worker = "sent" \/ status # "open" \/ "heartbeat" \in lost)

=============================================================================

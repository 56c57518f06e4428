--------------------------- MODULE AnticheatServer ---------------------------
(***************************************************************************)
(* The anticheat server (Server.cs): the accept callback, the read callback *)
(* of every client connection, the thread that looks for overdue hash      *)
(* checks, and what they share: the client list, whose enumerations take   *)
(* no lock, and the table of authenticated sessions the TCP proxy reads.   *)
(* A step is one access to shared state with the local code around it.     *)
(* Heartbeats are the subject of ClientSession, bans of TcpProxy.          *)
(***************************************************************************)
EXTENDS Integers, FiniteSets

CONSTANTS
    Conns,          \* accepted TcpClient objects, each used once
    IPs,
    MaxSessions,    \* sessions per IP (the literal 2 of the update factory)
    Packets,        \* the packets the clients of an instance send
    Endings,        \* how the peers of an instance may end their connections
    NoIp, NoList, NoConn, NoPacket

ASSUME ServerAssumption ==
    /\ MaxSessions \in Nat \ {0}
    /\ Endings \subseteq {"closed", "reset"}
    /\ NoIp \notin IPs /\ NoList \notin Conns /\ NoConn \notin Conns

\* What a read may deliver.  "bad" stands for everything HandlePacket refuses: a failed
\* hello, heartbeat or periodic info, a client error, an unknown opcode.  "info" stands
\* for what it accepts without touching shared state.
AllPackets == {"hello", "bad", "hash", "badHash", "info", "flag", "goodbye"}
ASSUME PacketAssumption == Packets \subseteq AllPackets /\ NoPacket \notin AllPackets

VARIABLES
    pc,             \* the callback that serves each connection
    ip,             \* ip_addr
    connected,      \* net_client.Connected
    why,            \* why the callback leaves
    held,           \* the list AddOrUpdate read
    limitReached,   \* sessionLimitReached
    torn,           \* the callbacks whose enumeration of the client list is invalid
    overdue,        \* no hash check for maxHashCheckDelayMinutes
    clients,        \* the client list
    authenticatedSessions,  \* AuthenticatedSessions: IP -> list object
    lists,          \* contents of every list object, named by the client that made it
    listening,      \* the accept callback is "armed", "busy" or "off" for good
    monitor,        \* the step of MonitorPeriodicHashChecks
    todo, victim,   \* the rest of its snapshot, the client it times out
    peer, inbox     \* the client at the other end, its unread packet

locals == <<why, held, limitReached>>
table == <<authenticatedSessions, lists>>
monitorVars == <<monitor, todo, victim>>
peerVars == <<peer, inbox>>
vars == <<pc, ip, connected, locals, torn, overdue, clients, table, listening,
          monitorVars, peerVars>>

-----------------------------------------------------------------------------

Steps == {"none", "drop", "register", "begin", "reading", "find", "end", "refind",
          "handle", "lookup", "factory", "append", "update", "reply", "rearm",
          "forget", "unmap", "leave", "last", "orphan", "done"}
Reasons == {"none", "error", "eof", "refused", "flagged", "goodbye"}
\* The enumerations of the client list, none of which takes clientsLock.
Enumerating == {"find", "refind", "last"}

Init ==
    /\ pc = [c \in Conns |-> "none"]
    /\ ip = [c \in Conns |-> NoIp]
    /\ connected = [c \in Conns |-> FALSE]
    /\ why = [c \in Conns |-> "none"]
    /\ held = [c \in Conns |-> NoList]
    /\ limitReached = [c \in Conns |-> FALSE]
    /\ torn = {}
    /\ overdue = [c \in Conns |-> FALSE]
    /\ clients = {}
    /\ authenticatedSessions = [i \in IPs |-> NoList]
    /\ lists = [l \in Conns |-> {}]
    /\ listening = "armed"
    /\ monitor = "asleep" /\ todo = {} /\ victim = NoConn
    /\ peer = [c \in Conns |-> "new"]
    /\ inbox = [c \in Conns |-> NoPacket]

Goto(c, step) == pc' = [pc EXCEPT ![c] = step]

\* A change of the client list invalidates the enumerations under way.
Torn(new) ==
    IF new = clients THEN torn ELSE torn \cup {d \in Conns : pc[d] \in Enumerating}
ChangeClients(new) == clients' = new /\ torn' = Torn(new)
SameClients == UNCHANGED <<clients, torn>>

-----------------------------------------------------------------------------
(* HandleClientConnected *)

\* The connection of a banned IP is closed and the listener armed again.
Accept(c, i) ==
    /\ listening = "armed"
    /\ pc[c] = "none"
    /\ ip' = [ip EXCEPT ![c] = i]
    /\ \/ /\ Goto(c, "drop")
          /\ connected' = [connected EXCEPT ![c] = TRUE]
          /\ listening' = "busy"
       \/ /\ Goto(c, "done")
          /\ UNCHANGED <<connected, listening>>
    /\ UNCHANGED <<locals, overdue, table, monitorVars, peerVars>> /\ SameClients

\* A new connection ends the sessions of its IP.
DropSessions(c) ==
    /\ pc[c] = "drop"
    /\ authenticatedSessions' = [authenticatedSessions EXCEPT ![ip[c]] = NoList]
    /\ Goto(c, "register")
    /\ UNCHANGED <<ip, connected, locals, overdue, lists, listening, monitorVars, peerVars>>
    /\ SameClients

Register(c) ==
    /\ pc[c] = "register"
    /\ ChangeClients(clients \cup {c})
    /\ Goto(c, "begin")
    /\ UNCHANGED <<ip, connected, locals, overdue, table, listening, monitorVars, peerVars>>

\* When the first read fails the callback returns without arming the listener again.
BeginFirstRead(c) ==
    /\ pc[c] = "begin"
    /\ \/ /\ peer[c] # "reset"
          /\ Goto(c, "reading")
          /\ listening' = "armed"
          /\ UNCHANGED connected
       \/ /\ peer[c] = "reset"
          /\ Goto(c, "done")
          /\ connected' = [connected EXCEPT ![c] = FALSE]
          /\ listening' = "off"
    /\ UNCHANGED <<ip, locals, overdue, table, monitorVars, peerVars>> /\ SameClients

-----------------------------------------------------------------------------
(* HandleMessageReceived *)

Ended(c) == peer[c] \in {"closed", "reset"}

\* The read completes: data, the end of the stream, an error, or a closed socket.
ReadCompletes(c) ==
    /\ pc[c] = "reading"
    /\ inbox[c] # NoPacket \/ Ended(c) \/ ~connected[c]
    /\ Goto(c, "find")
    /\ UNCHANGED <<ip, connected, locals, torn, overdue, clients, table, listening,
                   monitorVars, peerVars>>

\* The client is looked up in the list.  A torn enumeration throws, unless it had come
\* across the client before: the outer catch only logs, and nobody reads any more.
Find(c) ==
    /\ pc[c] = "find"
    /\ \/ /\ c \in torn
          /\ Goto(c, "orphan")
          /\ UNCHANGED <<connected, clients>> /\ torn' = torn \ {c}
       \/ /\ c \notin clients \/ ~connected[c]
          /\ clients' = clients \ {c} /\ torn' = Torn(clients \ {c}) \ {c}
          /\ connected' = [connected EXCEPT ![c] = FALSE]
          /\ Goto(c, "done")
       \/ /\ c \in clients /\ connected[c]
          /\ Goto(c, "end")
          /\ UNCHANGED <<connected, clients>> /\ torn' = torn \ {c}
    /\ UNCHANGED <<ip, locals, overdue, table, listening, monitorVars, peerVars>>

EndRead(c) ==
    /\ pc[c] = "end"
    /\ \/ /\ ~connected[c]                              \* ObjectDisposedException
          /\ Goto(c, "done")
          /\ UNCHANGED <<connected, why>>
       \/ /\ connected[c] /\ peer[c] = "reset"          \* IOException
          /\ connected' = [connected EXCEPT ![c] = FALSE]
          /\ why' = [why EXCEPT ![c] = "error"]
          /\ Goto(c, "forget")
       \/ /\ connected[c] /\ peer[c] # "reset" /\ inbox[c] # NoPacket
          /\ Goto(c, "refind")
          /\ UNCHANGED <<connected, why>>
       \/ /\ connected[c] /\ peer[c] # "reset" /\ inbox[c] = NoPacket     \* 0 bytes
          /\ why' = [why EXCEPT ![c] = "eof"]
          /\ Goto(c, "forget")
          /\ UNCHANGED connected
    /\ UNCHANGED <<ip, held, limitReached, overdue, table, listening,
                   monitorVars, peerVars>>
    /\ SameClients

\* The second look-up runs to the end of the list; its exception loses the packet.  A
\* change that came before or after the enumeration does no harm.
FindAgain(c) ==
    /\ pc[c] = "refind"
    /\ \/ /\ c \in torn
          /\ Goto(c, "orphan")
          /\ inbox' = [inbox EXCEPT ![c] = NoPacket]
       \/ /\ Goto(c, "handle")
          /\ UNCHANGED inbox
    /\ torn' = torn \ {c}
    /\ UNCHANGED <<ip, connected, locals, overdue, clients, table, listening, monitorVars,
                   peer>>

\* The next read, or the exception of a connection that is gone: the callback returns.
BeginNextRead(c) ==
    /\ pc[c] = "rearm"
    /\ \/ /\ connected[c] /\ peer[c] # "reset"
          /\ Goto(c, "reading")
          /\ UNCHANGED connected
       \/ /\ ~connected[c] \/ peer[c] = "reset"
          /\ Goto(c, "done")
          /\ connected' = [connected EXCEPT ![c] = FALSE]
    /\ UNCHANGED <<ip, locals, overdue, table, listening, monitorVars, peerVars>>
    /\ SameClients

-----------------------------------------------------------------------------
(* HandlePacket *)

Handles(c, packet) ==
    /\ pc[c] = "handle"
    /\ inbox[c] = packet
    /\ inbox' = [inbox EXCEPT ![c] = NoPacket]
    /\ UNCHANGED <<ip, table, listening, monitorVars, peer>>

Hello(c) ==
    /\ Handles(c, "hello")
    /\ Goto(c, "lookup")
    /\ UNCHANGED <<connected, locals, overdue>> /\ SameClients

Info(c) ==
    /\ Handles(c, "info")
    /\ Goto(c, "rearm")
    /\ UNCHANGED <<connected, locals, overdue>> /\ SameClients

HashCheck(c) ==
    /\ Handles(c, "hash")
    /\ overdue' = [overdue EXCEPT ![c] = FALSE]
    /\ Goto(c, "rearm")
    /\ UNCHANGED <<connected, locals>> /\ SameClients

\* SendErrorAndClose, then HandleMessageReceived removes the session.
Refuse(c) ==
    /\ why' = [why EXCEPT ![c] = "refused"]
    /\ connected' = [connected EXCEPT ![c] = FALSE]
    /\ Goto(c, "forget")
    /\ held' = [held EXCEPT ![c] = NoList]
    /\ limitReached' = [limitReached EXCEPT ![c] = FALSE]

BadPacket(c) ==
    /\ Handles(c, "bad")
    /\ Refuse(c)
    /\ UNCHANGED overdue /\ SameClients

BadHashCheck(c) ==
    /\ Handles(c, "badHash")
    /\ overdue' = [overdue EXCEPT ![c] = FALSE]
    /\ ChangeClients(clients \ {c})
    /\ Refuse(c)

\* A flagged cheater or a client that says goodbye: first its session goes.
FlagOrGoodbye(c) ==
    /\ \/ Handles(c, "flag") /\ why' = [why EXCEPT ![c] = "flagged"]
       \/ Handles(c, "goodbye") /\ why' = [why EXCEPT ![c] = "goodbye"]
    /\ Goto(c, "forget")
    /\ UNCHANGED <<connected, held, limitReached, overdue>> /\ SameClients

-----------------------------------------------------------------------------
(* AuthenticatedSessions.AddOrUpdate of an accepted hello: its factories run *)
(* outside the locks of the dictionary, and the update factory changes the   *)
(* list in place.                                                            *)

tableStep == <<ip, connected, overdue, listening, monitorVars, peerVars>>

\* Without an entry a new list is added, with one the update factory runs on its list.
LookUpList(c) ==
    LET l == authenticatedSessions[ip[c]]
    IN  /\ pc[c] = "lookup"
        /\ \/ /\ l = NoList
              /\ authenticatedSessions' = [authenticatedSessions EXCEPT ![ip[c]] = c]
              /\ lists' = [lists EXCEPT ![c] = {c}]
              /\ Goto(c, "reply")
              /\ UNCHANGED held
           \/ /\ l # NoList
              /\ held' = [held EXCEPT ![c] = l]
              /\ Goto(c, "factory")
              /\ UNCHANGED table
        /\ UNCHANGED <<why, limitReached>> /\ UNCHANGED tableStep /\ SameClients

CheckLimit(c) ==
    /\ pc[c] = "factory"
    /\ \/ /\ c \in lists[held[c]]
          /\ Goto(c, "update")
          /\ UNCHANGED limitReached
       \/ /\ c \notin lists[held[c]] /\ Cardinality(lists[held[c]]) >= MaxSessions
          /\ limitReached' = [limitReached EXCEPT ![c] = TRUE]
          /\ Goto(c, "update")
       \/ /\ c \notin lists[held[c]] /\ Cardinality(lists[held[c]]) < MaxSessions
          /\ Goto(c, "append")
          /\ UNCHANGED limitReached
    /\ UNCHANGED <<why, held, table>> /\ UNCHANGED tableStep /\ SameClients

AppendSession(c) ==
    /\ pc[c] = "append"
    /\ lists' = [lists EXCEPT ![held[c]] = @ \cup {c}]
    /\ Goto(c, "update")
    /\ UNCHANGED <<locals, authenticatedSessions>> /\ UNCHANGED tableStep
    /\ SameClients

\* TryUpdate succeeds when the entry still is the list the factory was given.
TryUpdate(c) ==
    /\ pc[c] = "update"
    /\ \/ /\ authenticatedSessions[ip[c]] = held[c]
          /\ Goto(c, "reply")
       \/ /\ authenticatedSessions[ip[c]] # held[c]
          /\ Goto(c, "lookup")
    /\ UNCHANGED <<locals, authenticatedSessions, lists>> /\ UNCHANGED tableStep
    /\ SameClients

\* SendClientHello, or the refusal of a client beyond the limit.
ReplyHello(c) ==
    /\ pc[c] = "reply"
    /\ \/ /\ limitReached[c] \/ ~connected[c] \/ peer[c] = "reset"
          /\ Refuse(c)
       \/ /\ ~limitReached[c] /\ connected[c] /\ peer[c] # "reset"
          /\ Goto(c, "rearm")
          /\ held' = [held EXCEPT ![c] = NoList]
          /\ UNCHANGED <<connected, why, limitReached>>
    /\ UNCHANGED <<ip, overdue, table, listening, monitorVars, peerVars>> /\ SameClients

-----------------------------------------------------------------------------
(* RemoveAuthenticatedSession, by the callback of the client or the monitor, *)
(* and the end of the connection.                                            *)

HasSession(c) ==
    /\ ip[c] # NoIp
    /\ authenticatedSessions[ip[c]] # NoList
    /\ c \in lists[authenticatedSessions[ip[c]]]

\* list.Remove(toRemove).  An emptied list leaves the dictionary, by a later step.
RemoveFromList(c) ==
    /\ HasSession(c)
    /\ lists' = [lists EXCEPT ![authenticatedSessions[ip[c]]] = @ \ {c}]
Emptied(c) == HasSession(c) /\ lists[authenticatedSessions[ip[c]]] = {c}

\* TryRemove takes the entry of the IP, whatever its list holds by now.
Unmap(c) == authenticatedSessions' = [authenticatedSessions EXCEPT ![ip[c]] = NoList]

\* Variant: a refused client keeps its session.
ForgetUnlessRefused(c) ==
    /\ pc[c] = "forget"
    /\ RemoveFromList(c) \/ (~HasSession(c) /\ UNCHANGED lists) \/
       (why[c] = "refused" /\ UNCHANGED lists)
    /\ Goto(c, IF Emptied(c) /\ why[c] # "refused" THEN "unmap" ELSE "leave")
    /\ UNCHANGED <<locals, authenticatedSessions>> /\ UNCHANGED tableStep /\ SameClients

Forget(c) ==
    /\ pc[c] = "forget"
    /\ RemoveFromList(c) \/ (~HasSession(c) /\ UNCHANGED lists)
    /\ Goto(c, IF Emptied(c) THEN "unmap" ELSE "leave")
    /\ UNCHANGED <<locals, authenticatedSessions>> /\ UNCHANGED tableStep /\ SameClients

ForgetEntry(c) ==
    /\ pc[c] = "unmap"
    /\ Unmap(c)
    /\ Goto(c, "leave")
    /\ UNCHANGED <<locals, lists>> /\ UNCHANGED tableStep /\ SameClients

\* The socket is closed.  A refused client stays in the list for the monitor to remove,
\* at the end of the stream the list is enumerated once more.
Leave(c) ==
    /\ pc[c] = "leave"
    /\ connected' = [connected EXCEPT ![c] = FALSE]
    /\ \/ /\ why[c] = "refused"
          /\ Goto(c, "done") /\ SameClients
       \/ /\ why[c] = "eof"
          /\ Goto(c, "last") /\ SameClients
       \/ /\ why[c] \notin {"refused", "eof"}
          /\ Goto(c, "done") /\ ChangeClients(clients \ {c})
    /\ why' = [why EXCEPT ![c] = "none"]
    /\ UNCHANGED <<ip, held, limitReached, overdue, table, listening, monitorVars, peerVars>>

RemoveClosed(c) ==
    /\ pc[c] = "last"
    /\ clients' = clients \ {c} \/ (c \in torn /\ clients' = clients)
    /\ torn' = Torn(clients') \ {c}
    /\ Goto(c, "done")
    /\ UNCHANGED <<ip, connected, locals, overdue, table, listening, monitorVars, peerVars>>

-----------------------------------------------------------------------------
(* MonitorPeriodicHashChecks *)

handlerVars == <<pc, ip, locals, overdue, listening, peerVars>>

MonitorWakes ==
    /\ monitor = "asleep"
    /\ monitor' = "scan"
    /\ todo' = clients
    /\ UNCHANGED <<connected, table, victim>> /\ UNCHANGED handlerVars
    /\ SameClients

\* Variant: a client that is no longer connected is skipped.
MonitorSkipsClosed(c) ==
    /\ monitor = "scan" /\ c \in todo
    /\ todo' = todo \ {c}
    /\ \/ /\ connected[c] /\ overdue[c]
          /\ monitor' = "forget" /\ victim' = c
       \/ /\ ~(connected[c] /\ overdue[c])
          /\ UNCHANGED <<monitor, victim>>
    /\ UNCHANGED <<connected, table>> /\ UNCHANGED handlerVars /\ SameClients

\* A client that is no longer connected leaves the list, an overdue one is banned.
MonitorLooksAt(c) ==
    /\ monitor = "scan" /\ c \in todo
    /\ todo' = todo \ {c}
    /\ \/ /\ ~connected[c]
          /\ ChangeClients(clients \ {c})
          /\ UNCHANGED <<monitor, victim>>
       \/ /\ connected[c] /\ overdue[c]
          /\ monitor' = "forget" /\ victim' = c
          /\ SameClients
       \/ /\ connected[c] /\ ~overdue[c]
          /\ UNCHANGED <<monitor, victim>> /\ SameClients
    /\ UNCHANGED <<connected, table>> /\ UNCHANGED handlerVars

\* Variant: the monitor closes an overdue client and keeps its session.
MonitorForgetsNothing ==
    /\ monitor = "forget"
    /\ monitor' = "close"
    /\ UNCHANGED <<connected, authenticatedSessions, lists, todo, victim>>
    /\ UNCHANGED handlerVars /\ SameClients

MonitorForgets ==
    /\ monitor = "forget"
    /\ RemoveFromList(victim) \/ (~HasSession(victim) /\ UNCHANGED lists)
    /\ monitor' = IF Emptied(victim) THEN "unmap" ELSE "close"
    /\ UNCHANGED <<connected, authenticatedSessions, todo, victim>>
    /\ UNCHANGED handlerVars /\ SameClients

MonitorForgetsEntry ==
    /\ monitor = "unmap"
    /\ Unmap(victim)
    /\ monitor' = "close"
    /\ UNCHANGED <<connected, lists, todo, victim>>
    /\ UNCHANGED handlerVars /\ SameClients

\* Variant: the first timeout ends the scan.
MonitorBreaks ==
    /\ monitor = "close"
    /\ connected' = [connected EXCEPT ![victim] = FALSE]
    /\ ChangeClients(clients \ {victim})
    /\ monitor' = "asleep" /\ victim' = NoConn
    /\ UNCHANGED <<table, todo>> /\ UNCHANGED handlerVars

MonitorCloses ==
    /\ monitor = "close"
    /\ connected' = [connected EXCEPT ![victim] = FALSE]
    /\ ChangeClients(clients \ {victim})
    /\ monitor' = "scan" /\ victim' = NoConn
    /\ UNCHANGED <<table, todo>> /\ UNCHANGED handlerVars

MonitorSleeps ==
    /\ monitor = "scan" /\ todo = {}
    /\ monitor' = "asleep"
    /\ UNCHANGED <<connected, table, todo, victim>> /\ UNCHANGED handlerVars
    /\ SameClients

-----------------------------------------------------------------------------
(* The clients and the clock. *)

serverVars == <<pc, ip, connected, locals, torn, clients, table, listening, monitorVars>>

\* A client says hello first; one that is overdue has stopped sending hash checks.
\* Bound: one unread packet per connection.
Send(c, packet) ==
    /\ pc[c] \notin {"none", "done"} /\ ~Ended(c) /\ inbox[c] = NoPacket
    /\ packet \in {"hello", "bad"} \/ peer[c] = "up"
    /\ packet \in {"hello", "hash"} => ~overdue[c]
    /\ inbox' = [inbox EXCEPT ![c] = packet]
    /\ peer' = IF packet = "hello" THEN [peer EXCEPT ![c] = "up"] ELSE peer
    /\ UNCHANGED overdue /\ UNCHANGED serverVars

PeerCloses(c) ==
    /\ "closed" \in Endings
    /\ pc[c] # "none" /\ ~Ended(c)
    /\ peer' = [peer EXCEPT ![c] = "closed"]
    /\ UNCHANGED <<inbox, overdue>> /\ UNCHANGED serverVars

\* A reset drops what was not read.
PeerResets(c) ==
    /\ "reset" \in Endings
    /\ pc[c] \notin {"none", "handle", "refind"} /\ ~Ended(c)
    /\ peer' = [peer EXCEPT ![c] = "reset"]
    /\ inbox' = [inbox EXCEPT ![c] = NoPacket]
    /\ UNCHANGED overdue /\ UNCHANGED serverVars

\* Thirty-five minutes pass without a hash check that was read.  A callback that reads
\* has handled what had arrived long before.
HashCheckOverdue(c) ==
    /\ ~overdue[c] /\ c \in clients
    /\ \/ pc[c] = "orphan"
       \/ pc[c] = "reading" /\ inbox[c] = NoPacket /\ ~Ended(c) /\ connected[c]
    /\ overdue' = [overdue EXCEPT ![c] = TRUE]
    /\ UNCHANGED peerVars /\ UNCHANGED serverVars

-----------------------------------------------------------------------------

Callback(c) ==
    \/ DropSessions(c) \/ Register(c) \/ BeginFirstRead(c)
    \/ ReadCompletes(c) \/ Find(c) \/ EndRead(c) \/ FindAgain(c) \/ BeginNextRead(c)
    \/ Hello(c) \/ Info(c) \/ HashCheck(c) \/ BadPacket(c) \/ BadHashCheck(c)
    \/ FlagOrGoodbye(c)
    \/ LookUpList(c) \/ CheckLimit(c) \/ AppendSession(c) \/ TryUpdate(c) \/ ReplyHello(c)
    \/ Forget(c) \/ ForgetEntry(c) \/ Leave(c) \/ RemoveClosed(c)

Monitor ==
    \/ MonitorWakes \/ MonitorForgets \/ MonitorForgetsEntry \/ MonitorCloses \/ MonitorSleeps
    \/ \E c \in Conns : MonitorLooksAt(c)

Client(c) == PeerCloses(c) \/ PeerResets(c) \/ \E packet \in Packets : Send(c, packet)

Next ==
    \/ \E c \in Conns : Callback(c) \/ Client(c) \/ HashCheckOverdue(c)
    \/ \E c \in Conns, i \in IPs : Accept(c, i)
    \/ Monitor

Spec == Init /\ [][Next]_vars

\* Callbacks and the monitor run, and time passes; clients are free.
Fairness ==
    /\ \A c \in Conns : WF_vars(Callback(c)) /\ WF_vars(HashCheckOverdue(c))
    /\ WF_vars(Monitor)

FairSpec == Spec /\ Fairness

-----------------------------------------------------------------------------
(* Properties *)

\* TYPE.  Every callback is at a step of the code, every table holds what its type says;
\* only enumerations under way are torn, and the monitor has no victim and no client left
\* to look at when it sleeps.
TypeOK ==
    /\ pc \in [Conns -> Steps]
    /\ ip \in [Conns -> IPs \cup {NoIp}]
    /\ connected \in [Conns -> BOOLEAN]
    /\ why \in [Conns -> Reasons]
    /\ held \in [Conns -> Conns \cup {NoList}]
    /\ limitReached \in [Conns -> BOOLEAN]
    /\ torn \subseteq {c \in Conns : pc[c] \in Enumerating}
    /\ overdue \in [Conns -> BOOLEAN]
    /\ clients \subseteq Conns
    /\ authenticatedSessions \in [IPs -> Conns \cup {NoList}]
    /\ lists \in [Conns -> SUBSET Conns]
    /\ listening \in {"armed", "busy", "off"}
    /\ monitor \in {"asleep", "scan", "forget", "unmap", "close"}
    /\ todo \subseteq Conns /\ (monitor = "asleep" => todo = {})
    /\ victim \in IF monitor \in {"asleep", "scan"} THEN {NoConn} ELSE Conns
    /\ peer \in [Conns -> {"new", "up", "closed", "reset"}]
    /\ inbox \in [Conns -> AllPackets \cup {NoPacket}]

\* The session of a client outlives neither its callback nor, when the callback died
\* of an exception, its place in the client list: a session nobody will remove lets the
\* proxy admit connections of that IP with no anticheat client behind them.  The one
\* exception is a connection that was reset, on which the next read cannot begin.
NoGhostSession ==
    \A c \in Conns : HasSession(c) =>
        /\ pc[c] # "none"
        /\ pc[c] = "done" => peer[c] = "reset"
        /\ pc[c] = "orphan" => c \in clients

\* A client that has closed its connection has no session any more in the end, even when
\* its callback died: then the monitor removes it.
ClosedIsForgotten ==
    \A c \in Conns : (peer[c] = "closed") ~> [](~HasSession(c))

\* A connection that is over leaves the client list, whatever path its callback took.
DoneLeavesList == \A c \in Conns : (pc[c] = "done") ~> (c \notin clients)

=============================================================================

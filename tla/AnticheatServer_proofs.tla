------------------------ MODULE AnticheatServer_proofs ------------------------
(* Proofs about AnticheatServer: for any number of connections and addresses,  *)
(* any limit and any packets, every table holds what its type says, and a      *)
(* session outlives neither its callback nor the place of its client in the    *)
(* list.                                                                       *)
EXTENDS AnticheatServer, TLAPS

-----------------------------------------------------------------------------
(* The invariant of one connection *)

Adding == {"lookup", "factory", "append", "update", "reply"}
Serving == {"begin", "reading", "find", "end", "refind", "handle", "rearm", "orphan"} \cup Adding
Leaving == {"forget", "unmap", "leave", "last", "done"}

\* A connection has an address from the accept on, and no list before.
Known(c) ==
    /\ pc[c] # "none" => ip[c] \in IPs
    /\ pc[c] = "none" => \A l \in Conns : c \notin lists[l]

\* A client that is overdue has stopped: no callback handles its hello or its hash check.
OverdueIsSilent(c) ==
    overdue[c] =>
        /\ pc[c] \notin Adding \cup {"none", "drop", "register", "begin"}
        /\ pc[c] \in Serving \ {"orphan"} => inbox[c] \notin {"hello", "hash"}

\* Only the monitor closes a client whose callback goes on, and only one that is overdue.
ServedIsListed(c) ==
    /\ pc[c] \in Serving => overdue[c] \/ (c \in clients /\ connected[c])
    /\ pc[c] \in {"drop", "register"} => connected[c]

\* A session has a callback, and one whose client is closed or not listed goes at once.
SessionIsServed(c) ==
    HasSession(c) =>
        /\ pc[c] \in (Serving \ {"begin"}) \cup {"forget", "done"}
        /\ pc[c] = "done" => peer[c] = "reset"
        /\ ~connected[c] \/ c \notin clients => pc[c] \in {"forget", "done"}

ConnInv(c) == Known(c) /\ OverdueIsSilent(c) /\ ServedIsListed(c) /\ SessionIsServed(c)

\* Whom the monitor times out does not say hello again, so that it stays forgotten.
VictimInv ==
    /\ victim # NoConn => overdue[victim] \/ pc[victim] \in Leaving
    /\ monitor \in {"unmap", "close"} => ~HasSession(victim)

Inv == TypeOK /\ (\A c \in Conns : ConnInv(c)) /\ VictimInv

-----------------------------------------------------------------------------
(* Types *)

\* The invariant of the types holds before the first accept.
LEMMA InitType == Init => TypeOK
  BY ServerAssumption DEF Init, TypeOK, Steps, Reasons

\* The callbacks of a connection keep the types; a callback that leaves an enumeration is
\* not torn any more.
LEMMA CallbackType ==
    ASSUME TypeOK, \A d \in Conns : Known(d), NEW c \in Conns, Callback(c) PROVE TypeOK'
<1>a. pc[c] # "none" => ip[c] \in IPs
  BY DEF Known
<1>b. c \in torn => pc[c] \in Enumerating
  BY DEF TypeOK
<1>1. CASE DropSessions(c)
  BY <1>1, <1>a, <1>b
  DEF TypeOK, DropSessions, tableStep, locals, table, monitorVars, peerVars, Goto, SameClients,
      Enumerating, Steps, Reasons
<1>2. CASE Register(c)
  BY <1>2, <1>a, <1>b
  DEF TypeOK, Register, ChangeClients, Torn, tableStep, locals, table, monitorVars, peerVars,
      Goto, SameClients, Enumerating, Steps, Reasons
<1>3. CASE BeginFirstRead(c)
  <2>1. CASE peer[c] # "reset"
    BY <1>3, <2>1, <1>a, <1>b
    DEF TypeOK, BeginFirstRead, tableStep, locals, table, monitorVars, peerVars, Goto,
        SameClients, Enumerating, Steps, Reasons
  <2>2. CASE peer[c] = "reset"
    BY <1>3, <2>2, <1>a, <1>b
    DEF TypeOK, BeginFirstRead, tableStep, locals, table, monitorVars, peerVars, Goto,
        SameClients, Enumerating, Steps, Reasons
  <2> QED
    BY <2>1, <2>2
<1>4. CASE ReadCompletes(c)
  BY <1>4, <1>a, <1>b
  DEF TypeOK, ReadCompletes, tableStep, locals, table, monitorVars, peerVars, Goto, SameClients,
      Enumerating, Steps, Reasons
<1>5. CASE Find(c)
  <2>a. pc[c] = "find" /\ UNCHANGED <<ip, locals, overdue, table, listening, monitorVars,
      peerVars>>
    BY <1>5 DEF Find, SameClients
  <2>1. CASE c \in torn /\ Goto(c, "orphan") /\ torn' = torn \ {c} /\ UNCHANGED <<connected,
             clients>>
    BY <2>a, <2>1, <1>b
    DEF TypeOK, Torn, tableStep, locals, table, monitorVars, peerVars, Goto, SameClients,
        Enumerating, Steps, Reasons
  <2>2. CASE clients' = clients \ {c} /\ torn' = Torn(clients \ {c}) \ {c} /\ connected' =
             [connected EXCEPT ![c] = FALSE] /\ Goto(c, "done")
    BY <2>a, <2>2, <1>b
    DEF TypeOK, Torn, tableStep, locals, table, monitorVars, peerVars, Goto, SameClients,
        Enumerating, Steps, Reasons
  <2>3. CASE Goto(c, "end") /\ UNCHANGED <<connected, clients>> /\ torn' = torn \ {c}
    BY <2>a, <2>3, <1>b
    DEF TypeOK, Torn, tableStep, locals, table, monitorVars, peerVars, Goto, SameClients,
        Enumerating, Steps, Reasons
  <2> QED
    BY <1>5, <2>1, <2>2, <2>3 DEF Find
<1>6. CASE EndRead(c)
  <2>a. pc[c] = "end" /\ UNCHANGED <<ip, held, limitReached, overdue, table, listening,
      monitorVars, peerVars, clients, torn>>
    BY <1>6 DEF EndRead, SameClients
  <2>1. CASE Goto(c, "done") /\ UNCHANGED <<connected, why>>
    BY <2>a, <2>1, <1>b
    DEF TypeOK, Ended, tableStep, locals, table, monitorVars, peerVars, Goto, SameClients,
        Enumerating, Steps, Reasons
  <2>2. CASE connected' = [connected EXCEPT ![c] = FALSE] /\ why' = [why EXCEPT ![c] = "error"]
             /\ Goto(c, "forget")
    BY <2>a, <2>2, <1>b
    DEF TypeOK, Ended, tableStep, locals, table, monitorVars, peerVars, Goto, SameClients,
        Enumerating, Steps, Reasons
  <2>3. CASE Goto(c, "refind") /\ UNCHANGED <<connected, why>>
    BY <2>a, <2>3, <1>b
    DEF TypeOK, Ended, tableStep, locals, table, monitorVars, peerVars, Goto, SameClients,
        Enumerating, Steps, Reasons
  <2>4. CASE why' = [why EXCEPT ![c] = "eof"] /\ Goto(c, "forget") /\ UNCHANGED connected
    BY <2>a, <2>4, <1>b
    DEF TypeOK, Ended, tableStep, locals, table, monitorVars, peerVars, Goto, SameClients,
        Enumerating, Steps, Reasons
  <2> QED
    BY <1>6, <2>1, <2>2, <2>3, <2>4 DEF EndRead
<1>7. CASE FindAgain(c)
  BY <1>7, <1>a, <1>b
  DEF TypeOK, FindAgain, tableStep, locals, table, monitorVars, peerVars, Goto, SameClients,
      Enumerating, Steps, Reasons
<1>8. CASE BeginNextRead(c)
  <2>1. CASE connected[c] /\ peer[c] # "reset"
    BY <1>8, <2>1, <1>a, <1>b
    DEF TypeOK, BeginNextRead, tableStep, locals, table, monitorVars, peerVars, Goto,
        SameClients, Enumerating, Steps, Reasons
  <2>2. CASE ~connected[c] \/ peer[c] = "reset"
    BY <1>8, <2>2, <1>a, <1>b
    DEF TypeOK, BeginNextRead, tableStep, locals, table, monitorVars, peerVars, Goto,
        SameClients, Enumerating, Steps, Reasons
  <2> QED
    BY <2>1, <2>2
<1>9. CASE Hello(c)
  BY <1>9, <1>a, <1>b
  DEF TypeOK, Hello, Handles, tableStep, locals, table, monitorVars, peerVars, Goto,
      SameClients, Enumerating, Steps, Reasons
<1>10. CASE Info(c)
  BY <1>10, <1>a, <1>b
  DEF TypeOK, Info, Handles, tableStep, locals, table, monitorVars, peerVars, Goto, SameClients,
      Enumerating, Steps, Reasons
<1>11. CASE HashCheck(c)
  BY <1>11, <1>a, <1>b
  DEF TypeOK, HashCheck, Handles, tableStep, locals, table, monitorVars, peerVars, Goto,
      SameClients, Enumerating, Steps, Reasons
<1>12. CASE BadPacket(c)
  BY <1>12, <1>a, <1>b
  DEF TypeOK, BadPacket, Handles, Refuse, tableStep, locals, table, monitorVars, peerVars, Goto,
      SameClients, Enumerating, Steps, Reasons
<1>13. CASE BadHashCheck(c)
  BY <1>13, <1>a, <1>b
  DEF TypeOK, BadHashCheck, Handles, Refuse, ChangeClients, Torn, tableStep, locals, table,
      monitorVars, peerVars, Goto, SameClients, Enumerating, Steps, Reasons
<1>14. CASE FlagOrGoodbye(c)
  BY <1>14, <1>a, <1>b
  DEF TypeOK, FlagOrGoodbye, Handles, tableStep, locals, table, monitorVars, peerVars, Goto,
      SameClients, Enumerating, Steps, Reasons
<1>15. CASE LookUpList(c)
  BY <1>15, <1>a, <1>b
  DEF TypeOK, LookUpList, tableStep, locals, table, monitorVars, peerVars, Goto, SameClients,
      Enumerating, Steps, Reasons
<1>16. CASE CheckLimit(c)
  <2>1. CASE pc' = [pc EXCEPT ![c] = "append"]
    BY <1>16, <2>1, <1>a, <1>b
    DEF TypeOK, CheckLimit, tableStep, locals, table, monitorVars, peerVars, Goto,
        SameClients, Enumerating, Steps, Reasons
  <2>2. CASE pc' = [pc EXCEPT ![c] = "update"] /\ UNCHANGED limitReached
    BY <1>16, <2>2, <1>a, <1>b
    DEF TypeOK, CheckLimit, tableStep, locals, table, monitorVars, peerVars, Goto,
        SameClients, Enumerating, Steps, Reasons
  <2>3. CASE /\ pc' = [pc EXCEPT ![c] = "update"]
             /\ limitReached' = [limitReached EXCEPT ![c] = TRUE]
    BY <1>16, <2>3, <1>a, <1>b
    DEF TypeOK, CheckLimit, tableStep, locals, table, monitorVars, peerVars, Goto,
        SameClients, Enumerating, Steps, Reasons
  <2> QED
    BY <1>16, <2>1, <2>2, <2>3 DEF CheckLimit, Goto
<1>17. CASE AppendSession(c)
  BY <1>17, <1>a, <1>b
  DEF TypeOK, AppendSession, tableStep, locals, table, monitorVars, peerVars, Goto, SameClients,
      Enumerating, Steps, Reasons
<1>18. CASE TryUpdate(c)
  BY <1>18, <1>a, <1>b
  DEF TypeOK, TryUpdate, tableStep, locals, table, monitorVars, peerVars, Goto, SameClients,
      Enumerating, Steps, Reasons
<1>19. CASE ReplyHello(c)
  <2>a. pc[c] = "reply" /\ UNCHANGED <<ip, overdue, table, listening, monitorVars, peerVars,
      clients, torn>>
    BY <1>19 DEF ReplyHello, SameClients
  <2>1. CASE Refuse(c)
    BY <2>a, <2>1, <1>b
    DEF TypeOK, Refuse, tableStep, locals, table, monitorVars, peerVars, Goto, SameClients,
        Enumerating, Steps, Reasons
  <2>2. CASE Goto(c, "rearm") /\ held' = [held EXCEPT ![c] = NoList] /\ UNCHANGED <<connected,
             why, limitReached>>
    BY <2>a, <2>2, <1>b
    DEF TypeOK, Refuse, tableStep, locals, table, monitorVars, peerVars, Goto, SameClients,
        Enumerating, Steps, Reasons
  <2> QED
    BY <1>19, <2>1, <2>2 DEF ReplyHello
<1>20. CASE Forget(c)
  BY <1>20, <1>a, <1>b
  DEF TypeOK, Forget, RemoveFromList, HasSession, tableStep, locals, table, monitorVars,
      peerVars, Goto, SameClients, Enumerating, Steps, Reasons
<1>21. CASE ForgetEntry(c)
  BY <1>21, <1>a, <1>b
  DEF TypeOK, ForgetEntry, Unmap, tableStep, locals, table, monitorVars, peerVars, Goto,
      SameClients, Enumerating, Steps, Reasons
<1>22. CASE Leave(c)
  BY <1>22, <1>a, <1>b
  DEF TypeOK, Leave, ChangeClients, Torn, tableStep, locals, table, monitorVars, peerVars, Goto,
      SameClients, Enumerating, Steps, Reasons
<1>23. CASE RemoveClosed(c)
  BY <1>23, <1>a, <1>b
  DEF TypeOK, RemoveClosed, Torn, tableStep, locals, table, monitorVars, peerVars, Goto,
      SameClients, Enumerating, Steps, Reasons
<1> QED
  BY <1>1, <1>2, <1>3, <1>4, <1>5, <1>6, <1>7, <1>8, <1>9, <1>10, <1>11, <1>12, <1>13, <1>14,
     <1>15, <1>16, <1>17, <1>18, <1>19, <1>20, <1>21, <1>22, <1>23
  DEF Callback

\* So do the monitor, the clients, the accept callback and time.
LEMMA OtherType ==
    ASSUME TypeOK, \A d \in Conns : Known(d),
           Monitor \/ (\E c \in Conns : Client(c) \/ HashCheckOverdue(c))
               \/ (\E c \in Conns, i \in IPs : Accept(c, i)) \/ UNCHANGED vars
    PROVE  TypeOK'
<1>a. victim # NoConn => victim \in Conns
  BY DEF TypeOK
<1>b. \A d \in Conns : pc[d] # "none" => ip[d] \in IPs
  BY DEF Known
<1>c. NoConn \notin Conns /\ NoIp \notin IPs
  BY ServerAssumption
<1>1. CASE MonitorWakes
  BY <1>1, <1>a, <1>b, <1>c
  DEF TypeOK, MonitorWakes, handlerVars, tableStep, locals, table, monitorVars, peerVars, Goto,
      SameClients, Enumerating, Steps, Reasons
<1>2. CASE MonitorForgets
  BY <1>2, <1>a, <1>b, <1>c
  DEF TypeOK, MonitorForgets, RemoveFromList, HasSession, handlerVars, tableStep, locals, table,
      monitorVars, peerVars, Goto, SameClients, Enumerating, Steps, Reasons
<1>3. CASE MonitorForgetsEntry
  BY <1>3, <1>a, <1>b, <1>c
  DEF TypeOK, MonitorForgetsEntry, Unmap, handlerVars, tableStep, locals, table, monitorVars,
      peerVars, Goto, SameClients, Enumerating, Steps, Reasons
<1>4. CASE MonitorCloses
  BY <1>4, <1>a, <1>b, <1>c
  DEF TypeOK, MonitorCloses, ChangeClients, Torn, handlerVars, tableStep, locals, table,
      monitorVars, peerVars, Goto, SameClients, Enumerating, Steps, Reasons
<1>5. CASE MonitorSleeps
  BY <1>5, <1>a, <1>b, <1>c
  DEF TypeOK, MonitorSleeps, handlerVars, tableStep, locals, table, monitorVars, peerVars, Goto,
      SameClients, Enumerating, Steps, Reasons
<1>6. ASSUME NEW c \in Conns, MonitorLooksAt(c) PROVE TypeOK'
  BY <1>6
  DEF TypeOK, MonitorLooksAt, ChangeClients, Torn, handlerVars, tableStep, locals, table,
      monitorVars, peerVars, Goto, SameClients, Enumerating, Steps, Reasons
<1>7. ASSUME NEW c \in Conns, NEW packet \in Packets, Send(c, packet) PROVE TypeOK'
  BY <1>7, PacketAssumption
  DEF TypeOK, Send, Ended, serverVars, tableStep, locals, table, monitorVars, peerVars, Goto,
      SameClients, Enumerating, Steps, Reasons
<1>8. ASSUME NEW c \in Conns, PeerCloses(c) PROVE TypeOK'
  BY <1>8
  DEF TypeOK, PeerCloses, serverVars, tableStep, locals, table, monitorVars, peerVars, Goto,
      SameClients, Enumerating, Steps, Reasons
<1>9. ASSUME NEW c \in Conns, PeerResets(c) PROVE TypeOK'
  BY <1>9
  DEF TypeOK, PeerResets, serverVars, tableStep, locals, table, monitorVars, peerVars, Goto,
      SameClients, Enumerating, Steps, Reasons
<1>10. ASSUME NEW c \in Conns, HashCheckOverdue(c) PROVE TypeOK'
  BY <1>10
  DEF TypeOK, HashCheckOverdue, serverVars, tableStep, locals, table, monitorVars, peerVars,
      Goto, SameClients, Enumerating, Steps, Reasons
<1>11. ASSUME NEW c \in Conns, NEW i \in IPs, Accept(c, i) PROVE TypeOK'
  <2>1. CASE Goto(c, "drop")
    BY <1>11, <2>1
    DEF TypeOK, Accept, tableStep, locals, table, monitorVars, peerVars, Goto, SameClients,
        Enumerating, Steps, Reasons
  <2>2. CASE Goto(c, "done")
    BY <1>11, <2>2
    DEF TypeOK, Accept, tableStep, locals, table, monitorVars, peerVars, Goto, SameClients,
        Enumerating, Steps, Reasons
  <2> QED
    BY <1>11, <2>1, <2>2 DEF Accept
<1>12. CASE UNCHANGED vars
  BY <1>12
  DEF TypeOK, vars, tableStep, locals, table, monitorVars, peerVars, Goto, SameClients,
      Enumerating, Steps, Reasons
<1> QED
  BY <1>1, <1>2, <1>3, <1>4, <1>5, <1>6, <1>7, <1>8, <1>9, <1>10, <1>11, <1>12
  DEF Monitor, Client

-----------------------------------------------------------------------------
(* Steps of one connection and the invariant of the others *)

\* The table decides who has a session.
LEMMA SameTable ==
    ASSUME NEW d \in Conns, ip'[d] = ip[d], UNCHANGED <<authenticatedSessions, lists>>
    PROVE  HasSession(d)' <=> HasSession(d)
  BY DEF HasSession

\* What a step does that leaves a connection alone: it may give it no session.
Apart(d) ==
    /\ pc'[d] = pc[d] /\ ip'[d] = ip[d] /\ connected'[d] = connected[d]
    /\ overdue'[d] = overdue[d] /\ peer'[d] = peer[d] /\ inbox'[d] = inbox[d]
    /\ d \in clients => d \in clients'
    /\ HasSession(d)' => HasSession(d)
    /\ pc[d] = "none" => \A l \in Conns : d \in lists'[l] => d \in lists[l]

\* Such a step keeps the invariant of the connection.
LEMMA ApartKeeps == ASSUME NEW d \in Conns, ConnInv(d), Apart(d) PROVE ConnInv(d)'
  BY DEF ConnInv, Known, OverdueIsSilent, ServedIsListed, SessionIsServed, Apart

\* What a step of a callback does to its own connection: it never brings back a client
\* that was timed out.
Own(c) ==
    /\ ConnInv(c)'
    /\ HasSession(c)' => HasSession(c) \/ pc[c] \in Adding
    /\ overdue[c] => overdue'[c] \/ pc'[c] \in Leaving
    /\ pc[c] \in Leaving => pc'[c] \in Leaving

\* The two together keep the invariant.
LEMMA StepKeeps ==
    ASSUME Inv, TypeOK', NEW c \in Conns, Own(c), \A d \in Conns \ {c} : Apart(d),
           UNCHANGED <<monitor, victim>>
    PROVE  Inv'
<1>1. \A d \in Conns : ConnInv(d)'
  BY ApartKeeps DEF Inv, Own
<1>2. CASE victim = NoConn
  <2>1. monitor \notin {"unmap", "close"}
    BY <1>2, ServerAssumption DEF Inv, TypeOK
  <2> QED
    BY <1>1, <1>2, <2>1 DEF Inv, VictimInv
<1>3. CASE victim # NoConn
  <2>1. victim \in Conns
    BY <1>3 DEF Inv, TypeOK
  <2>2. overdue[victim] \/ pc[victim] \in Leaving
    BY <1>3 DEF Inv, VictimInv
  <2>3. CASE victim # c
    <3>1. Apart(victim)
      BY <2>1, <2>3
    <3> QED
      BY <3>1, <2>2, <1>1, <1>3 DEF Inv, VictimInv, Apart
  <2>4. CASE victim = c
    <3>1. overdue'[victim] \/ pc'[victim] \in Leaving
      BY <2>2, <2>4 DEF Own
    <3>2. pc[victim] \notin Adding
      BY <2>1, <2>2 DEF Inv, ConnInv, OverdueIsSilent, Leaving, Adding
    <3>3. HasSession(victim)' => HasSession(victim)
      BY <2>4, <3>2 DEF Own
    <3> QED
      BY <3>1, <3>3, <1>1, <1>3 DEF Inv, VictimInv
  <2> QED
    BY <2>3, <2>4
<1> QED
  BY <1>1, <1>2, <1>3 DEF Inv

-----------------------------------------------------------------------------
(* The callbacks *)

\* No step of a callback touches another connection, or gives it a session.
LEMMA CallbackApart ==
    ASSUME Inv, NEW c \in Conns, Callback(c)
    PROVE  (\A d \in Conns \ {c} : Apart(d)) /\ UNCHANGED <<monitor, victim>>
<1>a. TypeOK /\ NoList \notin Conns
  BY ServerAssumption DEF Inv
<1>b. ip[c] \in IPs \cup {NoIp} /\ held[c] \in Conns \cup {NoList}
  BY <1>a DEF TypeOK
<1>1. CASE DropSessions(c)
  BY <1>1, <1>a, <1>b
  DEF TypeOK, Apart, Goto, locals, table, tableStep, monitorVars, peerVars, SameClients,
      DropSessions, HasSession
<1>2. CASE Register(c)
  BY <1>2, <1>a, SameTable
  DEF TypeOK, Apart, Goto, locals, table, tableStep, monitorVars, peerVars, SameClients,
      Register, ChangeClients, Torn
<1>3. CASE BeginFirstRead(c)
  BY <1>3, <1>a, SameTable
  DEF TypeOK, Apart, Goto, locals, table, tableStep, monitorVars, peerVars, SameClients,
      BeginFirstRead
<1>4. CASE ReadCompletes(c)
  BY <1>4, <1>a, SameTable
  DEF TypeOK, Apart, Goto, locals, table, tableStep, monitorVars, peerVars, SameClients,
      ReadCompletes
<1>5. CASE Find(c)
  BY <1>5, <1>a, SameTable
  DEF TypeOK, Apart, Goto, locals, table, tableStep, monitorVars, peerVars, SameClients, Find,
      Torn
<1>6. CASE EndRead(c)
  BY <1>6, <1>a, SameTable
  DEF TypeOK, Apart, Goto, locals, table, tableStep, monitorVars, peerVars, SameClients,
      EndRead, Ended
<1>7. CASE FindAgain(c)
  BY <1>7, <1>a, SameTable
  DEF TypeOK, Apart, Goto, locals, table, tableStep, monitorVars, peerVars, SameClients,
      FindAgain
<1>8. CASE BeginNextRead(c)
  BY <1>8, <1>a, SameTable
  DEF TypeOK, Apart, Goto, locals, table, tableStep, monitorVars, peerVars, SameClients,
      BeginNextRead
<1>9. CASE Hello(c)
  BY <1>9, <1>a, SameTable
  DEF TypeOK, Apart, Goto, locals, table, tableStep, monitorVars, peerVars, SameClients, Hello,
      Handles
<1>10. CASE Info(c)
  BY <1>10, <1>a, SameTable
  DEF TypeOK, Apart, Goto, locals, table, tableStep, monitorVars, peerVars, SameClients, Info,
      Handles
<1>11. CASE HashCheck(c)
  BY <1>11, <1>a, SameTable
  DEF TypeOK, Apart, Goto, locals, table, tableStep, monitorVars, peerVars, SameClients,
      HashCheck, Handles
<1>12. CASE BadPacket(c)
  BY <1>12, <1>a, SameTable
  DEF TypeOK, Apart, Goto, locals, table, tableStep, monitorVars, peerVars, SameClients,
      BadPacket, Handles, Refuse
<1>13. CASE BadHashCheck(c)
  BY <1>13, <1>a, SameTable
  DEF TypeOK, Apart, Goto, locals, table, tableStep, monitorVars, peerVars, SameClients,
      BadHashCheck, Handles, Refuse, ChangeClients, Torn
<1>14. CASE FlagOrGoodbye(c)
  BY <1>14, <1>a, SameTable
  DEF TypeOK, Apart, Goto, locals, table, tableStep, monitorVars, peerVars, SameClients,
      FlagOrGoodbye, Handles
<1>15. CASE LookUpList(c)
  BY <1>15, <1>a, <1>b
  DEF TypeOK, Apart, Goto, locals, table, tableStep, monitorVars, peerVars, SameClients,
      LookUpList, HasSession
<1>16. CASE CheckLimit(c)
  BY <1>16, <1>a, SameTable
  DEF TypeOK, Apart, Goto, locals, table, tableStep, monitorVars, peerVars, SameClients,
      CheckLimit
<1>17. CASE AppendSession(c)
  BY <1>17, <1>a, <1>b
  DEF TypeOK, Apart, Goto, locals, table, tableStep, monitorVars, peerVars, SameClients,
      AppendSession, HasSession
<1>18. CASE TryUpdate(c)
  BY <1>18, <1>a, SameTable
  DEF TypeOK, Apart, Goto, locals, table, tableStep, monitorVars, peerVars, SameClients,
      TryUpdate
<1>19. CASE ReplyHello(c)
  BY <1>19, <1>a, SameTable
  DEF TypeOK, Apart, Goto, locals, table, tableStep, monitorVars, peerVars, SameClients,
      ReplyHello, Refuse
<1>20. CASE Forget(c)
  BY <1>20, <1>a, <1>b
  DEF TypeOK, Apart, Goto, locals, table, tableStep, monitorVars, peerVars, SameClients, Forget,
      HasSession, RemoveFromList
<1>21. CASE ForgetEntry(c)
  BY <1>21, <1>a, <1>b
  DEF TypeOK, Apart, Goto, locals, table, tableStep, monitorVars, peerVars, SameClients,
      ForgetEntry, HasSession, Unmap
<1>22. CASE Leave(c)
  BY <1>22, <1>a, SameTable
  DEF TypeOK, Apart, Goto, locals, table, tableStep, monitorVars, peerVars, SameClients, Leave,
      ChangeClients, Torn
<1>23. CASE RemoveClosed(c)
  BY <1>23, <1>a, SameTable
  DEF TypeOK, Apart, Goto, locals, table, tableStep, monitorVars, peerVars, SameClients,
      RemoveClosed, Torn
<1> QED
  BY <1>1, <1>2, <1>3, <1>4, <1>5, <1>6, <1>7, <1>8, <1>9, <1>10, <1>11, <1>12, <1>13, <1>14,
     <1>15, <1>16, <1>17, <1>18, <1>19, <1>20, <1>21, <1>22, <1>23
  DEF Callback

\* The callback keeps the invariant of its own connection.
LEMMA CallbackOwn ==
    ASSUME Inv, NEW c \in Conns, Callback(c) PROVE Own(c)
<1>a. TypeOK /\ NoList \notin Conns /\ NoIp \notin IPs
  BY ServerAssumption DEF Inv
<1>b. Known(c) /\ OverdueIsSilent(c) /\ ServedIsListed(c) /\ SessionIsServed(c)
  BY DEF Inv, ConnInv
<1>c. AllPackets \cup {NoPacket} = {"hello", "bad", "hash", "badHash", "info", "flag",
      "goodbye", NoPacket}
      /\ NoPacket \notin {"hello", "bad", "hash", "badHash", "info", "flag", "goodbye"}
  BY PacketAssumption DEF AllPackets
<1>1. CASE DropSessions(c)
  BY <1>1, <1>a, <1>b
  DEF Own, ConnInv, Known, OverdueIsSilent, ServedIsListed, SessionIsServed, Adding, Serving,
      Leaving, TypeOK, Apart, Goto, locals, table, tableStep, monitorVars, peerVars,
      SameClients, DropSessions, HasSession
<1>2. CASE Register(c)
  BY <1>2, <1>a, <1>b, <1>c, SameTable
  DEF Own, ConnInv, Known, OverdueIsSilent, ServedIsListed, SessionIsServed, Adding, Serving,
      Leaving, TypeOK, Apart, Goto, locals, table, tableStep, monitorVars, peerVars,
      SameClients, Register, ChangeClients, Torn
<1>3. CASE BeginFirstRead(c)
  BY <1>3, <1>a, <1>b, <1>c, SameTable
  DEF Own, ConnInv, Known, OverdueIsSilent, ServedIsListed, SessionIsServed, Adding, Serving,
      Leaving, TypeOK, Apart, Goto, locals, table, tableStep, monitorVars, peerVars,
      SameClients, BeginFirstRead
<1>4. CASE ReadCompletes(c)
  BY <1>4, <1>a, <1>b, <1>c, SameTable
  DEF Own, ConnInv, Known, OverdueIsSilent, ServedIsListed, SessionIsServed, Adding, Serving,
      Leaving, TypeOK, Apart, Goto, locals, table, tableStep, monitorVars, peerVars,
      SameClients, ReadCompletes, Ended
<1>5. CASE Find(c)
  BY <1>5, <1>a, <1>b, <1>c, SameTable
  DEF Own, ConnInv, Known, OverdueIsSilent, ServedIsListed, SessionIsServed, Adding, Serving,
      Leaving, TypeOK, Apart, Goto, locals, table, tableStep, monitorVars, peerVars,
      SameClients, Find, Torn
<1>6. CASE EndRead(c)
  BY <1>6, <1>a, <1>b, <1>c, SameTable
  DEF Own, ConnInv, Known, OverdueIsSilent, ServedIsListed, SessionIsServed, Adding, Serving,
      Leaving, TypeOK, Apart, Goto, locals, table, tableStep, monitorVars, peerVars,
      SameClients, EndRead, Ended
<1>7. CASE FindAgain(c)
  BY <1>7, <1>a, <1>b, <1>c, SameTable
  DEF Own, ConnInv, Known, OverdueIsSilent, ServedIsListed, SessionIsServed, Adding, Serving,
      Leaving, TypeOK, Apart, Goto, locals, table, tableStep, monitorVars, peerVars,
      SameClients, FindAgain
<1>8. CASE BeginNextRead(c)
  BY <1>8, <1>a, <1>b, <1>c, SameTable
  DEF Own, ConnInv, Known, OverdueIsSilent, ServedIsListed, SessionIsServed, Adding, Serving,
      Leaving, TypeOK, Apart, Goto, locals, table, tableStep, monitorVars, peerVars,
      SameClients, BeginNextRead
<1>9. CASE Hello(c)
  BY <1>9, <1>a, <1>b, <1>c, SameTable
  DEF Own, ConnInv, Known, OverdueIsSilent, ServedIsListed, SessionIsServed, Adding, Serving,
      Leaving, TypeOK, Apart, Goto, locals, table, tableStep, monitorVars, peerVars,
      SameClients, Hello, Handles
<1>10. CASE Info(c)
  BY <1>10, <1>a, <1>b, <1>c, SameTable
  DEF Own, ConnInv, Known, OverdueIsSilent, ServedIsListed, SessionIsServed, Adding, Serving,
      Leaving, TypeOK, Apart, Goto, locals, table, tableStep, monitorVars, peerVars,
      SameClients, Info, Handles
<1>11. CASE HashCheck(c)
  BY <1>11, <1>a, <1>b, <1>c, SameTable
  DEF Own, ConnInv, Known, OverdueIsSilent, ServedIsListed, SessionIsServed, Adding, Serving,
      Leaving, TypeOK, Apart, Goto, locals, table, tableStep, monitorVars, peerVars,
      SameClients, HashCheck, Handles
<1>12. CASE BadPacket(c)
  BY <1>12, <1>a, <1>b, <1>c, SameTable
  DEF Own, ConnInv, Known, OverdueIsSilent, ServedIsListed, SessionIsServed, Adding, Serving,
      Leaving, TypeOK, Apart, Goto, locals, table, tableStep, monitorVars, peerVars,
      SameClients, BadPacket, Handles, Refuse
<1>13. CASE BadHashCheck(c)
  BY <1>13, <1>a, <1>b, <1>c, SameTable
  DEF Own, ConnInv, Known, OverdueIsSilent, ServedIsListed, SessionIsServed, Adding, Serving,
      Leaving, TypeOK, Apart, Goto, locals, table, tableStep, monitorVars, peerVars,
      SameClients, BadHashCheck, Handles, Refuse, ChangeClients, Torn
<1>14. CASE FlagOrGoodbye(c)
  BY <1>14, <1>a, <1>b, <1>c, SameTable
  DEF Own, ConnInv, Known, OverdueIsSilent, ServedIsListed, SessionIsServed, Adding, Serving,
      Leaving, TypeOK, Apart, Goto, locals, table, tableStep, monitorVars, peerVars,
      SameClients, FlagOrGoodbye, Handles
<1>15. CASE LookUpList(c)
  BY <1>15, <1>a, <1>b
  DEF Own, ConnInv, Known, OverdueIsSilent, ServedIsListed, SessionIsServed, Adding, Serving,
      Leaving, TypeOK, Apart, Goto, locals, table, tableStep, monitorVars, peerVars,
      SameClients, LookUpList, HasSession
<1>16. CASE CheckLimit(c)
  BY <1>16, <1>a, <1>b, <1>c, SameTable
  DEF Own, ConnInv, Known, OverdueIsSilent, ServedIsListed, SessionIsServed, Adding, Serving,
      Leaving, TypeOK, Apart, Goto, locals, table, tableStep, monitorVars, peerVars,
      SameClients, CheckLimit
<1>17. CASE AppendSession(c)
  BY <1>17, <1>a, <1>b
  DEF Own, ConnInv, Known, OverdueIsSilent, ServedIsListed, SessionIsServed, Adding, Serving,
      Leaving, TypeOK, Apart, Goto, locals, table, tableStep, monitorVars, peerVars,
      SameClients, AppendSession, HasSession
<1>18. CASE TryUpdate(c)
  BY <1>18, <1>a, <1>b, <1>c, SameTable
  DEF Own, ConnInv, Known, OverdueIsSilent, ServedIsListed, SessionIsServed, Adding, Serving,
      Leaving, TypeOK, Apart, Goto, locals, table, tableStep, monitorVars, peerVars,
      SameClients, TryUpdate
<1>19. CASE ReplyHello(c)
  BY <1>19, <1>a, <1>b, <1>c, SameTable
  DEF Own, ConnInv, Known, OverdueIsSilent, ServedIsListed, SessionIsServed, Adding, Serving,
      Leaving, TypeOK, Apart, Goto, locals, table, tableStep, monitorVars, peerVars,
      SameClients, ReplyHello, Refuse
<1>20. CASE Forget(c)
  BY <1>20, <1>a, <1>b
  DEF Own, ConnInv, Known, OverdueIsSilent, ServedIsListed, SessionIsServed, Adding, Serving,
      Leaving, TypeOK, Apart, Goto, locals, table, tableStep, monitorVars, peerVars,
      SameClients, Forget, HasSession, RemoveFromList
<1>21. CASE ForgetEntry(c)
  BY <1>21, <1>a, <1>b
  DEF Own, ConnInv, Known, OverdueIsSilent, ServedIsListed, SessionIsServed, Adding, Serving,
      Leaving, TypeOK, Apart, Goto, locals, table, tableStep, monitorVars, peerVars,
      SameClients, ForgetEntry, HasSession, Unmap
<1>22. CASE Leave(c)
  BY <1>22, <1>a, <1>b, <1>c, SameTable
  DEF Own, ConnInv, Known, OverdueIsSilent, ServedIsListed, SessionIsServed, Adding, Serving,
      Leaving, TypeOK, Apart, Goto, locals, table, tableStep, monitorVars, peerVars,
      SameClients, Leave, ChangeClients, Torn
<1>23. CASE RemoveClosed(c)
  BY <1>23, <1>a, <1>b, <1>c, SameTable
  DEF Own, ConnInv, Known, OverdueIsSilent, ServedIsListed, SessionIsServed, Adding, Serving,
      Leaving, TypeOK, Apart, Goto, locals, table, tableStep, monitorVars, peerVars,
      SameClients, RemoveClosed, Torn
<1> QED
  BY <1>1, <1>2, <1>3, <1>4, <1>5, <1>6, <1>7, <1>8, <1>9, <1>10, <1>11, <1>12, <1>13, <1>14,
     <1>15, <1>16, <1>17, <1>18, <1>19, <1>20, <1>21, <1>22, <1>23
  DEF Callback

-----------------------------------------------------------------------------
(* The accept callback, the clients and time *)

\* A connection that is accepted has no session, and a client that is overdue says nothing
\* that would bring one back.
LEMMA ClientOwn ==
    ASSUME Inv, NEW c \in Conns,
           Client(c) \/ HashCheckOverdue(c) \/ \E i \in IPs : Accept(c, i)
    PROVE  Own(c) /\ (\A d \in Conns \ {c} : Apart(d)) /\ UNCHANGED <<monitor, victim>>
<1>a. TypeOK /\ NoList \notin Conns /\ NoIp \notin IPs
  BY ServerAssumption DEF Inv
<1>b. Known(c) /\ OverdueIsSilent(c) /\ ServedIsListed(c) /\ SessionIsServed(c)
  BY DEF Inv, ConnInv
<1>c. NoPacket \notin {"hello", "hash"}
  BY PacketAssumption DEF AllPackets
<1>1. ASSUME NEW packet \in Packets, Send(c, packet)
      PROVE  Own(c) /\ (\A d \in Conns \ {c} : Apart(d)) /\ UNCHANGED <<monitor, victim>>
  BY <1>1, <1>a, <1>b, SameTable
  DEF Own, ConnInv, Known, OverdueIsSilent, ServedIsListed, SessionIsServed, Adding, Serving,
      Leaving, TypeOK, Apart, Goto, locals, table, tableStep, monitorVars, peerVars,
      SameClients, Send, Ended, serverVars
<1>2. CASE PeerCloses(c)
  BY <1>2, <1>a, <1>b, SameTable
  DEF Own, ConnInv, Known, OverdueIsSilent, ServedIsListed, SessionIsServed, Adding, Serving,
      Leaving, TypeOK, Apart, Goto, locals, table, tableStep, monitorVars, peerVars,
      SameClients, PeerCloses, Ended, serverVars
<1>3. CASE PeerResets(c)
  BY <1>3, <1>a, <1>b, <1>c, SameTable
  DEF Own, ConnInv, Known, OverdueIsSilent, ServedIsListed, SessionIsServed, Adding, Serving,
      Leaving, TypeOK, Apart, Goto, locals, table, tableStep, monitorVars, peerVars,
      SameClients, PeerResets, Ended, serverVars
<1>4. CASE HashCheckOverdue(c)
  BY <1>4, <1>a, <1>b, <1>c, SameTable
  DEF Own, ConnInv, Known, OverdueIsSilent, ServedIsListed, SessionIsServed, Adding, Serving,
      Leaving, TypeOK, Apart, Goto, locals, table, tableStep, monitorVars, peerVars,
      SameClients, HashCheckOverdue, Ended, serverVars
<1>5. ASSUME NEW i \in IPs, Accept(c, i)
      PROVE  Own(c) /\ (\A d \in Conns \ {c} : Apart(d)) /\ UNCHANGED <<monitor, victim>>
  <2>1. \A d \in Conns \ {c} : Apart(d)
    BY <1>5, <1>a, SameTable
    DEF TypeOK, Apart, Goto, locals, table, tableStep, monitorVars, peerVars, SameClients,
        Accept
  <2>2. ~HasSession(c)'
    <3>1. \A l \in Conns : c \notin lists'[l]
      BY <1>5, <1>b DEF Accept, table, Known
    <3>2. authenticatedSessions' \in [IPs -> Conns \cup {NoList}] /\ ip'[c] = i
      BY <1>5, <1>a DEF Accept, table, TypeOK
    <3> QED
      BY <3>1, <3>2 DEF HasSession
  <2> QED
    BY <1>5, <1>a, <1>b, <2>1, <2>2
    DEF Own, ConnInv, Known, OverdueIsSilent, ServedIsListed, SessionIsServed, Adding, Serving,
        Leaving, TypeOK, Apart, Goto, locals, table, tableStep, monitorVars, peerVars,
        SameClients, Accept
<1> QED
  BY <1>1, <1>2, <1>3, <1>4, <1>5 DEF Client

-----------------------------------------------------------------------------
(* The monitor *)

\* What a step of the monitor does that takes no session: it may close or remove whom it
\* timed out.
LEMMA MonitorStep ==
    ASSUME Inv, Monitor, TypeOK' PROVE Inv'
<1>a. TypeOK /\ NoList \notin Conns /\ NoIp \notin IPs /\ NoConn \notin Conns
  BY ServerAssumption DEF Inv
<1>b. ASSUME NEW d \in Conns PROVE ConnInv(d)
  BY <1>b DEF Inv
<1>c. VictimInv /\ (monitor \in {"forget", "unmap", "close"} => victim \in Conns)
  BY <1>a DEF Inv, TypeOK
<1>d. ASSUME NEW d \in Conns,
             UNCHANGED <<pc, ip, connected, overdue, peer, inbox, clients>>,
             HasSession(d)' => HasSession(d),
             \A l \in Conns : lists'[l] \subseteq lists[l]
      PROVE  ConnInv(d)'
  BY <1>b, <1>d, ApartKeeps DEF Apart
<1>1. CASE MonitorWakes
  <2>1. \A d \in Conns : HasSession(d)' <=> HasSession(d)
    BY <1>1, SameTable DEF MonitorWakes, handlerVars, table
  <2>2. \A d \in Conns : ConnInv(d)'
    BY <1>1, <1>d, <2>1 DEF MonitorWakes, handlerVars, table, SameClients, peerVars
  <2>3. VictimInv'
    BY <1>1, <1>a, <1>c DEF MonitorWakes, handlerVars, VictimInv, TypeOK
  <2> QED
    BY <2>2, <2>3 DEF Inv
<1>2. CASE MonitorSleeps
  <2>1. \A d \in Conns : HasSession(d)' <=> HasSession(d)
    BY <1>2, SameTable DEF MonitorSleeps, handlerVars, table
  <2>2. \A d \in Conns : ConnInv(d)'
    BY <1>2, <1>d, <2>1 DEF MonitorSleeps, handlerVars, table, SameClients, peerVars
  <2>3. VictimInv'
    BY <1>2, <1>a, <1>c DEF MonitorSleeps, handlerVars, VictimInv, TypeOK
  <2> QED
    BY <2>2, <2>3 DEF Inv
<1>3. ASSUME NEW c \in Conns, MonitorLooksAt(c) PROVE Inv'
  <2>1. /\ UNCHANGED <<pc, ip, connected, overdue, peer, inbox, authenticatedSessions, lists>>
        /\ \/ /\ ~connected[c] /\ clients' = clients \ {c}
              /\ UNCHANGED <<monitor, victim>>
           \/ /\ overdue[c] /\ monitor' = "forget" /\ victim' = c /\ clients' = clients
           \/ UNCHANGED <<monitor, victim, clients>>
    BY <1>3 DEF MonitorLooksAt, handlerVars, table, peerVars, ChangeClients, SameClients
  <2>2. \A d \in Conns : HasSession(d)' <=> HasSession(d)
    BY <2>1, SameTable
  <2>3. ASSUME NEW d \in Conns PROVE ConnInv(d)'
    BY <2>1, <2>2, <2>3, <1>b
    DEF ConnInv, Known, OverdueIsSilent, ServedIsListed, SessionIsServed
  <2>4. VictimInv'
    BY <2>1, <2>2, <1>a, <1>c DEF VictimInv, TypeOK
  <2> QED
    BY <2>3, <2>4 DEF Inv
<1>4. CASE MonitorForgets
  <2>1. /\ victim \in Conns /\ victim' = victim
        /\ UNCHANGED <<pc, ip, connected, overdue, peer, inbox, clients, authenticatedSessions>>
        /\ RemoveFromList(victim) \/ (~HasSession(victim) /\ UNCHANGED lists)
    BY <1>4, <1>c DEF MonitorForgets, handlerVars, peerVars, SameClients
  <2>2. /\ \A d \in Conns : HasSession(d)' => HasSession(d)
        /\ \A l \in Conns : lists'[l] \subseteq lists[l]
        /\ ~HasSession(victim)'
    BY <2>1, <1>a DEF RemoveFromList, HasSession, TypeOK
  <2>3. \A d \in Conns : ConnInv(d)'
    BY <2>1, <2>2, <1>d
  <2>4. VictimInv'
    BY <2>1, <2>2, <1>c DEF VictimInv
  <2> QED
    BY <2>3, <2>4 DEF Inv
<1>5. CASE MonitorForgetsEntry
  <2>1. /\ victim \in Conns /\ victim' = victim /\ monitor = "unmap"
        /\ UNCHANGED <<pc, ip, connected, overdue, peer, inbox, clients, lists>>
        /\ Unmap(victim)
    BY <1>5, <1>c DEF MonitorForgetsEntry, handlerVars, peerVars, SameClients
  <2>2. \A d \in Conns : HasSession(d)' => HasSession(d)
    BY <2>1, <1>a DEF Unmap, HasSession, TypeOK
  <2>3. \A d \in Conns : ConnInv(d)'
    BY <2>1, <2>2, <1>d
  <2>4. VictimInv'
    BY <2>1, <2>2, <1>c DEF VictimInv
  <2> QED
    BY <2>3, <2>4 DEF Inv
<1>6. CASE MonitorCloses
  <2>1. /\ victim \in Conns /\ victim' = NoConn /\ monitor' = "scan"
        /\ UNCHANGED <<pc, ip, overdue, peer, inbox, authenticatedSessions, lists>>
        /\ connected' = [connected EXCEPT ![victim] = FALSE] /\ clients' = clients \ {victim}
        /\ ~HasSession(victim) /\ (overdue[victim] \/ pc[victim] \in Leaving)
    BY <1>6, <1>a, <1>c DEF MonitorCloses, handlerVars, table, peerVars, ChangeClients, VictimInv
  <2>2. \A d \in Conns : HasSession(d)' <=> HasSession(d)
    BY <2>1, SameTable
  <2>3. ASSUME NEW d \in Conns PROVE ConnInv(d)'
    BY <2>1, <2>2, <2>3, <1>a, <1>b
    DEF ConnInv, Known, OverdueIsSilent, ServedIsListed, SessionIsServed, Leaving, Serving, Adding,
        TypeOK
  <2>4. VictimInv'
    BY <2>1 DEF VictimInv
  <2> QED
    BY <2>3, <2>4 DEF Inv
<1> QED
  BY <1>1, <1>2, <1>3, <1>4, <1>5, <1>6 DEF Monitor

-----------------------------------------------------------------------------

\* The invariant holds at the start.
LEMMA InitInv == Init => Inv
<1> SUFFICES ASSUME Init PROVE Inv
  OBVIOUS
<1>1. \A c \in Conns : ConnInv(c)
  BY DEF Init, ConnInv, Known, OverdueIsSilent, ServedIsListed, SessionIsServed, HasSession,
     Serving, Adding
<1>2. VictimInv
  BY DEF Init, VictimInv
<1> QED
  BY <1>1, <1>2, InitType DEF Inv

\* The invariant is inductive.
LEMMA InvStep == Inv /\ [Next]_vars => Inv'
<1> SUFFICES ASSUME Inv, [Next]_vars PROVE Inv'
  OBVIOUS
<1>a. TypeOK /\ \A d \in Conns : Known(d)
  BY DEF Inv, ConnInv
<1>1. ASSUME NEW c \in Conns, Callback(c) PROVE Inv'
  <2>1. TypeOK'
    BY <1>1, <1>a, CallbackType
  <2> QED
    BY <1>1, <2>1, CallbackApart, CallbackOwn, StepKeeps
<1>2. ASSUME NEW c \in Conns, Client(c) \/ HashCheckOverdue(c) \/ \E i \in IPs : Accept(c, i)
      PROVE  Inv'
  <2>1. TypeOK'
    BY <1>2, <1>a, OtherType
  <2> QED
    BY <1>2, <2>1, ClientOwn, StepKeeps
<1>3. CASE Monitor
  <2>1. TypeOK'
    BY <1>3, <1>a, OtherType
  <2> QED
    BY <1>3, <2>1, MonitorStep
<1>4. CASE UNCHANGED vars
  <2>1. TypeOK'
    BY <1>4, <1>a, OtherType
  <2>2. UNCHANGED <<pc, ip, connected, overdue, peer, inbox, clients, authenticatedSessions,
                    lists, monitor, victim>>
    BY <1>4 DEF vars, table, monitorVars, peerVars
  <2>3. \A d \in Conns : HasSession(d)' <=> HasSession(d)
    BY <2>2, SameTable
  <2>4. \A d \in Conns : Apart(d)
    BY <2>2, <2>3 DEF Apart
  <2>5. \A d \in Conns : ConnInv(d)'
    BY <2>4, ApartKeeps DEF Inv
  <2>6. VictimInv'
    BY <2>2 DEF Inv, VictimInv, HasSession
  <2> QED
    BY <2>1, <2>5, <2>6 DEF Inv
<1> QED
  BY <1>1, <1>2, <1>3, <1>4 DEF Next

\* The invariant of the server.
LEMMA Invariant == Spec => []Inv
<1>1. Init => Inv
  BY InitInv
<1>2. Inv /\ [Next]_vars => Inv'
  BY InvStep
<1> QED
  BY <1>1, <1>2, PTL DEF Spec

\* Server.cs: whatever the clients send and however they end, every callback is at a step of
\* the code and every table holds what its type says.
THEOREM TypesAreKept == Spec => []TypeOK
<1>1. Inv => TypeOK
  BY DEF Inv
<1> QED
  BY <1>1, Invariant, PTL

\* Server.cs: for any number of clients, a session ends with its callback, unless the
\* connection was reset; and when the callback died of an exception its client is still in
\* the list, where the monitor finds it.
THEOREM NoSessionIsLeft == Spec => []NoGhostSession
<1>1. Inv => NoGhostSession
  BY DEF Inv, ConnInv, SessionIsServed, NoGhostSession, Serving, Adding
<1> QED
  BY <1>1, Invariant, PTL

=============================================================================

--------------------------- MODULE TcpProxy_proofs ---------------------------
(* Proofs about TcpProxy for any number of connections, threads, IPs, ports *)
(* and game codes.                                                          *)
EXTENDS TcpProxy, TLAPS

-----------------------------------------------------------------------------
(* Types.  TypeOK is not inductive by itself: a handler indexes the          *)
(* dictionaries with the IP it was accepted from and fills the bag object it *)
(* holds a reference to.                                                     *)

\* The steps up to the last look-up of the session list.
Early == {"none", "handle", "getOrAdd", "add", "attempts", "reset", "banCheck", "auth"}

\* A handler past Accept knows its IP and port, a bag in use exists, and the
\* look-ups of a handler that goes on are below their limit.
RefsOK ==
  /\ \A c \in Conns : conn[c].pc # "none" => conn[c].ip \in IPs /\ conn[c].port \in Ports
  /\ \A c \in Conns : conn[c].pc \in {"add", "copy"} =>
        conn[c].ref \in BagIds /\ bag[conn[c].ref] # NoBag
  /\ \A c \in Conns : conn[c].pc = "assign" => bag[RebuiltBag(c)] # NoBag
  /\ \A i \in IPs : activeTcpClients[i] # NoBag => bag[activeTcpClients[i]] # NoBag
  /\ \A c \in Conns : conn[c].pc \in Early => conn[c].tries < MaxAuthTries
  /\ \A t \in BanThreads : ban[t].pc # "idle" => ban[t].ip \in IPs

TypeInv == TypeOK /\ RefsOK

\* The steps and the outcomes by name, so that a type proof need not expand the sets.
LEMMA PcFacts ==
  /\ {"none", "handle", "getOrAdd", "add", "attempts", "reset", "banCheck", "auth",
      "claim", "parallel", "reject", "connect", "forward", "grace", "release",
      "lookup", "copy", "assign", "count", "banning", "done"} \subseteq ConnPcs
  /\ {"pending", "banned", "parallel", "unauthenticated", "served"} \subseteq Outcomes
  BY DEF ConnPcs, Outcomes

\* The bag objects a connection creates are bag objects.
LEMMA BagFacts ==
  /\ \A c \in Conns : RegisteredBag(c) \in BagIds /\ RebuiltBag(c) \in BagIds
  /\ NoBag \notin BagIds
  /\ \A S \in SUBSET Conns : NoBag # S
  BY ThreadsAssumption DEF BagIds, RegisteredBag, RebuiltBag

\* At first no connection is accepted and no bag exists.
LEMMA InitType == Init => TypeInv
  BY ConstantsAssumption, PcFacts
  DEF Init, TypeInv, TypeOK, RefsOK, Early, Unused, Idle, ConnRecord, BanRecord

\* A step that changes only the locals of one handler keeps the types when the new
\* locals have theirs and agree with RefsOK.
LEMMA LocalStepType ==
  ASSUME TypeInv, NEW c \in Conns, NEW r \in ConnRecord,
         conn' = [conn EXCEPT ![c] = r],
         UNCHANGED <<ban, activeTcpClients, bag, failedAttempts, sessions, dbVars>>,
         activeConnections' \subseteq Keys,
         r.pc # "none" => r.ip \in IPs /\ r.port \in Ports,
         r.pc \in {"add", "copy"} => r.ref \in BagIds /\ bag[r.ref] # NoBag,
         r.pc # "assign",
         r.pc \in Early => r.tries < MaxAuthTries
  PROVE  TypeInv'
  BY DEF TypeInv, TypeOK, RefsOK, dbVars

\* The handler of c only goes on to step p.
LEMMA MoveType ==
  ASSUME TypeInv, NEW c \in Conns, conn[c].pc # "none",
         NEW p \in ConnPcs \ {"add", "copy", "assign"},
         p \in Early => conn[c].pc \in Early,
         conn' = [conn EXCEPT ![c].pc = p],
         UNCHANGED <<ban, activeTcpClients, bag, failedAttempts, sessions, dbVars>>,
         activeConnections' \subseteq Keys
  PROVE  TypeInv'
<1> DEFINE r == [conn[c] EXCEPT !.pc = p]
<1>1. conn[c] \in ConnRecord
  BY DEF TypeInv, TypeOK
<1>2. r \in ConnRecord
  BY <1>1 DEF ConnRecord
<1>3. r.pc = p /\ r.ip = conn[c].ip /\ r.port = conn[c].port /\ r.tries = conn[c].tries
  BY <1>1 DEF ConnRecord
<1>4. conn' = [conn EXCEPT ![c] = r]
  OBVIOUS
<1>5. /\ conn[c].ip \in IPs /\ conn[c].port \in Ports
      /\ conn[c].pc \in Early => conn[c].tries < MaxAuthTries
  BY DEF TypeInv, RefsOK
<1> HIDE DEF r
<1> QED
  BY <1>2, <1>3, <1>4, <1>5, LocalStepType

\* The handler of c leaves.
LEMMA LeaveType ==
  ASSUME TypeInv, NEW c \in Conns, conn[c].pc # "none", NEW why \in Outcomes,
         Leave(c, why),
         UNCHANGED <<ban, activeTcpClients, bag, failedAttempts, sessions, dbVars>>,
         activeConnections' \subseteq Keys
  PROVE  TypeInv'
<1> DEFINE r == [conn[c] EXCEPT !.open = FALSE, !.outcome = why, !.pc = "lookup"]
<1>1. conn[c] \in ConnRecord
  BY DEF TypeInv, TypeOK
<1>2. r \in ConnRecord
  BY <1>1, PcFacts DEF ConnRecord
<1>3. r.pc = "lookup" /\ r.ip = conn[c].ip /\ r.port = conn[c].port
  BY <1>1 DEF ConnRecord
<1>4. conn' = [conn EXCEPT ![c] = r]
  BY DEF Leave
<1>5. conn[c].ip \in IPs /\ conn[c].port \in Ports /\ r.pc \notin Early
  BY <1>3 DEF TypeInv, RefsOK, Early
<1> HIDE DEF r
<1> QED
  BY <1>2, <1>3, <1>4, <1>5, LocalStepType

\* Each step of a handler thread, of its peer and of its periodic check.
LEMMA HandlerType ==
  ASSUME TypeInv, NEW c \in Conns, Handler(c) \/ PeerCloses(c) \/ PeriodicBanCheck(c)
  PROVE  TypeInv'
<1>0. /\ conn[c] \in ConnRecord
      /\ conn[c].pc # "none" => conn[c].ip \in IPs /\ conn[c].port \in Ports
      /\ conn[c].pc \in Early => conn[c].tries < MaxAuthTries
      /\ activeConnections \subseteq Keys
  BY DEF TypeInv, TypeOK, RefsOK
<1>1. CASE FirstBanCheck(c)
  BY <1>0, <1>1, LeaveType, MoveType, PcFacts DEF FirstBanCheck, Early
<1>2. CASE ReadAttempts(c)
  <2>1. PICK p \in {"reset", "banCheck"} : conn' = [conn EXCEPT ![c].pc = p]
    BY <1>2 DEF ReadAttempts
  <2>2. p \in ConnPcs \ {"add", "copy", "assign"} /\ conn[c].pc \in Early
    BY <1>2, PcFacts DEF ReadAttempts, Early
  <2> QED
    BY <1>0, <1>2, <2>1, <2>2, MoveType DEF ReadAttempts
<1>3. CASE SecondBanCheck(c)
  BY <1>0, <1>3, LeaveType, MoveType, PcFacts DEF SecondBanCheck, Early
<1>4. CASE RefuseParallel(c)
  BY <1>0, <1>4, LeaveType, PcFacts DEF RefuseParallel
<1>5. CASE RejectUnauthenticated(c)
  BY <1>0, <1>5, LeaveType, PcFacts DEF RejectUnauthenticated
<1>6. CASE Release(c)
  <2>1. "lookup" \in ConnPcs \ {"add", "copy", "assign"} /\ "lookup" \notin Early
    BY PcFacts DEF Early
  <2>2. /\ conn[c].pc # "none"
        /\ conn' = [conn EXCEPT ![c].pc = "lookup"]
        /\ UNCHANGED <<ban, activeTcpClients, bag, failedAttempts, sessions, dbVars>>
        /\ activeConnections' \subseteq Keys
    BY <1>0, <1>6 DEF Release
  <2> QED
    BY <2>1, <2>2, MoveType
<1>7. CASE BanReturns(c)
  <2>1. "done" \in ConnPcs \ {"add", "copy", "assign"} /\ "done" \notin Early
    BY PcFacts DEF Early
  <2>2. /\ conn[c].pc # "none"
        /\ conn' = [conn EXCEPT ![c].pc = "done"]
        /\ UNCHANGED <<ban, activeTcpClients, bag, failedAttempts, sessions, dbVars>>
        /\ activeConnections' \subseteq Keys
    BY <1>0, <1>7 DEF BanReturns
  <2> QED
    BY <2>1, <2>2, MoveType
<1>9. CASE ForwardFails(c)
  <2>1. "grace" \in ConnPcs \ {"add", "copy", "assign"} /\ "grace" \notin Early
    BY PcFacts DEF Early
  <2>2. /\ conn[c].pc # "none"
        /\ conn' = [conn EXCEPT ![c].pc = "grace"]
        /\ UNCHANGED <<ban, activeTcpClients, bag, failedAttempts, sessions, dbVars>>
        /\ activeConnections' \subseteq Keys
    BY <1>0, <1>9 DEF ForwardFails
  <2> QED
    BY <2>1, <2>2, MoveType
<1>10. CASE PeerCloses(c)
  <2>1. "grace" \in ConnPcs \ {"add", "copy", "assign"} /\ "grace" \notin Early
    BY PcFacts DEF Early
  <2>2. /\ conn[c].pc # "none"
        /\ conn' = [conn EXCEPT ![c].pc = "grace"]
        /\ UNCHANGED <<ban, activeTcpClients, bag, failedAttempts, sessions, dbVars>>
        /\ activeConnections' \subseteq Keys
    BY <1>0, <1>10 DEF PeerCloses
  <2> QED
    BY <2>1, <2>2, MoveType
<1>8. CASE ConnectTarget(c)
  <2>1. PICK next \in {"forward", "release"} :
          conn' = [conn EXCEPT ![c] = [@ EXCEPT !.watch = TRUE, !.pc = next]]
    BY <1>8 DEF ConnectTarget
  <2> DEFINE r == [conn[c] EXCEPT !.watch = TRUE, !.pc = next]
  <2>2. r \in ConnRecord
    BY <1>0, PcFacts DEF ConnRecord
  <2>3. r.pc = next /\ r.ip = conn[c].ip /\ r.port = conn[c].port
    BY <1>0 DEF ConnRecord
  <2>4. r.pc \notin Early
    BY <2>3 DEF Early
  <2> HIDE DEF r
  <2> QED
    BY <1>0, <1>8, <2>1, <2>2, <2>3, <2>4, LocalStepType DEF ConnectTarget, r
<1>11. CASE EndGrace(c)
  <2> DEFINE r == [conn[c] EXCEPT !.open = FALSE, !.pc = "release"]
  <2>2. r \in ConnRecord
    BY <1>0, PcFacts DEF ConnRecord
  <2>3. r.pc = "release" /\ r.ip = conn[c].ip /\ r.port = conn[c].port
    BY <1>0 DEF ConnRecord
  <2>4. r.pc \notin Early
    BY <2>3 DEF Early
  <2>5. conn' = [conn EXCEPT ![c] = r]
    BY <1>11 DEF EndGrace
  <2> HIDE DEF r
  <2> QED
    BY <1>0, <1>11, <2>2, <2>3, <2>4, <2>5, LocalStepType DEF EndGrace
<1>13. CASE Authenticate(c)
  <2> DEFINE list == sessions[conn[c].ip]
             ok   == list # NoList /\ Len(list) <= 2
             last == conn[c].tries + 1 = MaxAuthTries
             code == IF (ok \/ last) /\ list # NoList /\ list # <<>> THEN list[1] ELSE NoCode
             p    == IF ok \/ last THEN "claim" ELSE "auth"
             r    == [conn[c] EXCEPT !.tries = conn[c].tries + 1, !.auth = ok, !.code = code, !.pc = p]
  <2>1. code \in GameCodes \cup {NoCode}
    <3>1. list \in SessionLists
      BY <1>0, <1>13 DEF TypeInv, TypeOK, Authenticate
    <3>2. CASE list # NoList /\ list # <<>>
      <4>1. list \in Seq(GameCodes)
        BY <3>1, <3>2, ConstantsAssumption
      <4> HIDE DEF list
      <4>2. list[1] \in GameCodes
        BY <4>1, <3>2
      <4> QED
        BY <4>2
    <3> QED
      BY <3>2
  <2>2. conn[c].tries + 1 \in 0..MaxAuthTries /\ (~last => conn[c].tries + 1 < MaxAuthTries)
    BY <1>0, <1>13, ConstantsAssumption DEF ConnRecord, Authenticate, Early
  <2>3. ok \in BOOLEAN /\ p \in ConnPcs
    BY PcFacts
  <2>4. conn' = [conn EXCEPT ![c] = r]
    BY <1>13, Zenon DEF Authenticate
  <2>7. p = "claim" \/ (p = "auth" /\ ~last)
    BY Zenon
  <2> HIDE DEF code, ok, p
  <2>5. r \in ConnRecord
    BY <1>0, <2>1, <2>2, <2>3 DEF ConnRecord
  <2>6. r.pc = p /\ r.ip = conn[c].ip /\ r.port = conn[c].port /\ r.tries = conn[c].tries + 1
    BY <1>0 DEF ConnRecord
  <2>8. r.pc \in Early => r.tries < MaxAuthTries
    BY <2>2, <2>6, <2>7 DEF Early
  <2>9. conn[c].pc # "none" /\ UNCHANGED <<ban, activeTcpClients, bag, activeConnections, failedAttempts, sessions, dbVars>>
    BY <1>13 DEF Authenticate
  <2> HIDE DEF r
  <2> QED
    BY <1>0, <2>4, <2>5, <2>6, <2>7, <2>8, <2>9, LocalStepType
<1>14. CASE Claim(c)
  <2>0. conn[c].pc # "none" /\ activeConnections' \subseteq Keys
    BY <1>0, <1>14 DEF Claim, Key, Keys, ConnRecord
  <2>1. PICK o \in Outcomes, p \in {"parallel", "connect", "reject"} :
          conn' = [conn EXCEPT ![c] = [@ EXCEPT !.outcome = o, !.pc = p]]
    BY <1>14, PcFacts DEF Claim, Claimed
  <2> DEFINE r == [conn[c] EXCEPT !.outcome = o, !.pc = p]
  <2>2. r \in ConnRecord
    BY <1>0, PcFacts DEF ConnRecord
  <2>3. r.pc = p /\ r.ip = conn[c].ip /\ r.port = conn[c].port
    BY <1>0 DEF ConnRecord
  <2>4. r.pc \notin Early
    BY <2>3 DEF Early
  <2>5. conn' = [conn EXCEPT ![c] = r]
    BY <2>1
  <2> HIDE DEF r
  <2> QED
    BY <1>0, <1>14, <2>0, <2>2, <2>3, <2>4, <2>5, LocalStepType DEF Claim
<1>15. CASE LookupBag(c)
  <2> DEFINE b == activeTcpClients[conn[c].ip]
             q == [conn[c] EXCEPT !.open = FALSE, !.pc = AfterRemoval(c)]
             r == [conn[c] EXCEPT !.ref = b, !.pc = "copy"]
  <2>1. /\ conn[c].pc # "none" /\ AfterRemoval(c) \in {"count", "done"}
        /\ UNCHANGED <<ban, activeTcpClients, bag, activeConnections, failedAttempts,
                       sessions, dbVars>>
    BY <1>15 DEF LookupBag, AfterRemoval
  <2>2. b \in BagIds \cup {NoBag} /\ (b # NoBag => bag[b] # NoBag)
    BY <1>0, <2>1 DEF TypeInv, TypeOK, RefsOK
  <2>3. CASE conn' = [conn EXCEPT ![c] = q]
    <3>1. q \in ConnRecord
      BY <1>0, <2>1, PcFacts DEF ConnRecord
    <3>2. q.pc \in {"count", "done"} /\ q.ip = conn[c].ip /\ q.port = conn[c].port
      BY <1>0, <2>1 DEF ConnRecord
    <3>3. q.pc \notin Early
      BY <3>2 DEF Early
    <3> HIDE DEF q
    <3> QED
      BY <1>0, <2>1, <2>3, <3>1, <3>2, <3>3, LocalStepType
  <2>4. CASE b # NoBag /\ conn' = [conn EXCEPT ![c] = r]
    <3>1. r \in ConnRecord
      BY <1>0, <2>2, PcFacts DEF ConnRecord
    <3>2. r.pc = "copy" /\ r.ref = b /\ r.ip = conn[c].ip /\ r.port = conn[c].port
      BY <1>0 DEF ConnRecord
    <3>3. r.pc \notin Early
      BY <3>2 DEF Early
    <3> HIDE DEF r, b
    <3> QED
      BY <1>0, <2>1, <2>2, <2>4, <3>1, <3>2, <3>3, LocalStepType
  <2> QED
    BY <1>15, <2>3, <2>4, Zenon DEF LookupBag
<1>16. CASE GetOrAdd(c)
  <2> DEFINE i == conn[c].ip
             b == IF activeTcpClients[i] = NoBag THEN RegisteredBag(c) ELSE activeTcpClients[i]
             r == [conn[c] EXCEPT !.ref = b, !.pc = "add"]
  <2>1. /\ conn[c].pc = "getOrAdd" /\ conn' = [conn EXCEPT ![c] = r]
        /\ activeTcpClients' = [activeTcpClients EXCEPT ![i] = b]
        /\ bag' = IF activeTcpClients[i] = NoBag THEN [bag EXCEPT ![b] = {}] ELSE bag
        /\ UNCHANGED <<ban, activeConnections, failedAttempts, sessions, dbVars>>
    BY <1>16 DEF GetOrAdd
  <2>2. i \in IPs /\ b \in BagIds /\ (activeTcpClients[i] # NoBag => bag[b] # NoBag)
    BY <1>0, <2>1, BagFacts DEF TypeInv, TypeOK, RefsOK
  <2>3. /\ r \in ConnRecord /\ r.pc = "add" /\ r.ip = i /\ r.port = conn[c].port
        /\ r.ref = b /\ r.tries = conn[c].tries
    BY <1>0, <2>2, PcFacts DEF ConnRecord
  <2> HIDE DEF b, r
  <2> QED
    BY <1>0, <2>1, <2>2, <2>3, BagFacts DEF Early, TypeInv, TypeOK, RefsOK, dbVars
<1>17. CASE Register(c)
  <2> DEFINE r == [conn[c] EXCEPT !.uid = dbUp /\ conn[c].ip \in AccountIPs, !.pc = "attempts"]
  <2>1. /\ r \in ConnRecord /\ r.pc = "attempts" /\ r.ip = conn[c].ip /\ r.port = conn[c].port
        /\ r.tries = conn[c].tries
    BY <1>0, PcFacts DEF ConnRecord
  <2>2. /\ conn[c].pc = "add" /\ conn' = [conn EXCEPT ![c] = r]
        /\ bag' = [bag EXCEPT ![conn[c].ref] = @ \cup {c}]
        /\ UNCHANGED <<ban, activeTcpClients, activeConnections, failedAttempts, sessions, dbVars>>
    BY <1>17 DEF Register
  <2> HIDE DEF r
  <2> QED
    BY <1>0, <2>1, <2>2, BagFacts DEF Early, TypeInv, TypeOK, RefsOK, dbVars
<1>18. CASE ResetAttempts(c)
  BY <1>0, <1>18, PcFacts DEF ResetAttempts, Early, ConnRecord, TypeInv, TypeOK, RefsOK, dbVars
<1>19. CASE CountFailure(c)
  <2>1. conn[c].pc = "count" /\ failedAttempts' = [failedAttempts EXCEPT ![conn[c].ip] = @ + 1]
        /\ UNCHANGED <<activeTcpClients, bag, activeConnections, sessions, dbVars>>
    BY <1>19 DEF CountFailure
  <2>2. PICK p \in {"banning", "done"} : conn' = [conn EXCEPT ![c].pc = p]
    BY <1>19 DEF CountFailure
  <2>3. PICK r \in BanRecord : /\ ban' = [ban EXCEPT ![c] = r]
                               /\ r.pc # "idle" => r.ip \in IPs
    <3>1. CASE ban' = ban
      BY <3>1 DEF TypeInv, TypeOK, RefsOK, BanThreads
    <3>2. CASE ban' = [ban EXCEPT ![c] = Started(conn[c].ip, TRUE)]
      <4>1. Started(conn[c].ip, TRUE) \in BanRecord /\ Started(conn[c].ip, TRUE).ip \in IPs
        BY <1>0, <2>1 DEF BanRecord, Started
      <4> QED
        BY <3>2, <4>1
    <3> QED
      BY <1>19, <3>1, <3>2 DEF CountFailure
  <2> QED
    BY <1>0, <2>1, <2>2, <2>3, PcFacts DEF Early, ConnRecord, BanThreads, TypeInv, TypeOK, RefsOK, dbVars
<1>20. CASE CopyBag(c)
  <2> DEFINE r == [conn[c] EXCEPT !.pc = "assign"]
  <2>1. r \in ConnRecord /\ r.pc = "assign" /\ r.ip = conn[c].ip /\ r.port = conn[c].port
    BY <1>0, PcFacts DEF ConnRecord
  <2>2. /\ conn[c].pc = "copy" /\ conn' = [conn EXCEPT ![c] = r]
        /\ bag' = [bag EXCEPT ![RebuiltBag(c)] = bag[conn[c].ref] \ {c}]
        /\ UNCHANGED <<ban, activeTcpClients, activeConnections, failedAttempts, sessions, dbVars>>
    BY <1>20 DEF CopyBag
  <2> HIDE DEF r
  <2> QED
    BY <1>0, <2>1, <2>2, BagFacts DEF Early, TypeInv, TypeOK, RefsOK, dbVars
<1>21. CASE AssignBag(c)
  <2>1. AfterRemoval(c) \in {"count", "done"}
    BY DEF AfterRemoval
  <2> DEFINE r == [conn[c] EXCEPT !.open = FALSE, !.pc = AfterRemoval(c)]
  <2>2. r \in ConnRecord /\ r.pc \in {"count", "done"} /\ r.ip = conn[c].ip /\ r.port = conn[c].port
    BY <1>0, <2>1, PcFacts DEF ConnRecord
  <2>3. /\ conn[c].pc = "assign" /\ conn' = [conn EXCEPT ![c] = r]
        /\ activeTcpClients' = [activeTcpClients EXCEPT ![conn[c].ip] = RebuiltBag(c)]
        /\ UNCHANGED <<ban, bag, activeConnections, failedAttempts, sessions, dbVars>>
    BY <1>21 DEF AssignBag
  <2> HIDE DEF r
  <2> QED
    BY <1>0, <2>2, <2>3, BagFacts DEF Early, TypeInv, TypeOK, RefsOK, dbVars
<1>22. CASE PeriodicBanCheck(c)
  <2> DEFINE r == [conn[c] EXCEPT !.open = FALSE, !.watch = FALSE]
  <2>1. /\ r \in ConnRecord /\ r.pc = conn[c].pc /\ r.ip = conn[c].ip /\ r.port = conn[c].port
        /\ r.ref = conn[c].ref /\ r.tries = conn[c].tries
    BY <1>0 DEF ConnRecord
  <2>2. /\ conn' = [conn EXCEPT ![c] = r]
        /\ UNCHANGED <<ban, activeTcpClients, bag, activeConnections, failedAttempts, sessions, dbVars>>
    BY <1>22 DEF PeriodicBanCheck
  <2> HIDE DEF r
  <2> QED
    BY <1>0, <2>1, <2>2 DEF TypeInv, TypeOK, RefsOK, dbVars
<1> QED
  BY <1>1, <1>2, <1>3, <1>4, <1>5, <1>6, <1>7, <1>8, <1>9, <1>10, <1>11, <1>13, <1>14,
     <1>15, <1>16, <1>17, <1>18, <1>19, <1>20, <1>21, <1>22 DEF Handler

\* Accept fills in the IP and the port of an unused connection.
LEMMA AcceptType ==
  ASSUME TypeInv, NEW c \in Conns, NEW i \in IPs, NEW p \in Ports, Accept(c, i, p)
  PROVE  TypeInv'
<1> DEFINE q == [conn[c] EXCEPT !.ip = i, !.port = p, !.outcome = "banned", !.pc = "done"]
           r == [conn[c] EXCEPT !.ip = i, !.port = p, !.open = TRUE, !.pc = "handle"]
<1>1. /\ conn[c] \in ConnRecord /\ conn[c].pc = "none"
      /\ conn[c].tries < MaxAuthTries /\ activeConnections \subseteq Keys
      /\ UNCHANGED <<ban, activeTcpClients, bag, activeConnections, failedAttempts,
                     sessions, dbVars>>
  BY DEF Accept, TypeInv, TypeOK, RefsOK, Early
<1>2. conn' = [conn EXCEPT ![c] = q] \/ conn' = [conn EXCEPT ![c] = r]
  BY DEF Accept
<1>3. /\ q \in ConnRecord /\ q.pc = "done" /\ q.ip = i /\ q.port = p
      /\ r \in ConnRecord /\ r.pc = "handle" /\ r.ip = i /\ r.port = p
      /\ r.tries = conn[c].tries
  BY <1>1, PcFacts DEF ConnRecord
<1>4. q.pc \notin Early
  BY <1>3 DEF Early
<1> HIDE DEF q, r
<1>5. CASE conn' = [conn EXCEPT ![c] = q]
  BY <1>1, <1>3, <1>4, <1>5, LocalStepType
<1>6. CASE conn' = [conn EXCEPT ![c] = r]
  BY <1>1, <1>3, <1>6, LocalStepType
<1> QED
  BY <1>2, <1>5, <1>6

\* A step of the ban procedure that changes only its own state, or takes a bag.
LEMMA LocalBanType ==
  ASSUME TypeInv, NEW t \in BanThreads, NEW r \in BanRecord,
         ban' = [ban EXCEPT ![t] = r],
         r.pc # "idle" => r.ip \in IPs,
         NEW i \in IPs,
         \/ UNCHANGED activeTcpClients
         \/ activeTcpClients' = [activeTcpClients EXCEPT ![i] = NoBag],
         banned' \subseteq AccountIPs, uidBanned' \subseteq AccountIPs,
         UNCHANGED <<conn, bag, activeConnections, failedAttempts, sessions, dbUp,
                     outages, unbans>>
  PROVE  TypeInv'
  BY DEF TypeInv, TypeOK, RefsOK

\* Where CloseConnectionsForIp returns to.
LEMMA CloseReturnsType ==
  ASSUME TypeInv, NEW t \in BanThreads, ban[t].pc # "idle", CloseReturns(t)
  PROVE  \E r \in BanRecord : ban' = [ban EXCEPT ![t] = r] /\ (r.pc # "idle" => r.ip \in IPs)
<1> DEFINE q == [ban[t] EXCEPT !.pc = "uid", !.pass = 2, !.ref = NoBag]
<1>1. ban[t] \in BanRecord /\ ban[t].ip \in IPs
  BY DEF TypeInv, TypeOK, RefsOK
<1>2. q \in BanRecord /\ q.ip = ban[t].ip /\ Idle \in BanRecord /\ Idle.pc = "idle"
  BY <1>1 DEF BanRecord, Idle
<1>3. ban' = [ban EXCEPT ![t] = q] \/ ban' = [ban EXCEPT ![t] = Idle]
  BY DEF CloseReturns
<1> HIDE DEF q
<1> QED
  BY <1>1, <1>2, <1>3

\* Each step of the ban procedure, and its start by the anticheat server.
LEMMA BanType ==
  ASSUME TypeInv, NEW t \in BanThreads,
         \/ BanProcedure(t)
         \/ \E i \in IPs, full \in BOOLEAN : ServerBans(t, i, full)
  PROVE  TypeInv'
<1>0. /\ ban[t] \in BanRecord
      /\ ban[t].pc # "idle" => ban[t].ip \in IPs
      /\ banned \subseteq AccountIPs /\ uidBanned \subseteq AccountIPs
  BY DEF TypeInv, TypeOK, RefsOK
<1>1. CASE BanStatus(t)
  <2> DEFINE r == [ban[t] EXCEPT !.pc = "uid", !.pass = IF dbUp THEN 1 ELSE 2]
  <2>1. r \in BanRecord /\ r.ip = ban[t].ip
    BY <1>0 DEF BanRecord
  <2>2. ban' = [ban EXCEPT ![t] = r]
    BY <1>1 DEF BanStatus
  <2>3. ban[t].ip \in IPs
    BY <1>0, <1>1 DEF BanStatus
  <2> HIDE DEF r
  <2> QED
    BY <1>0, <1>1, <2>1, <2>2, <2>3, LocalBanType DEF BanStatus
<1>2. CASE BanUid(t)
  <2> DEFINE r == [ban[t] EXCEPT !.pc = "take"]
  <2>1. r \in BanRecord /\ r.ip = ban[t].ip /\ Idle \in BanRecord /\ Idle.pc = "idle"
    BY <1>0 DEF BanRecord, Idle
  <2>2. ban' = [ban EXCEPT ![t] = r] \/ ban' = [ban EXCEPT ![t] = Idle]
    BY <1>2 DEF BanUid
  <2>3. ban[t].ip \in IPs
    BY <1>0, <1>2 DEF BanUid
  <2> HIDE DEF r
  <2> QED
    BY <1>0, <1>2, <2>1, <2>2, <2>3, LocalBanType DEF BanUid
<1>3. CASE TakeBag(t)
  <2>1. /\ ban[t].pc # "idle" /\ ban[t].ip \in IPs
        /\ activeTcpClients' = [activeTcpClients EXCEPT ![ban[t].ip] = NoBag]
        /\ UNCHANGED <<conn, bag, activeConnections, failedAttempts, sessions, dbVars>>
    BY <1>0, <1>3 DEF TakeBag
  <2>2. CASE CloseReturns(t)
    BY <1>0, <2>1, <2>2, CloseReturnsType, LocalBanType DEF dbVars
  <2>3. CASE ban' = [ban EXCEPT ![t] = [@ EXCEPT !.pc = "close", !.ref = activeTcpClients[ban[t].ip]]]
    <3> DEFINE r == [ban[t] EXCEPT !.pc = "close", !.ref = activeTcpClients[ban[t].ip]]
    <3>1. r \in BanRecord /\ r.ip = ban[t].ip
      BY <1>0, <2>1 DEF BanRecord, TypeInv, TypeOK
    <3>2. ban' = [ban EXCEPT ![t] = r]
      BY <2>3
    <3> HIDE DEF r
    <3> QED
      BY <1>0, <2>1, <3>1, <3>2, LocalBanType DEF dbVars
  <2> QED
    BY <1>3, <2>2, <2>3 DEF TakeBag
<1>4. CASE CloseBag(t)
  <2>1. PICK r \in BanRecord : /\ ban' = [ban EXCEPT ![t] = r]
                               /\ r.pc # "idle" => r.ip \in IPs
    BY <1>4, CloseReturnsType DEF CloseBag
  <2>2. \A c \in Conns :
          \/ conn'[c] = conn[c]
          \/ conn'[c] = [conn[c] EXCEPT !.open = FALSE]
    BY <1>4 DEF CloseBag
  <2>3. \A c \in Conns :
          /\ conn'[c] \in ConnRecord
          /\ conn'[c].pc = conn[c].pc /\ conn'[c].ip = conn[c].ip
          /\ conn'[c].port = conn[c].port /\ conn'[c].ref = conn[c].ref
          /\ conn'[c].tries = conn[c].tries
    <3> SUFFICES ASSUME NEW c \in Conns
                 PROVE  /\ conn'[c] \in ConnRecord
                        /\ conn'[c].pc = conn[c].pc /\ conn'[c].ip = conn[c].ip
                        /\ conn'[c].port = conn[c].port /\ conn'[c].ref = conn[c].ref
                        /\ conn'[c].tries = conn[c].tries
      OBVIOUS
    <3>1. conn[c] \in ConnRecord
      BY DEF TypeInv, TypeOK
    <3>2. CASE conn'[c] = conn[c]
      BY <3>1, <3>2
    <3>3. CASE conn'[c] = [conn[c] EXCEPT !.open = FALSE]
      BY <3>1, <3>3 DEF ConnRecord
    <3> QED
      BY <2>2, <3>2, <3>3
  <2>4. conn' \in [Conns -> ConnRecord]
    BY <1>4, <2>3 DEF CloseBag
  <2>5. UNCHANGED <<activeTcpClients, bag, activeConnections, failedAttempts, sessions, dbVars>>
    BY <1>4 DEF CloseBag
  <2> QED
    BY <2>1, <2>3, <2>4, <2>5 DEF TypeInv, TypeOK, RefsOK, dbVars
<1>5. CASE \E i \in IPs, full \in BOOLEAN : ServerBans(t, i, full)
  <2>1. PICK i \in IPs, full \in BOOLEAN : ServerBans(t, i, full)
    BY <1>5
  <2>2. Started(i, full) \in BanRecord /\ Started(i, full).ip = i
    BY DEF BanRecord, Started
  <2>3. /\ ban' = [ban EXCEPT ![t] = Started(i, full)]
        /\ UNCHANGED <<conn, bag, activeTcpClients, activeConnections, failedAttempts, sessions,
                       dbUp, outages, unbans, banned, uidBanned>>
    BY <2>1 DEF ServerBans, dbVars
  <2>4. banned' \subseteq AccountIPs /\ uidBanned' \subseteq AccountIPs
    BY <2>3 DEF TypeInv, TypeOK
  <2> QED
    BY <2>2, <2>3, <2>4, LocalBanType
<1> QED
  BY <1>1, <1>2, <1>3, <1>4, <1>5 DEF BanProcedure

\* The session table, the database and its administrator.
LEMMA EnvironmentType ==
  ASSUME TypeInv,
         \/ \E i \in IPs, list \in SessionLists : ServerUpdatesSessions(i, list)
         \/ \E i \in IPs : AdminUnbans(i)
         \/ DatabaseFails \/ DatabaseRecovers
  PROVE  TypeInv'
<1>1. CASE \E i \in IPs, list \in SessionLists : ServerUpdatesSessions(i, list)
  BY <1>1 DEF ServerUpdatesSessions, TypeInv, TypeOK, RefsOK, dbVars
<1>2. CASE \E i \in IPs : AdminUnbans(i)
  BY <1>2, ConstantsAssumption DEF AdminUnbans, TypeInv, TypeOK, RefsOK
<1>3. CASE DatabaseFails
  <2>1. outages' \in 0..MaxOutages
    BY <1>3, ConstantsAssumption DEF DatabaseFails, TypeInv, TypeOK
  <2> QED
    BY <1>3, <2>1 DEF DatabaseFails, TypeInv, TypeOK, RefsOK
<1>4. CASE DatabaseRecovers
  BY <1>4 DEF DatabaseRecovers, TypeInv, TypeOK, RefsOK
<1> QED
  BY <1>1, <1>2, <1>3, <1>4

\* Every step keeps the types.
LEMMA StepType == TypeInv /\ [Next]_vars => TypeInv'
<1> SUFFICES ASSUME TypeInv, [Next]_vars
             PROVE  TypeInv'
  OBVIOUS
<1>1. CASE Next
  BY <1>1, HandlerType, AcceptType, BanType, EnvironmentType DEF Next, BanThreads
<1>2. CASE UNCHANGED vars
  BY <1>2 DEF vars, dbVars, TypeInv, TypeOK, RefsOK
<1> QED
  BY <1>1, <1>2

\* Every thread of the proxy stays within the types of its locals, the look-ups of
\* the session list within their limit, and every reference to a bag is to one that
\* exists.
THEOREM TypeCorrect == Spec => [](TypeOK /\ RefsOK)
<1>1. Init => TypeInv
  BY InitType
<1>2. TypeInv /\ [Next]_vars => TypeInv'
  BY StepType
<1> QED
  BY <1>1, <1>2, PTL DEF Spec, TypeInv

-----------------------------------------------------------------------------
(* Keys.  The two invariants of ActiveConnections are proved together.  The   *)
(* outcome a handler has recorded follows its step, so that a connection once *)
(* refused as parallel stays one.                                             *)

OutcomeOK ==
  \A c \in Conns :
    /\ conn[c].pc \in Early \cup {"claim"} => conn[c].outcome = "pending"
    /\ conn[c].pc = "parallel" => conn[c].outcome = "parallel"
    /\ conn[c].pc \in Holding => conn[c].outcome # "parallel"

KeyInv == OutcomeOK /\ NoLeakedKey /\ ExclusiveKey

\* At first no key is held.
LEMMA InitKey == Init => KeyInv
  BY DEF Init, KeyInv, OutcomeOK, NoLeakedKey, ExclusiveKey, Holders, Holding, Unused

\* What the two invariants see of a connection is as it was.
Same(d) ==
  /\ conn'[d].pc = conn[d].pc /\ conn'[d].outcome = conn[d].outcome
  /\ conn'[d].port = conn[d].port /\ conn'[d].ip = conn[d].ip /\ conn'[d].code = conn[d].code

\* A step that neither takes nor frees a key, nor forgets that a connection was
\* refused, keeps the invariants.
LEMMA QuietStep ==
  ASSUME KeyInv, UNCHANGED activeConnections, NEW c \in Conns,
         \A d \in Conns \ {c} : Same(d),
         conn[c].pc \in Holding <=> conn'[c].pc \in Holding,
         conn[c].pc \in Holding \/ conn[c].outcome = "parallel" => Key(c)' = Key(c),
         conn[c].outcome = "parallel" => conn'[c].outcome = "parallel",
         conn'[c].pc \in Early \cup {"claim"} => conn'[c].outcome = "pending",
         conn'[c].pc = "parallel" => conn'[c].outcome = "parallel",
         conn'[c].pc \in Holding => conn'[c].outcome # "parallel"
  PROVE  KeyInv'
<1>1. OutcomeOK'
  BY DEF KeyInv, OutcomeOK, Same
<1>2. \A k : Holders(k)' = Holders(k)
  BY DEF Holders, Key, Same
<1>3. \A k : RefusedParallel(k) => RefusedParallel(k)'
  BY DEF RefusedParallel, Key, Same
<1>4. NoLeakedKey'
  BY <1>2 DEF KeyInv, NoLeakedKey
<1>5. ExclusiveKey'
  BY <1>2, <1>3 DEF KeyInv, ExclusiveKey
<1> QED
  BY <1>1, <1>4, <1>5 DEF KeyInv

\* A holder that leaves frees its key.
LEMMA FreeStep ==
  ASSUME KeyInv, NEW c \in Conns, conn[c].pc \in Holding,
         activeConnections' = activeConnections \ {Key(c)},
         \A d \in Conns \ {c} : Same(d),
         conn'[c].pc = "lookup",
         Key(c)' = Key(c),
         conn'[c].outcome # "parallel"
  PROVE  KeyInv'
<1>0. "lookup" \notin Holding \cup Early \cup {"claim", "parallel"}
  BY DEF Holding, Early
<1>1. OutcomeOK'
  BY <1>0 DEF KeyInv, OutcomeOK, Same
<1>2. \A k : Holders(k)' = Holders(k) \ {c}
  BY <1>0 DEF Holders, Key, Same
<1>3. \A k : k # Key(c) => c \notin Holders(k)
  BY DEF Holders
<1>4. \A k : RefusedParallel(k) => RefusedParallel(k)'
  BY DEF KeyInv, OutcomeOK, RefusedParallel, Key, Same
<1>5. NoLeakedKey'
  BY <1>2, <1>3 DEF KeyInv, NoLeakedKey
<1>6. c \in Holders(Key(c))
  BY DEF Holders
<1>7. ExclusiveKey'
  BY <1>2, <1>3, <1>4, <1>6 DEF KeyInv, ExclusiveKey
<1> QED
  BY <1>1, <1>5, <1>7 DEF KeyInv

\* TryAdd of a free key.
LEMMA ClaimStep ==
  ASSUME KeyInv, TypeInv, NEW c \in Conns, conn[c].pc = "claim",
         Key(c) \notin activeConnections,
         activeConnections' = activeConnections \cup {Key(c)},
         \A d \in Conns \ {c} : Same(d),
         conn'[c].pc \in {"connect", "reject"},
         conn'[c].outcome # "parallel",
         Key(c)' = Key(c)
  PROVE  KeyInv'
<1>0. /\ conn'[c].pc \in Holding /\ conn[c].pc \notin Holding
      /\ conn'[c].pc \notin Early \cup {"claim", "parallel"}
  BY DEF Holding, Early
<1>1. OutcomeOK'
  BY <1>0 DEF KeyInv, OutcomeOK, Same
<1>2. \A k : k # Key(c) => Holders(k)' = Holders(k)
  BY <1>0 DEF Holders, Key, Same
<1>3. Holders(Key(c))' = Holders(Key(c)) \cup {c}
  BY <1>0 DEF Holders, Key, Same
<1>4. \A k : RefusedParallel(k) => RefusedParallel(k)'
  BY DEF KeyInv, OutcomeOK, RefusedParallel, Key, Same
<1>5. NoLeakedKey'
  BY <1>2, <1>3 DEF KeyInv, NoLeakedKey
<1>7. ExclusiveKey'
  BY <1>2, <1>3, <1>4 DEF KeyInv, ExclusiveKey
<1> QED
  BY <1>1, <1>5, <1>7 DEF KeyInv

\* Each step of a handler thread, of its peer and of its periodic check.
LEMMA HandlerKey ==
  ASSUME KeyInv, TypeInv, NEW c \in Conns,
         Handler(c) \/ PeerCloses(c) \/ PeriodicBanCheck(c)
  PROVE  KeyInv'
<1>0. conn \in [Conns -> ConnRecord] /\ conn[c] \in ConnRecord
  BY DEF TypeInv, TypeOK
<1>o. /\ conn[c].pc \in Early \cup {"claim"} => conn[c].outcome = "pending"
      /\ conn[c].pc = "parallel" => conn[c].outcome = "parallel"
      /\ conn[c].pc \in Holding => conn[c].outcome # "parallel"
  BY DEF KeyInv, OutcomeOK
<1>1. CASE FirstBanCheck(c)
  <2>1. CASE Leave(c, "banned")
    BY <1>0, <1>o, <1>1, <2>1, QuietStep
    DEF FirstBanCheck, Leave, Same, Key, ConnRecord, Holding, Early
  <2>2. CASE conn' = [conn EXCEPT ![c].pc = "getOrAdd"]
    BY <1>0, <1>o, <1>1, <2>2, QuietStep
    DEF FirstBanCheck, Leave, Same, Key, ConnRecord, Holding, Early
  <2> QED
    BY <1>1, <2>1, <2>2 DEF FirstBanCheck
<1>2. CASE GetOrAdd(c)
  BY <1>0, <1>o, <1>2, QuietStep DEF GetOrAdd, Same, Key, ConnRecord, Holding, Early
<1>3. CASE Register(c)
  BY <1>0, <1>o, <1>3, QuietStep DEF Register, Same, Key, ConnRecord, Holding, Early
<1>4. CASE ReadAttempts(c)
  BY <1>0, <1>o, <1>4, QuietStep DEF ReadAttempts, Same, Key, ConnRecord, Holding, Early
<1>5. CASE ResetAttempts(c)
  BY <1>0, <1>o, <1>5, QuietStep DEF ResetAttempts, Same, Key, ConnRecord, Holding, Early
<1>6. CASE SecondBanCheck(c)
  <2>1. CASE Leave(c, "banned")
    BY <1>0, <1>o, <1>6, <2>1, QuietStep
    DEF SecondBanCheck, Leave, Same, Key, ConnRecord, Holding, Early
  <2>2. CASE conn' = [conn EXCEPT ![c].pc = "auth"]
    BY <1>0, <1>o, <1>6, <2>2, QuietStep
    DEF SecondBanCheck, Leave, Same, Key, ConnRecord, Holding, Early
  <2> QED
    BY <1>6, <2>1, <2>2 DEF SecondBanCheck
<1>7. CASE Authenticate(c)
  <2>1. /\ UNCHANGED activeConnections /\ \A d \in Conns \ {c} : Same(d)
        /\ conn[c].pc = "auth" /\ conn'[c].pc \in {"claim", "auth"}
        /\ conn'[c].outcome = conn[c].outcome
    BY <1>0, <1>7 DEF Authenticate, Same, ConnRecord
  <2> QED
    BY <1>o, <2>1, QuietStep DEF Holding, Early
<1>8. CASE CountFailure(c)
  <2>1. CASE conn' = [conn EXCEPT ![c].pc = "banning"]
    BY <1>0, <1>o, <1>8, <2>1, QuietStep
    DEF CountFailure, Same, Key, ConnRecord, Holding, Early
  <2>2. CASE conn' = [conn EXCEPT ![c].pc = "done"]
    BY <1>0, <1>o, <1>8, <2>2, QuietStep
    DEF CountFailure, Same, Key, ConnRecord, Holding, Early
  <2> QED
    BY <1>8, <2>1, <2>2 DEF CountFailure
<1>9. CASE BanReturns(c)
  BY <1>0, <1>o, <1>9, QuietStep DEF BanReturns, Same, Key, ConnRecord, Holding, Early
<1>10. CASE ConnectTarget(c)
  BY <1>0, <1>o, <1>10, QuietStep DEF ConnectTarget, Same, Key, ConnRecord, Holding, Early
<1>11. CASE ForwardFails(c)
  BY <1>0, <1>o, <1>11, QuietStep DEF ForwardFails, Same, Key, ConnRecord, Holding, Early
<1>12. CASE PeerCloses(c)
  BY <1>0, <1>o, <1>12, QuietStep DEF PeerCloses, Same, Key, ConnRecord, Holding, Early
<1>13. CASE EndGrace(c)
  BY <1>0, <1>o, <1>13, QuietStep DEF EndGrace, Same, Key, ConnRecord, Holding, Early
<1>14. CASE LookupBag(c)
  <2>1. CASE conn' = [conn EXCEPT ![c] = [@ EXCEPT !.open = FALSE, !.pc = AfterRemoval(c)]]
    BY <1>0, <1>o, <1>14, <2>1, QuietStep
    DEF LookupBag, AfterRemoval, Same, Key, ConnRecord, Holding, Early
  <2>2. CASE conn' = [conn EXCEPT ![c] = [@ EXCEPT !.ref = activeTcpClients[conn[c].ip], !.pc = "copy"]]
    BY <1>0, <1>o, <1>14, <2>2, QuietStep
    DEF LookupBag, AfterRemoval, Same, Key, ConnRecord, Holding, Early
  <2> QED
    BY <1>14, <2>1, <2>2 DEF LookupBag
<1>15. CASE CopyBag(c)
  BY <1>0, <1>o, <1>15, QuietStep DEF CopyBag, Same, Key, ConnRecord, Holding, Early
<1>16. CASE AssignBag(c)
  BY <1>0, <1>o, <1>16, QuietStep DEF AssignBag, AfterRemoval, Same, Key, ConnRecord, Holding, Early
<1>17. CASE PeriodicBanCheck(c)
  BY <1>0, <1>o, <1>17, QuietStep DEF PeriodicBanCheck, Same, Key, ConnRecord, Holding, Early
<1>18. CASE Claim(c)
  <2>1. CASE Key(c) \in activeConnections
    <3>1. /\ conn[c].pc = "claim" /\ UNCHANGED activeConnections
          /\ conn' = [conn EXCEPT ![c] = [@ EXCEPT !.outcome = "parallel", !.pc = "parallel"]]
      BY <1>18, <2>1 DEF Claim
    <3> QED
      BY <1>0, <1>o, <3>1, QuietStep DEF Same, Key, ConnRecord, Holding, Early
  <2>2. CASE Key(c) \notin activeConnections
    <3>1. CASE conn[c].auth
      <4>1. /\ conn[c].pc = "claim"
            /\ activeConnections' = activeConnections \cup {Key(c)}
            /\ conn' = [conn EXCEPT ![c] = [@ EXCEPT !.outcome = "served", !.pc = "connect"]]
        BY <1>18, <2>2, <3>1 DEF Claim, Claimed
      <4>2. /\ \A d \in Conns \ {c} : Same(d)
            /\ conn'[c].pc = "connect" /\ conn'[c].outcome = "served" /\ Key(c)' = Key(c)
        BY <1>0, <4>1 DEF Same, Key, ConnRecord
      <4> QED
        BY <2>2, <4>1, <4>2, ClaimStep
    <3>2. CASE ~conn[c].auth
      <4>1. /\ conn[c].pc = "claim"
            /\ activeConnections' = activeConnections \cup {Key(c)}
            /\ conn' = [conn EXCEPT ![c] = [@ EXCEPT !.outcome = "unauthenticated", !.pc = "reject"]]
        BY <1>18, <2>2, <3>2 DEF Claim, Claimed
      <4>2. /\ \A d \in Conns \ {c} : Same(d)
            /\ conn'[c].pc = "reject" /\ conn'[c].outcome = "unauthenticated" /\ Key(c)' = Key(c)
        BY <1>0, <4>1 DEF Same, Key, ConnRecord
      <4> QED
        BY <2>2, <4>1, <4>2, ClaimStep
    <3> QED
      BY <3>1, <3>2
  <2> QED
    BY <2>1, <2>2
<1>19. CASE RejectUnauthenticated(c)
  BY <1>0, <1>19, FreeStep DEF RejectUnauthenticated, Leave, Same, Key, ConnRecord, Holding
<1>20. CASE Release(c)
  BY <1>0, <1>o, <1>20, FreeStep DEF Release, Same, Key, ConnRecord, Holding
<1>21. CASE RefuseParallel(c)
  <2>1. /\ conn[c].pc = "parallel" /\ conn[c].outcome = "parallel"
        /\ \A d \in Conns \ {c} : Same(d)
        /\ conn'[c].pc = "lookup" /\ conn'[c].outcome = "parallel"
        /\ Key(c)' = Key(c)
        /\ activeConnections' = activeConnections \ {Key(c)}
    BY <1>0, <1>o, <1>21 DEF RefuseParallel, Leave, Same, Key, ConnRecord
  <2>2. {"lookup", "parallel"} \cap Holding = {} /\ "lookup" \notin Early
    BY DEF Holding, Early
  <2>3. OutcomeOK'
    BY <2>1, <2>2 DEF KeyInv, OutcomeOK, Same
  <2>4. \A k : Holders(k)' = Holders(k)
    BY <2>1, <2>2 DEF Holders, Key, Same
  <2>5. /\ \A k : RefusedParallel(k) => RefusedParallel(k)'
        /\ RefusedParallel(Key(c))'
    BY <2>1 DEF RefusedParallel, Key, Same
  <2>6. NoLeakedKey'
    BY <2>1, <2>4 DEF KeyInv, NoLeakedKey
  <2>7. ExclusiveKey'
    BY <2>1, <2>4, <2>5 DEF KeyInv, ExclusiveKey
  <2> QED
    BY <2>3, <2>6, <2>7 DEF KeyInv
<1> QED
  BY <1>1, <1>2, <1>3, <1>4, <1>5, <1>6, <1>7, <1>8, <1>9, <1>10, <1>11, <1>12, <1>13, <1>14,
     <1>15, <1>16, <1>17, <1>18, <1>19, <1>20, <1>21 DEF Handler

\* Every other step.
LEMMA OtherKey ==
  ASSUME KeyInv, UNCHANGED activeConnections, \A d \in Conns : Same(d)
  PROVE  KeyInv'
<1>1. OutcomeOK'
  BY DEF KeyInv, OutcomeOK, Same
<1>2. \A k : Holders(k)' = Holders(k)
  BY DEF Holders, Key, Same
<1>3. \A k : RefusedParallel(k) => RefusedParallel(k)'
  BY DEF RefusedParallel, Key, Same
<1> QED
  BY <1>1, <1>2, <1>3 DEF KeyInv, NoLeakedKey, ExclusiveKey

\* Every step keeps the invariants of the keys.
LEMMA StepKey == KeyInv /\ TypeInv /\ [Next]_vars => KeyInv'
<1> SUFFICES ASSUME KeyInv, TypeInv, [Next]_vars
             PROVE  KeyInv'
  OBVIOUS
<1>0. conn \in [Conns -> ConnRecord]
  BY DEF TypeInv, TypeOK
<1>1. CASE \E c \in Conns : Handler(c) \/ PeerCloses(c) \/ PeriodicBanCheck(c)
  BY <1>1, HandlerKey
<1>2. CASE \E c \in Conns, i \in IPs, p \in Ports : Accept(c, i, p)
  <2>1. PICK c \in Conns, i \in IPs, p \in Ports : Accept(c, i, p)
    BY <1>2
  <2>2. conn[c].pc = "none" /\ conn[c].outcome = "pending" /\ conn[c] \in ConnRecord
    BY <1>0, <2>1 DEF Accept, KeyInv, OutcomeOK, Early
  <2>3. CASE conn' = [conn EXCEPT ![c] =
                        [@ EXCEPT !.ip = i, !.port = p, !.outcome = "banned", !.pc = "done"]]
    BY <1>0, <2>1, <2>2, <2>3, QuietStep DEF Accept, Same, Key, ConnRecord, Holding, Early
  <2>4. CASE conn' = [conn EXCEPT ![c] =
                        [@ EXCEPT !.ip = i, !.port = p, !.open = TRUE, !.pc = "handle"]]
    BY <1>0, <2>1, <2>2, <2>4, QuietStep DEF Accept, Same, Key, ConnRecord, Holding, Early
  <2> QED
    BY <2>1, <2>3, <2>4 DEF Accept
<1>3. CASE \E t \in BanThreads : CloseBag(t)
  <2>1. UNCHANGED activeConnections /\ \A d \in Conns : Same(d)
    BY <1>0, <1>3 DEF CloseBag, Same, ConnRecord
  <2> QED
    BY <2>1, OtherKey
<1>4. CASE UNCHANGED <<conn, activeConnections>>
  BY <1>4, OtherKey DEF Same
<1> QED
  BY <1>1, <1>2, <1>3, <1>4
  DEF Next, vars, BanProcedure, BanStatus, BanUid, TakeBag, ServerBans, ServerUpdatesSessions,
      AdminUnbans, DatabaseFails, DatabaseRecovers

\* No entry of ActiveConnections outlives the connections that hold its key.
THEOREM NoKeyLeaks == Spec => []NoLeakedKey
<1>1. Init => TypeInv /\ KeyInv
  BY InitType, InitKey
<1>2. TypeInv /\ KeyInv /\ [Next]_vars => (TypeInv /\ KeyInv)'
  BY StepType, StepKey
<1>3. KeyInv => NoLeakedKey
  BY DEF KeyInv
<1> QED
  BY <1>1, <1>2, <1>3, PTL DEF Spec

\* Until a parallel connection is refused for it, a key has one holder, and a held
\* key is in ActiveConnections.
THEOREM KeyIsExclusive == Spec => []ExclusiveKey
<1>1. Init => TypeInv /\ KeyInv
  BY InitType, InitKey
<1>2. TypeInv /\ KeyInv /\ [Next]_vars => (TypeInv /\ KeyInv)'
  BY StepType, StepKey
<1>3. KeyInv => ExclusiveKey
  BY DEF KeyInv
<1> QED
  BY <1>1, <1>2, <1>3, PTL DEF Spec

-----------------------------------------------------------------------------
(* Refinement.  A step of the proxy is a step of KeyGuard or leaves its      *)
(* variables alone; the invariants of the keys say which.                    *)

\* What the guard sees of the connections is as it was.
LEMMA GuardUnchanged ==
  ASSUME \A k : Holders(k)' = Holders(k), \A k : RefusedParallel(k)' <=> RefusedParallel(k)
  PROVE  UNCHANGED Guard!vars
  BY DEF Guard!vars

\* A step that neither takes nor frees a key nor is refused one.
LEMMA GuardQuiet ==
  ASSUME NEW c \in Conns,
         \A d \in Conns \ {c} : Same(d),
         conn[c].pc \in Holding <=> conn'[c].pc \in Holding,
         conn[c].pc \in Holding \/ conn[c].outcome = "parallel" => Key(c)' = Key(c),
         conn[c].outcome = "parallel" <=> conn'[c].outcome = "parallel"
  PROVE  UNCHANGED Guard!vars
<1>1. \A k : Holders(k)' = Holders(k)
  BY DEF Holders, Key, Same
<1>2. \A k : RefusedParallel(k)' <=> RefusedParallel(k)
  BY DEF RefusedParallel, Key, Same
<1> QED
  BY <1>1, <1>2, GuardUnchanged

\* A holder that leaves releases its key.
LEMMA GuardFree ==
  ASSUME NEW c \in Conns, conn[c].pc \in Holding, Key(c) \in Keys,
         \A d \in Conns \ {c} : Same(d),
         conn'[c].pc = "lookup",
         Key(c)' = Key(c),
         conn[c].outcome # "parallel", conn'[c].outcome # "parallel"
  PROVE  Guard!Next
<1>1. \A k : Holders(k)' = Holders(k) \ {c}
  BY DEF Holders, Holding, Key, Same
<1>2. \A k : k # Key(c) => c \notin Holders(k)
  BY DEF Holders
<1>3. \A k : RefusedParallel(k)' <=> RefusedParallel(k)
  BY DEF RefusedParallel, Key, Same
<1>4. c \in Holders(Key(c))
  BY DEF Holders
<1>5. Guard!Release(c, Key(c))
  BY <1>1, <1>2, <1>3, <1>4 DEF Guard!Release
<1> QED
  BY <1>4, <1>5 DEF Guard!Next

\* TryAdd of a free key acquires it.
LEMMA GuardClaim ==
  ASSUME KeyInv, NEW c \in Conns, conn[c].pc = "claim", Key(c) \in Keys,
         Key(c) \notin activeConnections,
         \A d \in Conns \ {c} : Same(d),
         conn'[c].pc \in {"connect", "reject"},
         conn'[c].outcome # "parallel",
         Key(c)' = Key(c)
  PROVE  Guard!Next
<1>0. conn'[c].pc \in Holding /\ conn[c].pc \notin Holding /\ conn[c].outcome # "parallel"
  BY DEF Holding, KeyInv, OutcomeOK
<1>1. \A k : k # Key(c) => Holders(k)' = Holders(k)
  BY <1>0 DEF Holders, Key, Same
<1>2. Holders(Key(c))' = Holders(Key(c)) \cup {c}
  BY <1>0 DEF Holders, Key, Same
<1>3. \A k : RefusedParallel(k)' <=> RefusedParallel(k)
  BY <1>0 DEF RefusedParallel, Key, Same
<1>4. \A k : c \notin Holders(k)
  BY <1>0 DEF Holders
<1>5. Holders(Key(c)) = {} \/ RefusedParallel(Key(c))
  BY DEF KeyInv, ExclusiveKey
<1>6. Guard!Acquire(c, Key(c))
  BY <1>1, <1>2, <1>3, <1>4, <1>5 DEF Guard!Acquire
<1> QED
  BY <1>6 DEF Guard!Next

\* A connection whose key is taken is refused: somebody holds that key.
LEMMA GuardRefuse ==
  ASSUME KeyInv, NEW c \in Conns, conn[c].pc = "claim", Key(c) \in Keys,
         Key(c) \in activeConnections,
         \A d \in Conns \ {c} : Same(d),
         conn'[c].pc = "parallel", conn'[c].outcome = "parallel",
         Key(c)' = Key(c)
  PROVE  Guard!Next
<1>0. conn'[c].pc \notin Holding /\ conn[c].pc \notin Holding
  BY DEF Holding
<1>1. \A k : Holders(k)' = Holders(k)
  BY <1>0 DEF Holders, Key, Same
<1>2. \A k : RefusedParallel(k)' <=> RefusedParallel(k) \/ k = Key(c)
  BY DEF RefusedParallel, Key, Same, KeyInv, OutcomeOK
<1>3. Holders(Key(c)) # {}
  BY DEF KeyInv, NoLeakedKey
<1>4. Guard!Refuse(Key(c))
  BY <1>1, <1>2, <1>3 DEF Guard!Refuse
<1> QED
  BY <1>4 DEF Guard!Next

\* Each step of a handler thread, of its peer and of its periodic check.
LEMMA HandlerGuard ==
  ASSUME KeyInv, TypeInv, NEW c \in Conns,
         Handler(c) \/ PeerCloses(c) \/ PeriodicBanCheck(c)
  PROVE  Guard!Next \/ UNCHANGED Guard!vars
<1>0. conn \in [Conns -> ConnRecord] /\ conn[c] \in ConnRecord
  BY DEF TypeInv, TypeOK
<1>o. /\ conn[c].pc \in Early \cup {"claim"} => conn[c].outcome = "pending"
      /\ conn[c].pc = "parallel" => conn[c].outcome = "parallel"
      /\ conn[c].pc \in Holding => conn[c].outcome # "parallel"
  BY DEF KeyInv, OutcomeOK
<1>k. conn[c].pc # "none" => Key(c) \in Keys
  BY <1>0 DEF TypeInv, RefsOK, Key, Keys, ConnRecord
<1>1. CASE FirstBanCheck(c)
  <2>1. CASE Leave(c, "banned")
    BY <1>0, <1>o, <1>1, <2>1, GuardQuiet
    DEF FirstBanCheck, Leave, Same, Key, ConnRecord, Holding, Early
  <2>2. CASE conn' = [conn EXCEPT ![c].pc = "getOrAdd"]
    BY <1>0, <1>o, <1>1, <2>2, GuardQuiet
    DEF FirstBanCheck, Leave, Same, Key, ConnRecord, Holding, Early
  <2> QED
    BY <1>1, <2>1, <2>2 DEF FirstBanCheck
<1>2. CASE GetOrAdd(c)
  BY <1>0, <1>o, <1>2, GuardQuiet DEF GetOrAdd, Same, Key, ConnRecord, Holding, Early
<1>3. CASE Register(c)
  BY <1>0, <1>o, <1>3, GuardQuiet DEF Register, Same, Key, ConnRecord, Holding, Early
<1>4. CASE ReadAttempts(c)
  BY <1>0, <1>o, <1>4, GuardQuiet DEF ReadAttempts, Same, Key, ConnRecord, Holding, Early
<1>5. CASE ResetAttempts(c)
  BY <1>0, <1>o, <1>5, GuardQuiet DEF ResetAttempts, Same, Key, ConnRecord, Holding, Early
<1>6. CASE SecondBanCheck(c)
  <2>1. CASE Leave(c, "banned")
    BY <1>0, <1>o, <1>6, <2>1, GuardQuiet
    DEF SecondBanCheck, Leave, Same, Key, ConnRecord, Holding, Early
  <2>2. CASE conn' = [conn EXCEPT ![c].pc = "auth"]
    BY <1>0, <1>o, <1>6, <2>2, GuardQuiet
    DEF SecondBanCheck, Leave, Same, Key, ConnRecord, Holding, Early
  <2> QED
    BY <1>6, <2>1, <2>2 DEF SecondBanCheck
<1>7. CASE Authenticate(c)
  BY <1>0, <1>o, <1>7, GuardQuiet DEF Authenticate, Same, Key, ConnRecord, Holding, Early
<1>8. CASE CountFailure(c)
  <2>1. CASE conn' = [conn EXCEPT ![c].pc = "banning"]
    BY <1>0, <1>o, <1>8, <2>1, GuardQuiet
    DEF CountFailure, Same, Key, ConnRecord, Holding, Early
  <2>2. CASE conn' = [conn EXCEPT ![c].pc = "done"]
    BY <1>0, <1>o, <1>8, <2>2, GuardQuiet
    DEF CountFailure, Same, Key, ConnRecord, Holding, Early
  <2> QED
    BY <1>8, <2>1, <2>2 DEF CountFailure
<1>9. CASE BanReturns(c)
  BY <1>0, <1>o, <1>9, GuardQuiet DEF BanReturns, Same, Key, ConnRecord, Holding, Early
<1>10. CASE ConnectTarget(c)
  BY <1>0, <1>o, <1>10, GuardQuiet DEF ConnectTarget, Same, Key, ConnRecord, Holding, Early
<1>11. CASE ForwardFails(c)
  BY <1>0, <1>o, <1>11, GuardQuiet DEF ForwardFails, Same, Key, ConnRecord, Holding, Early
<1>12. CASE PeerCloses(c)
  BY <1>0, <1>o, <1>12, GuardQuiet DEF PeerCloses, Same, Key, ConnRecord, Holding, Early
<1>13. CASE EndGrace(c)
  BY <1>0, <1>o, <1>13, GuardQuiet DEF EndGrace, Same, Key, ConnRecord, Holding, Early
<1>14. CASE LookupBag(c)
  <2>1. CASE conn' = [conn EXCEPT ![c] = [@ EXCEPT !.open = FALSE, !.pc = AfterRemoval(c)]]
    BY <1>0, <1>o, <1>14, <2>1, GuardQuiet
    DEF LookupBag, AfterRemoval, Same, Key, ConnRecord, Holding, Early
  <2>2. CASE conn' = [conn EXCEPT ![c] = [@ EXCEPT !.ref = activeTcpClients[conn[c].ip], !.pc = "copy"]]
    BY <1>0, <1>o, <1>14, <2>2, GuardQuiet
    DEF LookupBag, AfterRemoval, Same, Key, ConnRecord, Holding, Early
  <2> QED
    BY <1>14, <2>1, <2>2 DEF LookupBag
<1>15. CASE CopyBag(c)
  BY <1>0, <1>o, <1>15, GuardQuiet DEF CopyBag, Same, Key, ConnRecord, Holding, Early
<1>16. CASE AssignBag(c)
  BY <1>0, <1>o, <1>16, GuardQuiet DEF AssignBag, AfterRemoval, Same, Key, ConnRecord, Holding, Early
<1>17. CASE PeriodicBanCheck(c)
  BY <1>0, <1>o, <1>17, GuardQuiet DEF PeriodicBanCheck, Same, Key, ConnRecord, Holding, Early
<1>18. CASE Claim(c)
  <2>1. CASE Key(c) \in activeConnections
    <3>1. /\ conn[c].pc = "claim"
          /\ conn' = [conn EXCEPT ![c] = [@ EXCEPT !.outcome = "parallel", !.pc = "parallel"]]
      BY <1>18, <2>1 DEF Claim
    <3>2. /\ \A d \in Conns \ {c} : Same(d)
          /\ conn'[c].pc = "parallel" /\ conn'[c].outcome = "parallel" /\ Key(c)' = Key(c)
      BY <1>0, <3>1 DEF Same, Key, ConnRecord
    <3> QED
      BY <1>k, <2>1, <3>1, <3>2, GuardRefuse
  <2>2. CASE Key(c) \notin activeConnections
    <3>1. conn[c].pc = "claim" /\ Claimed(c)
      BY <1>18, <2>2 DEF Claim
    <3>2. /\ \A d \in Conns \ {c} : Same(d)
          /\ conn'[c].pc \in {"connect", "reject"} /\ conn'[c].outcome # "parallel"
          /\ Key(c)' = Key(c)
      BY <1>0, <3>1 DEF Claimed, Same, Key, ConnRecord
    <3> QED
      BY <1>k, <2>2, <3>1, <3>2, GuardClaim
  <2> QED
    BY <2>1, <2>2
<1>19. CASE RejectUnauthenticated(c)
  BY <1>0, <1>o, <1>k, <1>19, GuardFree DEF RejectUnauthenticated, Leave, Same, Key, ConnRecord, Holding
<1>20. CASE Release(c)
  BY <1>0, <1>o, <1>k, <1>20, GuardFree DEF Release, Same, Key, ConnRecord, Holding
<1>21. CASE RefuseParallel(c)
  BY <1>0, <1>o, <1>21, GuardQuiet DEF RefuseParallel, Leave, Same, Key, ConnRecord, Holding
<1> QED
  BY <1>1, <1>2, <1>3, <1>4, <1>5, <1>6, <1>7, <1>8, <1>9, <1>10, <1>11, <1>12, <1>13, <1>14,
     <1>15, <1>16, <1>17, <1>18, <1>19, <1>20, <1>21 DEF Handler

\* A step that changes nothing the guard sees of any connection.
LEMMA OtherGuard ==
  ASSUME \A d \in Conns : Same(d)
  PROVE  UNCHANGED Guard!vars
<1>1. \A k : Holders(k)' = Holders(k)
  BY DEF Holders, Key, Same
<1>2. \A k : RefusedParallel(k)' <=> RefusedParallel(k)
  BY DEF RefusedParallel, Key, Same
<1> QED
  BY <1>1, <1>2, GuardUnchanged

\* The initial states are initial states of the guard.
LEMMA InitGuard == Init => Guard!Init
  BY DEF Init, Guard!Init, Holders, Holding, RefusedParallel, Unused

\* Every step is a step of the guard or leaves its variables alone.
LEMMA StepGuard == KeyInv /\ TypeInv /\ [Next]_vars => [Guard!Next]_(Guard!vars)
<1> SUFFICES ASSUME KeyInv, TypeInv, [Next]_vars
             PROVE  Guard!Next \/ UNCHANGED Guard!vars
  OBVIOUS
<1>0. conn \in [Conns -> ConnRecord]
  BY DEF TypeInv, TypeOK
<1>1. CASE \E c \in Conns : Handler(c) \/ PeerCloses(c) \/ PeriodicBanCheck(c)
  BY <1>1, HandlerGuard
<1>2. CASE \E c \in Conns, i \in IPs, p \in Ports : Accept(c, i, p)
  <2>1. PICK c \in Conns, i \in IPs, p \in Ports : Accept(c, i, p)
    BY <1>2
  <2>2. conn[c].pc = "none" /\ conn[c].outcome = "pending" /\ conn[c] \in ConnRecord
    BY <1>0, <2>1 DEF Accept, KeyInv, OutcomeOK, Early
  <2>3. CASE conn' = [conn EXCEPT ![c] =
                        [@ EXCEPT !.ip = i, !.port = p, !.outcome = "banned", !.pc = "done"]]
    BY <1>0, <2>1, <2>2, <2>3, GuardQuiet DEF Same, Key, ConnRecord, Holding
  <2>4. CASE conn' = [conn EXCEPT ![c] =
                        [@ EXCEPT !.ip = i, !.port = p, !.open = TRUE, !.pc = "handle"]]
    BY <1>0, <2>1, <2>2, <2>4, GuardQuiet DEF Same, Key, ConnRecord, Holding
  <2> QED
    BY <2>1, <2>3, <2>4 DEF Accept
<1>3. CASE \E t \in BanThreads : CloseBag(t)
  <2>1. \A d \in Conns : Same(d)
    BY <1>0, <1>3 DEF CloseBag, Same, ConnRecord
  <2> QED
    BY <2>1, OtherGuard
<1>4. CASE UNCHANGED conn
  BY <1>4, OtherGuard DEF Same
<1> QED
  BY <1>1, <1>2, <1>3, <1>4
  DEF Next, vars, BanProcedure, BanStatus, BanUid, TakeBag, ServerBans, ServerUpdatesSessions,
      AdminUnbans, DatabaseFails, DatabaseRecovers

\* The proxy implements the guard KeyGuard specifies: ActiveConnections grants a key to
\* one connection at a time until it refuses a parallel one, and refuses no free key.
THEOREM ProxyImplementsGuard == Spec => ImplementsGuard
<1>1. Init => TypeInv /\ KeyInv /\ Guard!Init
  BY InitType, InitKey, InitGuard
<1>2. TypeInv /\ KeyInv /\ [Next]_vars => (TypeInv /\ KeyInv)'
  BY StepType, StepKey
<1>3. TypeInv /\ KeyInv /\ [Next]_vars => [Guard!Next]_(Guard!vars)
  BY StepGuard
<1> QED
  BY <1>1, <1>2, <1>3, PTL DEF Spec, ImplementsGuard, Guard!Spec

-----------------------------------------------------------------------------
(* The limit of failed attempts.  LimitBans is not inductive by itself: the  *)
(* attempt that reaches the limit starts a ban, which overwrites no ban in   *)
(* progress because a handler waits for the one it runs.                     *)

\* A handler that runs the ban procedure waits for it to return, and the database
\* answers until its first outage.
WaitsForBan ==
  /\ \A c \in Conns : ban[c].pc # "idle" => conn[c].pc = "banning"
  /\ outages = 0 => dbUp

LimitInv == WaitsForBan /\ LimitBans

\* At first no attempt has failed.
LEMMA InitLimit == Init => LimitInv
  BY ConstantsAssumption DEF Init, LimitInv, WaitsForBan, LimitBans, BanThreads, Idle

\* The steps of a handler, its peer and its periodic check: only CountFailure starts a
\* ban, when the count reaches the limit, and only ResetAttempts lowers a count.
LEMMA HandlerLimit ==
  ASSUME LimitInv, TypeInv, NEW c \in Conns,
         Handler(c) \/ PeerCloses(c) \/ PeriodicBanCheck(c)
  PROVE  LimitInv'
<1>0. conn \in [Conns -> ConnRecord] /\ conn[c] \in ConnRecord
      /\ failedAttempts \in [IPs -> Nat] /\ ban \in [BanThreads -> BanRecord] /\ c \in BanThreads
  BY DEF TypeInv, TypeOK, BanThreads
<1>1. UNCHANGED dbVars /\ \A d \in Conns \ {c} : conn'[d].pc = conn[d].pc
  BY <1>0 DEF Handler, FirstBanCheck, GetOrAdd, Register, ReadAttempts, ResetAttempts, SecondBanCheck,
    Authenticate, Claim, Claimed, RefuseParallel, RejectUnauthenticated, CountFailure, BanReturns,
    ConnectTarget, ForwardFails, EndGrace, Release, LookupBag, CopyBag, AssignBag, PeerCloses,
    PeriodicBanCheck, Leave
<1>2. CASE CountFailure(c)
  <2>1. conn[c].pc = "count" /\ ban[c].pc = "idle" /\ conn[c].ip \in IPs
    BY <1>2 DEF CountFailure, LimitInv, WaitsForBan, TypeInv, RefsOK
  <2>2. CASE /\ failedAttempts'[conn[c].ip] = MaxFailedAttempts
             /\ ban' = [ban EXCEPT ![c] = Started(conn[c].ip, TRUE)]
             /\ conn' = [conn EXCEPT ![c].pc = "banning"]
    <3>1. WaitsForBan'
      BY <1>0, <1>1, <2>2 DEF LimitInv, WaitsForBan, dbVars, BanThreads, ConnRecord
    <3>2. LimitBans'
      BY <1>0, <1>1, <1>2, <2>1, <2>2, ConstantsAssumption
      DEF LimitInv, LimitBans, CountFailure, Started, dbVars, BanThreads
    <3> QED
      BY <3>1, <3>2 DEF LimitInv
  <2>3. CASE /\ failedAttempts'[conn[c].ip] # MaxFailedAttempts
             /\ conn' = [conn EXCEPT ![c].pc = "done"]
             /\ UNCHANGED ban
    <3>1. WaitsForBan'
      BY <1>0, <1>1, <2>1, <2>3 DEF LimitInv, WaitsForBan, dbVars, BanThreads, ConnRecord
    <3>2. LimitBans'
      BY <1>0, <1>1, <1>2, <2>1, <2>3, ConstantsAssumption
      DEF LimitInv, LimitBans, CountFailure, dbVars
    <3> QED
      BY <3>1, <3>2 DEF LimitInv
  <2> QED
    BY <1>2, <2>2, <2>3 DEF CountFailure
<1>3. CASE ResetAttempts(c)
  <2>1. LimitBans'
    BY <1>0, <1>1, <1>3, ConstantsAssumption DEF LimitInv, LimitBans, ResetAttempts, dbVars
  <2>2. WaitsForBan'
    BY <1>0, <1>1, <1>3 DEF LimitInv, WaitsForBan, ResetAttempts, dbVars, ConnRecord
  <2> QED
    BY <2>1, <2>2 DEF LimitInv
<1>4. CASE ~CountFailure(c) /\ ~ResetAttempts(c)
  <2>1. UNCHANGED <<ban, failedAttempts>>
    BY <1>4 DEF Handler, FirstBanCheck, GetOrAdd, Register, ReadAttempts, SecondBanCheck,
      Authenticate, Claim, RefuseParallel, RejectUnauthenticated, BanReturns,
      ConnectTarget, ForwardFails, EndGrace, Release, LookupBag, CopyBag, AssignBag, PeerCloses,
      PeriodicBanCheck
  <2>2. conn[c].pc # "banning" \/ ban[c].pc = "idle" \/ PeriodicBanCheck(c)
    BY <1>4 DEF Handler, FirstBanCheck, GetOrAdd, Register, ReadAttempts, SecondBanCheck,
      Authenticate, Claim, RefuseParallel, RejectUnauthenticated, BanReturns,
      ConnectTarget, ForwardFails, EndGrace, Release, LookupBag, CopyBag, AssignBag, PeerCloses
  <2>3. PeriodicBanCheck(c) => conn'[c].pc = conn[c].pc
    BY <1>0 DEF PeriodicBanCheck, ConnRecord
  <2> QED
    BY <1>1, <2>1, <2>2, <2>3 DEF LimitInv, WaitsForBan, LimitBans, dbVars
<1> QED
  BY <1>2, <1>3, <1>4

\* The other steps: a ban leaves its first step only with the status written, which is
\* what the count at the limit asks for.
LEMMA StepLimit == LimitInv /\ TypeInv /\ [Next]_vars => LimitInv'
<1> SUFFICES ASSUME LimitInv, TypeInv, [Next]_vars
             PROVE  LimitInv'
  OBVIOUS
<1>0. /\ conn \in [Conns -> ConnRecord] /\ ban \in [BanThreads -> BanRecord]
      /\ outages \in Nat /\ unbans \in Nat
  BY ConstantsAssumption DEF TypeInv, TypeOK
<1>1. CASE \E c \in Conns : Handler(c) \/ PeerCloses(c) \/ PeriodicBanCheck(c)
  BY <1>1, HandlerLimit
<1>2. CASE \E c \in Conns, i \in IPs, p \in Ports : Accept(c, i, p)
  BY <1>0, <1>2 DEF Accept, LimitInv, WaitsForBan, LimitBans, dbVars
<1>3. CASE \E t \in BanThreads : BanStatus(t)
  BY <1>0, <1>3 DEF BanStatus, LimitInv, WaitsForBan, LimitBans, BanThreads, BanRecord
<1>4. CASE \E t \in BanThreads : BanUid(t)
  BY <1>0, <1>4 DEF BanUid, LimitInv, WaitsForBan, LimitBans, BanThreads, BanRecord, Idle
<1>5. CASE \E t \in BanThreads : TakeBag(t)
  BY <1>0, <1>5 DEF TakeBag, CloseReturns, LimitInv, WaitsForBan, LimitBans, BanThreads, BanRecord, Idle, dbVars
<1>6. CASE \E t \in BanThreads : CloseBag(t)
  BY <1>0, <1>6 DEF CloseBag, CloseReturns, LimitInv, WaitsForBan, LimitBans, BanThreads, BanRecord,
    Idle, dbVars, ConnRecord
<1>7. CASE \E t \in ServerThreads, i \in IPs, full \in BOOLEAN : ServerBans(t, i, full)
  BY <1>0, <1>7, ThreadsAssumption DEF ServerBans, Started, LimitInv, WaitsForBan, LimitBans, BanThreads, dbVars
<1>8. CASE \E i \in IPs, list \in SessionLists : ServerUpdatesSessions(i, list)
  BY <1>8 DEF ServerUpdatesSessions, LimitInv, WaitsForBan, LimitBans, dbVars
<1>9. CASE (\E i \in IPs : AdminUnbans(i)) \/ DatabaseFails \/ DatabaseRecovers
  BY <1>0, <1>9 DEF AdminUnbans, DatabaseFails, DatabaseRecovers, LimitInv, WaitsForBan, LimitBans
<1>10. CASE UNCHANGED vars
  BY <1>10 DEF vars, LimitInv, WaitsForBan, LimitBans, dbVars
<1> QED
  BY <1>1, <1>2, <1>3, <1>4, <1>5, <1>6, <1>7, <1>8, <1>9, <1>10 DEF Next, BanProcedure

\* Reaching the limit of failed attempts bans, whatever resets and increments run beside
\* it: an IP at the limit is banned or its ban is being written.
THEOREM LimitIsBanned == Spec => []LimitBans
<1>1. Init => TypeInv /\ LimitInv
  BY InitType, InitLimit
<1>2. TypeInv /\ LimitInv /\ [Next]_vars => (TypeInv /\ LimitInv)'
  BY StepType, StepLimit
<1>3. LimitInv => LimitBans
  BY DEF LimitInv
<1> QED
  BY <1>1, <1>2, <1>3, PTL DEF Spec

-----------------------------------------------------------------------------
(* The disconnection of a banned IP.  The invariant follows a connection from *)
(* its registration on: it is in the bag the table has for its IP, or in one  *)
(* a ban is about to close, or RemoveClientFromBag lost it, or the ban of its *)
(* IP is already written and the check after the registration will see it.    *)

Arriving == {"none", "handle", "getOrAdd"}
Checking == {"attempts", "reset", "banCheck"}

Erased(c) == \E d \in Conns : ErasedBy(c, d)
InTable(c) ==
  /\ activeTcpClients[conn[c].ip] # NoBag
  /\ c \in bag[activeTcpClients[conn[c].ip]]
Closing(t, c) == ban[t].pc = "close" /\ ban[t].ip = conn[c].ip /\ c \in bag[ban[t].ref]
Lost(c) == (\E t \in BanThreads : Closing(t, c)) \/ Erased(c)
\* A ban of the IP has yet to take the bag out of the table.
Sweeping(i) == \E t \in BanThreads : ban[t].pc \in {"uid", "take"} /\ ban[t].pass = 1 /\ ban[t].ip = i
\* The ban of the IP is written, as far as its accounts allow.
Written(i) == i \in banned \/ i \notin AccountIPs

\* A bag object exists from the step of its creation on, and holds registered clients.
BagsInv ==
  /\ \A c \in Conns : conn[c].pc \in Arriving => bag[RegisteredBag(c)] = NoBag
  /\ \A c \in Conns : conn[c].pc \notin {"assign", "count", "banning", "done"} => bag[RebuiltBag(c)] = NoBag
  /\ \A t \in BanThreads : ban[t].pc = "close" => ban[t].ref \in BagIds /\ bag[ban[t].ref] # NoBag
  /\ \A b \in BagIds : bag[b] # NoBag => \A c \in bag[b] : conn[c].pc \notin Arriving \cup {"add"}

\* A ban that takes and closes bags has written the status first.
WrittenInv == \A t \in BanThreads : ban[t].pc \in {"uid", "take", "close"} => Written(ban[t].ip)

\* The bag a registering connection will be added to is in the table.
AddReach(c) ==
  \/ activeTcpClients[conn[c].ip] = conn[c].ref
  \/ \E d \in Conns : RebuiltBag(d) # conn[c].ref /\ ErasedBy(c, d)
  \/ Written(conn[c].ip)

ReachInv(c) ==
  /\ conn[c].pc = "add" => AddReach(c)
  /\ conn[c].pc \in Checking => InTable(c) \/ Lost(c) \/ Written(conn[c].ip)
  /\ conn[c].pc \in Admitted /\ conn[c].open => InTable(c) \/ Lost(c) \/ conn[c].ip \notin AccountIPs
  /\ conn[c].pc \in Admitted /\ conn[c].open /\ conn[c].ip \in banned => Lost(c) \/ Sweeping(conn[c].ip)

\* As long as the database answers and nobody is unbanned.
BanInv ==
  /\ BagsInv
  /\ outages = 0 /\ unbans = 0 => WrittenInv /\ \A c \in Conns : ReachInv(c)

\* Two handlers rebuild two bags, none of them one a handler registered.
LEMMA BagsApart ==
  \A c, d \in Conns :
     /\ RebuiltBag(c) # RegisteredBag(d)
     /\ RebuiltBag(c) = RebuiltBag(d) => c = d
     /\ RegisteredBag(c) = RegisteredBag(d) => c = d
  BY DEF RebuiltBag, RegisteredBag

\* At first there is no bag and no ban.
LEMMA InitBan == Init => BanInv
  BY BagFacts DEF Init, BanInv, BagsInv, WrittenInv, ReachInv, Unused, Idle, BanThreads, Arriving, Checking,
    Admitted, Holding

\* A connection whose handler takes no step, whatever another thread does to the bags:
\* none of the places that reach it is given up without closing it.
LEMMA OtherReach ==
  ASSUME banned \subseteq AccountIPs, NEW d \in Conns, ReachInv(d),
         conn'[d].pc = conn[d].pc, conn'[d].ip = conn[d].ip, conn'[d].open => conn[d].open,
         banned \subseteq banned',
         conn[d].ip \in banned' => conn[d].ip \in banned \/ Sweeping(conn[d].ip)',
         conn[d].pc = "add" /\ AddReach(d) => AddReach(d)',
         InTable(d) => InTable(d)' \/ Lost(d)',
         Lost(d) => Lost(d)' \/ (~conn'[d].open /\ Written(conn[d].ip)),
         Sweeping(conn[d].ip) /\ (InTable(d) \/ Lost(d))
            => Sweeping(conn[d].ip)' \/ Lost(d)' \/ ~conn'[d].open
  PROVE  ReachInv(d)'
  BY DEF ReachInv, Written

\* A step that leaves bags and bans alone, except that a ban may start.
BansRest ==
  /\ UNCHANGED <<activeTcpClients, bag, dbVars>>
  /\ \A t \in BanThreads : ban'[t] = ban[t] \/ (ban[t].pc = "idle" /\ ban'[t].pc = "status")

\* Then every connection whose locals stay is reached as before.
LEMMA RestReach ==
  ASSUME BanInv, TypeInv, BansRest, NEW d \in Conns, ReachInv(d),
         conn'[d].pc = conn[d].pc, conn'[d].ip = conn[d].ip, conn'[d].ref = conn[d].ref,
         conn'[d].open => conn[d].open,
         \A e \in Conns : conn'[e].ip = conn[e].ip \/ bag[RebuiltBag(e)] = NoBag
  PROVE  ReachInv(d)'
<1>1. \A e \in Conns : ErasedBy(d, e) => ErasedBy(d, e)'
  BY DEF BansRest, ErasedBy
<1>2. Erased(d) => Erased(d)'
  BY <1>1 DEF Erased
<1>3. \A t \in BanThreads : Closing(t, d) => Closing(t, d)'
  BY DEF BansRest, Closing
<1>4. Lost(d) => Lost(d)'
  BY <1>2, <1>3 DEF Lost
<1>5. Sweeping(conn[d].ip) => Sweeping(conn[d].ip)'
  BY DEF Sweeping, BansRest
<1>6. InTable(d) => InTable(d)'
  BY DEF InTable, BansRest
<1>7. AddReach(d) => AddReach(d)'
  BY <1>1 DEF AddReach, Written, BansRest, dbVars
<1>8. banned \subseteq AccountIPs /\ UNCHANGED banned
  BY DEF TypeInv, TypeOK, BansRest, dbVars
<1> QED
  BY <1>4, <1>5, <1>6, <1>7, <1>8, OtherReach

Gone == {"assign", "count", "banning", "done"}

\* A handler goes on or leaves without touching a bag; only the ban check admits it.
LEMMA QuietBan ==
  ASSUME BanInv, TypeInv, WaitsForBan, BansRest, NEW c \in Conns,
         \A d \in Conns \ {c} : conn'[d] = conn[d],
         conn'[c].ip = conn[c].ip \/ (conn[c].pc = "none" /\ conn'[c].pc \in {"handle", "done"}),
         conn'[c].pc \in Arriving => conn[c].pc \in Arriving,
         conn'[c].pc # "add",
         conn'[c].pc \in Checking => conn[c].pc \in Checking,
         conn'[c].pc \notin Gone => conn[c].pc \notin Gone,
         conn'[c].pc \in Admitted /\ conn'[c].open =>
            \/ conn[c].pc \in Admitted /\ conn[c].open
            \/ conn[c].pc \in Checking /\ ~IsIpBanned(conn[c].ip)
  PROVE  BanInv'
<1>0. conn \in [Conns -> ConnRecord] /\ bag \in [BagIds -> {NoBag} \cup SUBSET Conns] /\ banned \subseteq AccountIPs
  BY DEF TypeInv, TypeOK
<1>1. BagsInv'
  BY <1>0 DEF BanInv, BagsInv, BansRest, Arriving, Gone
<1>2. ASSUME outages = 0, unbans = 0
      PROVE  WrittenInv' /\ \A d \in Conns : ReachInv(d)'
  <2>1. WrittenInv /\ (\A d \in Conns : ReachInv(d)) /\ dbUp
    BY <1>2 DEF BanInv, WaitsForBan
  <2>2. WrittenInv'
    BY <2>1 DEF WrittenInv, BansRest, Written, dbVars
  <2>3. \A e \in Conns : conn'[e].ip = conn[e].ip \/ bag[RebuiltBag(e)] = NoBag
    BY <1>0 DEF BanInv, BagsInv
  <2>4. \A d \in Conns \ {c} : ReachInv(d)'
    BY <1>0, <2>1, <2>3, RestReach
  <2>5. ReachInv(c)'
    <3>1. CASE conn'[c].ip # conn[c].ip
      BY <1>0, <3>1 DEF ReachInv, Checking, Admitted, Holding
    <3>2. CASE conn'[c].ip = conn[c].ip
      <4>1. InTable(c) => InTable(c)'
        BY <1>0, <3>2 DEF InTable, BansRest
      <4>2. \A e \in Conns : ErasedBy(c, e) => ErasedBy(c, e)'
        BY <1>0, <2>3, <3>2 DEF BansRest, ErasedBy
      <4>3. \A t \in BanThreads : Closing(t, c) => Closing(t, c)'
        BY <1>0, <3>2 DEF BansRest, Closing
      <4>4. Lost(c) => Lost(c)'
        BY <4>2, <4>3 DEF Lost, Erased
      <4>5. Sweeping(conn[c].ip) => Sweeping(conn[c].ip)'
        BY <1>0, <3>2 DEF Sweeping, BansRest
      <4>6. UNCHANGED banned
        BY DEF BansRest, dbVars
      <4>7. ReachInv(c)
        BY <2>1
      <4>9. conn'[c].pc \in Admitted /\ conn'[c].open => InTable(c) \/ Lost(c) \/ conn[c].ip \notin AccountIPs
        BY <2>1, <4>7 DEF ReachInv, Written, IsIpBanned
      <4>10. conn'[c].pc \in Admitted /\ conn'[c].open /\ conn[c].ip \in banned => Lost(c) \/ Sweeping(conn[c].ip)
        BY <2>1, <4>7 DEF ReachInv, IsIpBanned
      <4>11. conn'[c].pc \in Checking => InTable(c) \/ Lost(c) \/ Written(conn[c].ip)
        BY <4>7 DEF ReachInv
      <4> QED
        BY <3>2, <4>1, <4>4, <4>5, <4>6, <4>9, <4>10, <4>11 DEF ReachInv, Written
    <3> QED
      BY <3>1, <3>2
  <2> QED
    BY <2>2, <2>4, <2>5, <1>0
<1> QED
  BY <1>1, <1>2 DEF BanInv, BansRest, dbVars

\* No handler goes on: a client may be closed, a ban may start.
LEMMA RestBan ==
  ASSUME BanInv, TypeInv, BansRest,
         \A d \in Conns : /\ conn'[d].pc = conn[d].pc /\ conn'[d].ip = conn[d].ip
                          /\ conn'[d].ref = conn[d].ref /\ (conn'[d].open => conn[d].open)
  PROVE  BanInv'
<1>1. BagsInv'
  <2>1. bag \in [BagIds -> {NoBag} \cup SUBSET Conns]
    BY DEF TypeInv, TypeOK
  <2> QED
    BY <2>1 DEF BanInv, BagsInv, BansRest, Arriving
<1>2. ASSUME outages = 0, unbans = 0
      PROVE  WrittenInv' /\ \A d \in Conns : ReachInv(d)'
  <2>1. WrittenInv /\ \A d \in Conns : ReachInv(d)
    BY <1>2 DEF BanInv
  <2>2. WrittenInv'
    BY <2>1 DEF WrittenInv, BansRest, Written, dbVars
  <2> QED
    BY <2>1, <2>2, RestReach
<1> QED
  BY <1>1, <1>2 DEF BanInv, BansRest, dbVars

\* The steps of a handler between two accesses to a bag.
LEMMA HandlerRestBan ==
  ASSUME BanInv, TypeInv, WaitsForBan, NEW c \in Conns,
         Handler(c) \/ PeerCloses(c) \/ PeriodicBanCheck(c),
         ~GetOrAdd(c), ~Register(c), ~CopyBag(c), ~AssignBag(c)
  PROVE  BanInv'
<1>0. conn \in [Conns -> ConnRecord] /\ conn[c] \in ConnRecord /\ ban \in [BanThreads -> BanRecord]
      /\ c \in BanThreads
  BY DEF TypeInv, TypeOK, BanThreads
<1> USE DEF ConnRecord, Arriving, Checking, Gone, Admitted, Holding, BansRest
<1>1. CASE FirstBanCheck(c)
  <2>1. CASE Leave(c, "banned")
    BY <1>0, <1>1, <2>1, QuietBan DEF FirstBanCheck, Leave
  <2>2. CASE conn' = [conn EXCEPT ![c].pc = "getOrAdd"]
    BY <1>0, <1>1, <2>2, QuietBan DEF FirstBanCheck
  <2> QED
    BY <1>1, <2>1, <2>2 DEF FirstBanCheck
<1>2. CASE ReadAttempts(c)
  BY <1>0, <1>2, QuietBan DEF ReadAttempts
<1>3. CASE ResetAttempts(c)
  BY <1>0, <1>3, QuietBan DEF ResetAttempts
<1>4. CASE SecondBanCheck(c)
  <2>1. CASE Leave(c, "banned")
    BY <1>0, <1>4, <2>1, QuietBan DEF SecondBanCheck, Leave
  <2>2. CASE ~IsIpBanned(conn[c].ip) /\ conn' = [conn EXCEPT ![c].pc = "auth"]
    BY <1>0, <1>4, <2>2, QuietBan DEF SecondBanCheck
  <2> QED
    BY <1>4, <2>1, <2>2 DEF SecondBanCheck
<1>5. CASE Authenticate(c)
  BY <1>0, <1>5, QuietBan DEF Authenticate
<1>6. CASE Claim(c)
  <2>1. conn[c].pc = "claim" /\ UNCHANGED <<ban, activeTcpClients, bag, dbVars>>
    BY <1>6 DEF Claim
  <2>2. PICK o \in Outcomes, p \in {"parallel", "connect", "reject"} :
          conn' = [conn EXCEPT ![c] = [@ EXCEPT !.outcome = o, !.pc = p]]
    BY <1>6, PcFacts DEF Claim, Claimed
  <2> QED
    BY <1>0, <2>1, <2>2, QuietBan
<1>7. CASE RefuseParallel(c)
  BY <1>0, <1>7, QuietBan DEF RefuseParallel, Leave
<1>8. CASE RejectUnauthenticated(c)
  BY <1>0, <1>8, QuietBan DEF RejectUnauthenticated, Leave
<1>9. CASE CountFailure(c)
  <2>1. conn[c].pc = "count" /\ ban[c].pc = "idle" /\ UNCHANGED <<activeTcpClients, bag, dbVars>>
    BY <1>9 DEF CountFailure, WaitsForBan
  <2>2. CASE /\ ban' = [ban EXCEPT ![c] = Started(conn[c].ip, TRUE)]
             /\ conn' = [conn EXCEPT ![c].pc = "banning"]
    BY <1>0, <2>1, <2>2, QuietBan DEF Started, BanThreads
  <2>3. CASE UNCHANGED ban /\ conn' = [conn EXCEPT ![c].pc = "done"]
    BY <1>0, <2>1, <2>3, QuietBan
  <2> QED
    BY <1>9, <2>2, <2>3 DEF CountFailure
<1>10. CASE BanReturns(c)
  BY <1>0, <1>10, QuietBan DEF BanReturns
<1>11. CASE ConnectTarget(c)
  BY <1>0, <1>11, QuietBan DEF ConnectTarget
<1>12. CASE ForwardFails(c) \/ PeerCloses(c)
  BY <1>0, <1>12, QuietBan DEF ForwardFails, PeerCloses
<1>13. CASE EndGrace(c)
  BY <1>0, <1>13, QuietBan DEF EndGrace
<1>14. CASE Release(c)
  BY <1>0, <1>14, QuietBan DEF Release
<1>15. CASE LookupBag(c)
  <2>1. CASE conn' = [conn EXCEPT ![c] = [@ EXCEPT !.open = FALSE, !.pc = AfterRemoval(c)]]
    BY <1>0, <1>15, <2>1, QuietBan DEF LookupBag, AfterRemoval
  <2>2. CASE conn' = [conn EXCEPT ![c] = [@ EXCEPT !.ref = activeTcpClients[conn[c].ip], !.pc = "copy"]]
    BY <1>0, <1>15, <2>2, QuietBan DEF LookupBag
  <2> QED
    BY <1>15, <2>1, <2>2 DEF LookupBag
<1>16. CASE PeriodicBanCheck(c)
  BY <1>0, <1>16, RestBan DEF PeriodicBanCheck
<1> QED
  BY <1>1, <1>2, <1>3, <1>4, <1>5, <1>6, <1>7, <1>8, <1>9, <1>10, <1>11, <1>12, <1>13, <1>14,
     <1>15, <1>16 DEF Handler

\* A step that creates or fills a bag, and puts none in the place of another: a
\* connection it does not add is reached as before.
LEMMA GrowReach ==
  ASSUME BagsInv, TypeInv, NEW d \in Conns, ReachInv(d),
         conn'[d] = conn[d], \A e \in Conns : conn'[e].ip = conn[e].ip,
         UNCHANGED <<ban, dbVars>>,
         \A b \in BagIds : bag[b] # NoBag => bag'[b] # NoBag /\ bag[b] \subseteq bag'[b],
         \A e \in Conns : /\ bag[RebuiltBag(e)] # NoBag
                          /\ d \notin bag[RebuiltBag(e)]
                          => d \notin bag'[RebuiltBag(e)],
         \A i \in IPs : activeTcpClients[i] # NoBag => activeTcpClients'[i] = activeTcpClients[i]
  PROVE  ReachInv(d)'
<1>1. \A e \in Conns : ErasedBy(d, e) => ErasedBy(d, e)'
  BY BagFacts DEF ErasedBy
<1>2. \A t \in BanThreads : Closing(t, d) => Closing(t, d)'
  BY DEF Closing, BagsInv
<1>3. Lost(d) => Lost(d)'
  BY <1>1, <1>2 DEF Lost, Erased
<1>4. CASE conn[d].pc = "none"
  BY <1>4 DEF ReachInv, Checking, Admitted, Holding
<1>5. CASE conn[d].pc # "none"
  <2>1. conn[d].ip \in IPs
    BY <1>5 DEF TypeInv, RefsOK
  <2>2. InTable(d) => InTable(d)'
    BY <2>1 DEF InTable, TypeInv, TypeOK, RefsOK
  <2>3. Sweeping(conn[d].ip) => Sweeping(conn[d].ip)'
    BY DEF Sweeping
  <2>4. conn[d].pc = "add" /\ AddReach(d) => AddReach(d)'
    BY <1>1, <2>1, BagFacts DEF AddReach, Written, TypeInv, RefsOK, dbVars
  <2>5. banned \subseteq AccountIPs /\ UNCHANGED banned
    BY DEF TypeInv, TypeOK, dbVars
  <2> QED
    BY <1>3, <2>2, <2>3, <2>4, <2>5, OtherReach
<1> QED
  BY <1>4, <1>5

\* GetOrAdd: the bag it returns is the one in the table.
LEMMA GetOrAddBan ==
  ASSUME BanInv, TypeInv, NEW c \in Conns, GetOrAdd(c)
  PROVE  BanInv'
<1>0. /\ conn \in [Conns -> ConnRecord] /\ bag \in [BagIds -> {NoBag} \cup SUBSET Conns]
      /\ activeTcpClients \in [IPs -> BagIds \cup {NoBag}]
      /\ conn[c].ip \in IPs /\ conn[c].pc = "getOrAdd" /\ bag[RegisteredBag(c)] = NoBag
  BY DEF TypeInv, TypeOK, RefsOK, GetOrAdd, BanInv, BagsInv, Arriving
<1>1. UNCHANGED <<ban, dbVars>> /\ \A d \in Conns \ {c} : conn'[d] = conn[d]
  BY <1>0 DEF GetOrAdd
<1>2. /\ conn'[c].pc = "add" /\ conn'[c].ip = conn[c].ip
      /\ conn'[c].ref = activeTcpClients'[conn[c].ip]
  BY <1>0 DEF GetOrAdd, ConnRecord
<1>3. \A i \in IPs : activeTcpClients[i] # NoBag => activeTcpClients'[i] = activeTcpClients[i]
  BY <1>0 DEF GetOrAdd
<1>4. bag' = bag \/ bag' = [bag EXCEPT ![RegisteredBag(c)] = {}]
  BY DEF GetOrAdd
<1>5. \A b \in BagIds : b # RegisteredBag(c) => bag'[b] = bag[b]
  BY <1>0, <1>4
<1>6. BagsInv'
  <2>1. \A b \in BagIds : bag'[b] = bag[b] \/ (b = RegisteredBag(c) /\ bag'[b] = {})
    BY <1>0, <1>4
  <2>2. BagsInv
    BY DEF BanInv
  <2>3. \A d \in Conns : bag'[RebuiltBag(d)] = bag[RebuiltBag(d)]
    BY <1>5, BagFacts, BagsApart
  <2>4. \A d \in Conns : d # c => bag'[RegisteredBag(d)] = bag[RegisteredBag(d)]
    BY <1>5, BagFacts, BagsApart
  <2> QED
    BY <1>0, <1>1, <1>2, <2>1, <2>2, <2>3, <2>4, BagFacts DEF BagsInv, Arriving
<1>7. ASSUME outages = 0, unbans = 0
      PROVE  WrittenInv' /\ \A d \in Conns : ReachInv(d)'
  <2>1. WrittenInv /\ BagsInv /\ \A d \in Conns : ReachInv(d)
    BY <1>7 DEF BanInv
  <2>2. WrittenInv'
    BY <1>1, <2>1 DEF WrittenInv, Written, dbVars
  <2>3. ReachInv(c)'
    BY <1>2 DEF ReachInv, AddReach, Checking, Admitted, Holding
  <2>4. \A d \in Conns \ {c} : ReachInv(d)'
    <3>1. \A b \in BagIds : bag[b] # NoBag => bag'[b] = bag[b]
      BY <1>0, <1>5
    <3> QED
      BY <1>1, <1>2, <1>3, <2>1, <3>1, BagFacts, GrowReach
  <2> QED
    BY <2>2, <2>3, <2>4
<1> QED
  BY <1>1, <1>6, <1>7 DEF BanInv, dbVars

\* Register: the client is in the bag it holds, which is in the table, was taken out of
\* it by a ban already written, or was replaced by a bag without the client.
LEMMA RegisterBan ==
  ASSUME BanInv, TypeInv, NEW c \in Conns, Register(c)
  PROVE  BanInv'
<1>0. /\ conn \in [Conns -> ConnRecord] /\ bag \in [BagIds -> {NoBag} \cup SUBSET Conns]
      /\ conn[c].ref \in BagIds /\ bag[conn[c].ref] # NoBag /\ bag[conn[c].ref] \subseteq Conns
      /\ conn[c].ip \in IPs /\ conn[c].pc = "add"
  BY DEF TypeInv, TypeOK, RefsOK, Register
<1>1. UNCHANGED <<ban, activeTcpClients, dbVars>> /\ \A d \in Conns \ {c} : conn'[d] = conn[d]
  BY <1>0 DEF Register
<1>2. conn'[c].pc = "attempts" /\ conn'[c].ip = conn[c].ip
  BY <1>0 DEF Register, ConnRecord
<1>3. /\ bag'[conn[c].ref] = bag[conn[c].ref] \cup {c}
      /\ \A b \in BagIds : b # conn[c].ref => bag'[b] = bag[b]
  BY <1>0 DEF Register
<1>4. BagsInv
  BY DEF BanInv
<1>5. bag'[conn[c].ref] # NoBag
  BY <1>0, <1>3, BagFacts
<1>6. BagsInv'
  BY <1>0, <1>1, <1>2, <1>3, <1>4, <1>5, BagFacts DEF BagsInv, Arriving
<1>7. ASSUME outages = 0, unbans = 0
      PROVE  WrittenInv' /\ \A d \in Conns : ReachInv(d)'
  <2>1. WrittenInv /\ \A d \in Conns : ReachInv(d)
    BY <1>7 DEF BanInv
  <2>2. WrittenInv'
    BY <1>1, <2>1 DEF WrittenInv, Written, dbVars
  <2>3. ReachInv(c)'
    <3>1. AddReach(c)
      BY <1>0, <2>1 DEF ReachInv
    <3>2. CASE activeTcpClients[conn[c].ip] = conn[c].ref
      BY <1>0, <1>1, <1>2, <1>3, <3>2, BagFacts DEF ReachInv, InTable, Checking, Admitted, Holding
    <3>3. CASE \E d \in Conns : RebuiltBag(d) # conn[c].ref /\ ErasedBy(c, d)
      <4>1. PICK d \in Conns : RebuiltBag(d) # conn[c].ref /\ ErasedBy(c, d)
        BY <3>3
      <4>2. ErasedBy(c, d)'
        BY <1>1, <1>2, <1>3, <4>1, BagFacts DEF ErasedBy
      <4> QED
        BY <1>2, <4>2 DEF ReachInv, Lost, Erased, Checking, Admitted, Holding
    <3>4. CASE Written(conn[c].ip)
      BY <1>1, <1>2, <3>4 DEF ReachInv, Written, dbVars, Checking, Admitted, Holding
    <3> QED
      BY <3>1, <3>2, <3>3, <3>4 DEF AddReach
  <2>4. \A d \in Conns \ {c} : ReachInv(d)'
    <3>1. \A b \in BagIds : bag[b] # NoBag => bag'[b] # NoBag /\ bag[b] \subseteq bag'[b]
      BY <1>0, <1>3, <1>5
    <3>2. \A d \in Conns \ {c}, b \in BagIds : d \notin bag[b] => d \notin bag'[b]
      BY <1>3
    <3> QED
      BY <1>1, <1>2, <1>4, <2>1, <3>1, <3>2, BagFacts, GrowReach
  <2> QED
    BY <2>2, <2>3, <2>4
<1> QED
  BY <1>1, <1>6, <1>7 DEF BanInv, dbVars

\* CopyBag: the copy is not in the table yet.
LEMMA CopyBagBan ==
  ASSUME BanInv, TypeInv, NEW c \in Conns, CopyBag(c)
  PROVE  BanInv'
<1>0. /\ conn \in [Conns -> ConnRecord] /\ bag \in [BagIds -> {NoBag} \cup SUBSET Conns]
      /\ conn[c].ref \in BagIds /\ bag[conn[c].ref] # NoBag /\ bag[conn[c].ref] \subseteq Conns
      /\ conn[c].pc = "copy" /\ bag[RebuiltBag(c)] = NoBag
  BY DEF TypeInv, TypeOK, RefsOK, CopyBag, BanInv, BagsInv
<1>1. UNCHANGED <<ban, activeTcpClients, dbVars>> /\ \A d \in Conns \ {c} : conn'[d] = conn[d]
  BY <1>0 DEF CopyBag
<1>2. conn'[c].pc = "assign" /\ conn'[c].ip = conn[c].ip
  BY <1>0 DEF CopyBag, ConnRecord
<1>3. /\ bag'[RebuiltBag(c)] = bag[conn[c].ref] \ {c}
      /\ \A b \in BagIds : b # RebuiltBag(c) => bag'[b] = bag[b]
  BY <1>0, BagFacts DEF CopyBag
<1>4. BagsInv
  BY DEF BanInv
<1>5. BagsInv'
  <2>1. \A d \in Conns : bag'[RegisteredBag(d)] = bag[RegisteredBag(d)]
    BY <1>3, BagFacts, BagsApart
  <2>2. \A d \in Conns : d # c => bag'[RebuiltBag(d)] = bag[RebuiltBag(d)]
    BY <1>3, BagFacts, BagsApart
  <2> QED
    BY <1>0, <1>1, <1>2, <1>3, <1>4, <2>1, <2>2, BagFacts DEF BagsInv, Arriving
<1>6. ASSUME outages = 0, unbans = 0
      PROVE  WrittenInv' /\ \A d \in Conns : ReachInv(d)'
  <2>1. WrittenInv /\ \A d \in Conns : ReachInv(d)
    BY <1>6 DEF BanInv
  <2>2. WrittenInv'
    BY <1>1, <2>1 DEF WrittenInv, Written, dbVars
  <2>3. ReachInv(c)'
    BY <1>2 DEF ReachInv, Checking, Admitted, Holding
  <2>4. \A d \in Conns \ {c} : ReachInv(d)'
    <3>1. \A b \in BagIds : bag[b] # NoBag => bag'[b] = bag[b]
      BY <1>0, <1>3
    <3> QED
      BY <1>1, <1>2, <1>4, <2>1, <3>1, BagFacts, GrowReach
  <2> QED
    BY <2>2, <2>3, <2>4
<1> QED
  BY <1>1, <1>5, <1>6 DEF BanInv, dbVars

\* AssignBag: a connection the copy does not have is lost by it.
LEMMA AssignBagBan ==
  ASSUME BanInv, TypeInv, NEW c \in Conns, AssignBag(c)
  PROVE  BanInv'
<1>0. /\ conn \in [Conns -> ConnRecord] /\ bag \in [BagIds -> {NoBag} \cup SUBSET Conns]
      /\ activeTcpClients \in [IPs -> BagIds \cup {NoBag}]
      /\ conn[c].ip \in IPs /\ conn[c].pc = "assign" /\ bag[RebuiltBag(c)] # NoBag
  BY DEF TypeInv, TypeOK, RefsOK, AssignBag
<1>1. UNCHANGED <<ban, bag, dbVars>> /\ \A d \in Conns \ {c} : conn'[d] = conn[d]
  BY <1>0 DEF AssignBag
<1>2. conn'[c].pc \in {"count", "done"} /\ conn'[c].ip = conn[c].ip
  BY <1>0 DEF AssignBag, AfterRemoval, ConnRecord
<1>3. /\ activeTcpClients'[conn[c].ip] = RebuiltBag(c)
      /\ \A i \in IPs : i # conn[c].ip => activeTcpClients'[i] = activeTcpClients[i]
  BY <1>0 DEF AssignBag
<1>4. BagsInv
  BY DEF BanInv
<1>5. BagsInv'
  BY <1>0, <1>1, <1>2, <1>4 DEF BagsInv, Arriving
<1>6. ASSUME outages = 0, unbans = 0
      PROVE  WrittenInv' /\ \A d \in Conns : ReachInv(d)'
  <2>1. WrittenInv /\ \A d \in Conns : ReachInv(d)
    BY <1>6 DEF BanInv
  <2>2. WrittenInv'
    BY <1>1, <2>1 DEF WrittenInv, Written, dbVars
  <2>3. ReachInv(c)'
    BY <1>2 DEF ReachInv, Checking, Admitted, Holding
  <2>4. ASSUME NEW d \in Conns \ {c}
        PROVE  ReachInv(d)'
    <3>1. CASE conn[d].pc = "none"
      BY <1>1, <2>4, <3>1 DEF ReachInv, Checking, Admitted, Holding
    <3>2. CASE conn[d].pc # "none"
      <4>1. conn[d].ip \in IPs /\ conn'[d] = conn[d]
        BY <1>1, <2>4, <3>2 DEF TypeInv, RefsOK
      <4>2. \A e \in Conns : ErasedBy(d, e) => ErasedBy(d, e)'
        BY <1>1, <1>2, <4>1 DEF ErasedBy
      <4>3. \A t \in BanThreads : Closing(t, d) => Closing(t, d)'
        BY <1>1, <4>1 DEF Closing
      <4>4. Lost(d) => Lost(d)'
        BY <4>2, <4>3 DEF Lost, Erased
      <4>5. InTable(d) => InTable(d)' \/ Lost(d)'
        BY <1>0, <1>1, <1>2, <1>3, <4>1, BagFacts DEF InTable, Lost, Erased, ErasedBy
      <4>6. Sweeping(conn[d].ip) => Sweeping(conn[d].ip)'
        BY <1>1, <4>1 DEF Sweeping
      <4>7. conn[d].pc = "add" /\ AddReach(d) => AddReach(d)'
        <5> SUFFICES ASSUME conn[d].pc = "add", AddReach(d)
                     PROVE  AddReach(d)'
          OBVIOUS
        <5>1. CASE activeTcpClients[conn[d].ip] = conn[d].ref
          <6>1. CASE conn[d].ip # conn[c].ip
            BY <1>3, <4>1, <5>1, <6>1 DEF AddReach
          <6>2. CASE conn[d].ip = conn[c].ip
            <7>1. d \notin bag[RebuiltBag(c)]
              BY <1>0, <1>4, BagFacts DEF BagsInv
            <7>2. ErasedBy(d, c)'
              BY <1>0, <1>1, <1>2, <4>1, <6>2, <7>1 DEF ErasedBy
            <7> QED
              BY <1>3, <4>1, <6>2, <7>2 DEF AddReach
          <6> QED
            BY <6>1, <6>2
        <5>2. CASE \E e \in Conns : RebuiltBag(e) # conn[d].ref /\ ErasedBy(d, e)
          BY <4>1, <4>2, <5>2 DEF AddReach
        <5>3. CASE Written(conn[d].ip)
          BY <1>1, <4>1, <5>3 DEF AddReach, Written, dbVars
        <5> QED
          BY <5>1, <5>2, <5>3 DEF AddReach
      <4>8. banned \subseteq AccountIPs /\ UNCHANGED banned
        BY <1>1 DEF TypeInv, TypeOK, dbVars
      <4>9. ReachInv(d)
        BY <2>1
      <4> QED
        BY <4>1, <4>4, <4>5, <4>6, <4>7, <4>8, <4>9, OtherReach
    <3> QED
      BY <3>1, <3>2
  <2> QED
    BY <2>2, <2>3, <2>4
<1> QED
  BY <1>1, <1>5, <1>6 DEF BanInv, dbVars

\* BanStatus: with the database up the ban is written before anything else.
LEMMA BanStatusBan ==
  ASSUME BanInv, TypeInv, WaitsForBan, NEW t \in BanThreads, BanStatus(t)
  PROVE  BanInv'
<1>0. ban \in [BanThreads -> BanRecord] /\ banned \subseteq AccountIPs /\ ban[t].pc = "status"
  BY DEF TypeInv, TypeOK, BanStatus
<1>1. UNCHANGED <<conn, activeTcpClients, bag, outages, unbans>> /\ \A u \in BanThreads \ {t} : ban'[u] = ban[u]
  BY <1>0 DEF BanStatus
<1>2. ban'[t].pc = "uid" /\ ban'[t].ip = ban[t].ip
  BY <1>0 DEF BanStatus, BanRecord
<1>3. BagsInv'
  BY <1>0, <1>1, <1>2 DEF BanInv, BagsInv
<1>4. ASSUME outages = 0, unbans = 0
      PROVE  WrittenInv' /\ \A d \in Conns : ReachInv(d)'
  <2>1. WrittenInv /\ (\A d \in Conns : ReachInv(d)) /\ dbUp
    BY <1>4 DEF BanInv, WaitsForBan
  <2>2. banned' = banned \cup ({ban[t].ip} \cap AccountIPs) /\ ban'[t].pass = 1
    BY <1>0, <2>1 DEF BanStatus, BanRecord
  <2>3. WrittenInv'
    BY <1>1, <1>2, <2>1, <2>2 DEF WrittenInv, Written
  <2>4. ASSUME NEW d \in Conns
        PROVE  ReachInv(d)'
    <3>1. Erased(d) => Erased(d)'
      BY <1>1 DEF Erased, ErasedBy
    <3>2. \A u \in BanThreads : Closing(u, d) => Closing(u, d)'
      BY <1>0, <1>1 DEF Closing
    <3>3. Lost(d) => Lost(d)'
      BY <3>1, <3>2 DEF Lost
    <3>4. InTable(d) => InTable(d)'
      BY <1>1 DEF InTable
    <3>5. Sweeping(conn[d].ip) => Sweeping(conn[d].ip)'
      BY <1>0, <1>1 DEF Sweeping
    <3>6. AddReach(d) => AddReach(d)'
      BY <1>1, <2>2 DEF AddReach, ErasedBy, Written
    <3>7. conn[d].ip \in banned' => conn[d].ip \in banned \/ Sweeping(conn[d].ip)'
      BY <1>1, <1>2, <2>2 DEF Sweeping
    <3>8. ReachInv(d) /\ conn'[d] = conn[d] /\ banned \subseteq banned'
      BY <1>1, <2>1, <2>2
    <3> QED
      BY <1>0, <3>3, <3>4, <3>5, <3>6, <3>7, <3>8, OtherReach
  <2> QED
    BY <2>3, <2>4
<1> QED
  BY <1>1, <1>3, <1>4 DEF BanInv

\* BanUid: the ban goes on to take the bag, or was in its second pass, whose first took
\* the bag before.
LEMMA BanUidBan ==
  ASSUME BanInv, TypeInv, NEW t \in BanThreads, BanUid(t)
  PROVE  BanInv'
<1>0. ban \in [BanThreads -> BanRecord] /\ banned \subseteq AccountIPs /\ ban[t].pc = "uid"
  BY DEF TypeInv, TypeOK, BanUid
<1>1. UNCHANGED <<conn, activeTcpClients, bag, banned, outages, unbans>>
      /\ \A u \in BanThreads \ {t} : ban'[u] = ban[u]
  BY <1>0 DEF BanUid
<1>2. \/ ban'[t].pc = "take" /\ ban'[t].ip = ban[t].ip /\ ban'[t].pass = ban[t].pass
      \/ ban'[t].pc = "idle" /\ ban[t].pass = 2
  BY <1>0 DEF BanUid, BanRecord, Idle
<1>3. BagsInv'
  BY <1>0, <1>1, <1>2 DEF BanInv, BagsInv
<1>4. ASSUME outages = 0, unbans = 0
      PROVE  WrittenInv' /\ \A d \in Conns : ReachInv(d)'
  <2>1. WrittenInv /\ \A d \in Conns : ReachInv(d)
    BY <1>4 DEF BanInv
  <2>2. WrittenInv'
    BY <1>0, <1>1, <1>2, <2>1 DEF WrittenInv, Written
  <2>3. ASSUME NEW d \in Conns
        PROVE  ReachInv(d)'
    <3>1. Erased(d) => Erased(d)'
      BY <1>1 DEF Erased, ErasedBy
    <3>2. \A u \in BanThreads : Closing(u, d) => Closing(u, d)'
      BY <1>0, <1>1 DEF Closing
    <3>3. Lost(d) => Lost(d)'
      BY <3>1, <3>2 DEF Lost
    <3>4. InTable(d) => InTable(d)'
      BY <1>1 DEF InTable
    <3>5. Sweeping(conn[d].ip) => Sweeping(conn[d].ip)'
      BY <1>0, <1>1, <1>2 DEF Sweeping
    <3>6. AddReach(d) => AddReach(d)'
      BY <1>1 DEF AddReach, ErasedBy, Written
    <3>7. ReachInv(d) /\ conn'[d] = conn[d] /\ UNCHANGED banned
      BY <1>1, <2>1
    <3> QED
      BY <1>0, <3>3, <3>4, <3>5, <3>6, <3>7, OtherReach
  <2> QED
    BY <2>2, <2>3
<1> QED
  BY <1>1, <1>3, <1>4 DEF BanInv

\* TakeBag: the connections of the bag it takes out of the table are the ones it closes.
LEMMA TakeBagBan ==
  ASSUME BanInv, TypeInv, NEW t \in BanThreads, TakeBag(t)
  PROVE  BanInv'
<1>0. /\ ban \in [BanThreads -> BanRecord] /\ activeTcpClients \in [IPs -> BagIds \cup {NoBag}]
      /\ banned \subseteq AccountIPs /\ ban[t].pc = "take" /\ ban[t].ip \in IPs
  BY DEF TypeInv, TypeOK, RefsOK, TakeBag
<1>1. UNCHANGED <<conn, bag, dbVars>> /\ \A u \in BanThreads \ {t} : ban'[u] = ban[u]
  BY <1>0 DEF TakeBag, CloseReturns
<1>2. /\ activeTcpClients'[ban[t].ip] = NoBag
      /\ \A i \in IPs : i # ban[t].ip => activeTcpClients'[i] = activeTcpClients[i]
  BY <1>0 DEF TakeBag
<1>3. \/ /\ activeTcpClients[ban[t].ip] = NoBag
         /\ ban'[t].pc = "idle" \/ (ban'[t].pc = "uid" /\ ban'[t].ip = ban[t].ip)
      \/ /\ activeTcpClients[ban[t].ip] # NoBag
         /\ ban'[t].pc = "close" /\ ban'[t].ip = ban[t].ip /\ ban'[t].ref = activeTcpClients[ban[t].ip]
  <2>1. CASE activeTcpClients[ban[t].ip] = NoBag
    <3>1. CloseReturns(t)
      BY <2>1 DEF TakeBag
    <3> QED
      BY <1>0, <2>1, <3>1 DEF CloseReturns, BanRecord, Idle
  <2>2. CASE activeTcpClients[ban[t].ip] # NoBag
    <3>1. ban' = [ban EXCEPT ![t] = [@ EXCEPT !.pc = "close", !.ref = activeTcpClients[ban[t].ip]]]
      BY <2>2 DEF TakeBag
    <3>2. ban'[t] = [ban[t] EXCEPT !.pc = "close", !.ref = activeTcpClients[ban[t].ip]]
      BY <1>0, <3>1
    <3>3. ban[t] \in BanRecord
      BY <1>0
    <3> QED
      BY <2>2, <3>2, <3>3 DEF BanRecord
  <2> QED
    BY <2>1, <2>2
<1>4. BagsInv'
  <2>1. activeTcpClients[ban[t].ip] # NoBag =>
           activeTcpClients[ban[t].ip] \in BagIds /\ bag[activeTcpClients[ban[t].ip]] # NoBag
    BY <1>0 DEF TypeInv, RefsOK
  <2> QED
    BY <1>0, <1>1, <1>3, <2>1 DEF BanInv, BagsInv
<1>5. ASSUME outages = 0, unbans = 0
      PROVE  WrittenInv' /\ \A d \in Conns : ReachInv(d)'
  <2>1. WrittenInv /\ (\A d \in Conns : ReachInv(d)) /\ Written(ban[t].ip)
    BY <1>0, <1>5 DEF BanInv, WrittenInv
  <2>2. WrittenInv'
    BY <1>0, <1>1, <1>3, <2>1 DEF WrittenInv, Written, dbVars
  <2>3. ASSUME NEW d \in Conns
        PROVE  ReachInv(d)'
    <3>1. CASE conn[d].pc = "none"
      BY <1>1, <3>1 DEF ReachInv, Checking, Admitted, Holding
    <3>2. CASE conn[d].pc # "none"
      <4>1. conn[d].ip \in IPs /\ conn'[d] = conn[d] /\ ReachInv(d) /\ UNCHANGED banned
        BY <1>1, <2>1, <3>2 DEF TypeInv, RefsOK, dbVars
      <4>2. Erased(d) => Erased(d)'
        BY <1>1 DEF Erased, ErasedBy
      <4>3. \A u \in BanThreads : Closing(u, d) => Closing(u, d)'
        BY <1>0, <1>1 DEF Closing
      <4>4. Lost(d) => Lost(d)'
        BY <4>2, <4>3 DEF Lost
      <4>5. InTable(d) => InTable(d)' \/ Lost(d)'
        BY <1>1, <1>2, <1>3, <4>1 DEF InTable, Lost, Closing
      <4>6. conn[d].ip # ban[t].ip => (Sweeping(conn[d].ip) => Sweeping(conn[d].ip)')
        BY <1>0, <1>1, <4>1 DEF Sweeping
      <4>7. conn[d].ip = ban[t].ip => (InTable(d) => Lost(d)')
        BY <1>1, <1>2, <4>5 DEF InTable
      <4>8. AddReach(d) => AddReach(d)'
        <5>1. CASE conn[d].ip = ban[t].ip
          BY <2>1, <4>1, <5>1 DEF AddReach, Written
        <5>2. CASE conn[d].ip # ban[t].ip
          BY <1>1, <1>2, <4>1, <5>2 DEF AddReach, ErasedBy, Written
        <5> QED
          BY <5>1, <5>2
      <4> QED
        BY <1>0, <4>1, <4>4, <4>5, <4>6, <4>7, <4>8, OtherReach
    <3> QED
      BY <3>1, <3>2
  <2> QED
    BY <2>2, <2>3
<1> QED
  BY <1>1, <1>4, <1>5 DEF BanInv, dbVars

\* CloseBag: the connections it would leave behind are closed.
LEMMA CloseBagBan ==
  ASSUME BanInv, TypeInv, NEW t \in BanThreads, CloseBag(t)
  PROVE  BanInv'
<1>0. /\ ban \in [BanThreads -> BanRecord] /\ conn \in [Conns -> ConnRecord]
      /\ banned \subseteq AccountIPs /\ ban[t].pc = "close"
  BY DEF TypeInv, TypeOK, CloseBag
<1>1. /\ UNCHANGED <<activeTcpClients, bag, dbVars>>
      /\ \A u \in BanThreads \ {t} : ban'[u] = ban[u]
  BY <1>0 DEF CloseBag, CloseReturns
<1>2. ban'[t].pc = "idle" \/ (ban'[t].pc = "uid" /\ ban'[t].ip = ban[t].ip)
  BY <1>0 DEF CloseBag, CloseReturns, BanRecord, Idle
<1>3. \A d \in Conns : /\ conn'[d].pc = conn[d].pc /\ conn'[d].ip = conn[d].ip
                       /\ conn'[d].ref = conn[d].ref
                       /\ conn'[d].open => conn[d].open /\ d \notin bag[ban[t].ref]
  BY <1>0 DEF CloseBag, ConnRecord
<1>4. BagsInv'
  <2>1. bag \in [BagIds -> {NoBag} \cup SUBSET Conns]
    BY DEF TypeInv, TypeOK
  <2> QED
    BY <1>0, <1>1, <1>2, <1>3, <2>1 DEF BanInv, BagsInv, Arriving
<1>5. ASSUME outages = 0, unbans = 0
      PROVE  WrittenInv' /\ \A d \in Conns : ReachInv(d)'
  <2>1. WrittenInv /\ (\A d \in Conns : ReachInv(d)) /\ Written(ban[t].ip)
    BY <1>0, <1>5 DEF BanInv, WrittenInv
  <2>2. WrittenInv'
    BY <1>0, <1>1, <1>2, <2>1 DEF WrittenInv, Written, dbVars
  <2>3. ASSUME NEW d \in Conns
        PROVE  ReachInv(d)'
    <3>1. Erased(d) => Erased(d)'
      BY <1>1, <1>3 DEF Erased, ErasedBy
    <3>2. \A u \in BanThreads \ {t} : Closing(u, d) => Closing(u, d)'
      BY <1>0, <1>1, <1>3 DEF Closing
    <3>3. Closing(t, d) => ~conn'[d].open /\ Written(conn[d].ip)
      BY <1>3, <2>1 DEF Closing
    <3>4. Lost(d) => Lost(d)' \/ (~conn'[d].open /\ Written(conn[d].ip))
      BY <3>1, <3>2, <3>3 DEF Lost
    <3>5. InTable(d) => InTable(d)'
      BY <1>1, <1>3 DEF InTable
    <3>6. Sweeping(conn[d].ip) => Sweeping(conn[d].ip)'
      BY <1>0, <1>1, <1>3 DEF Sweeping
    <3>7. AddReach(d) => AddReach(d)'
      BY <1>1, <1>3 DEF AddReach, ErasedBy, Written, dbVars
    <3>8. ReachInv(d) /\ UNCHANGED banned
      BY <1>1, <2>1 DEF dbVars
    <3> QED
      BY <1>0, <1>3, <3>4, <3>5, <3>6, <3>7, <3>8, OtherReach
  <2> QED
    BY <2>2, <2>3
<1> QED
  BY <1>1, <1>4, <1>5 DEF BanInv, dbVars

\* Every step keeps the connections of a banned IP within reach of its ban.
LEMMA StepBan == BanInv /\ WaitsForBan /\ TypeInv /\ [Next]_vars => BanInv'
<1> SUFFICES ASSUME BanInv, WaitsForBan, TypeInv, [Next]_vars
             PROVE  BanInv'
  OBVIOUS
<1>0. conn \in [Conns -> ConnRecord] /\ ban \in [BanThreads -> BanRecord] /\ outages \in Nat /\ unbans \in Nat
  BY ConstantsAssumption DEF TypeInv, TypeOK
<1>1. ASSUME NEW c \in Conns, Handler(c) \/ PeerCloses(c) \/ PeriodicBanCheck(c)
      PROVE  BanInv'
  BY <1>1, GetOrAddBan, RegisterBan, CopyBagBan, AssignBagBan, HandlerRestBan
<1>2. ASSUME NEW c \in Conns, NEW i \in IPs, NEW p \in Ports, Accept(c, i, p)
      PROVE  BanInv'
  <2>1. /\ UNCHANGED <<ban, activeTcpClients, bag, dbVars>>
        /\ \A d \in Conns \ {c} : conn'[d] = conn[d]
        /\ conn[c].pc = "none" /\ conn'[c].pc \in {"handle", "done"}
    BY <1>0, <1>2 DEF Accept, ConnRecord
  <2> QED
    BY <2>1, QuietBan DEF BansRest, Arriving, Checking, Gone, Admitted, Holding
<1>3. ASSUME NEW t \in BanThreads, BanProcedure(t)
      PROVE  BanInv'
  BY <1>3, BanStatusBan, BanUidBan, TakeBagBan, CloseBagBan DEF BanProcedure
<1>4. ASSUME NEW t \in ServerThreads, NEW i \in IPs, NEW full \in BOOLEAN, ServerBans(t, i, full)
      PROVE  BanInv'
  BY <1>0, <1>4, RestBan DEF ServerBans, Started, BansRest, BanThreads
<1>5. CASE UNCHANGED <<conn, ban, activeTcpClients, bag, dbVars>>
  BY <1>5, RestBan DEF BansRest
<1>6. CASE (\E i \in IPs : AdminUnbans(i)) \/ DatabaseFails \/ DatabaseRecovers
  <2>1. UNCHANGED <<conn, ban, activeTcpClients, bag>> /\ (outages' # 0 \/ unbans' # 0)
    BY <1>0, <1>6 DEF AdminUnbans, DatabaseFails, DatabaseRecovers, WaitsForBan
  <2> QED
    BY <2>1 DEF BanInv, BagsInv
<1> QED
  BY <1>1, <1>2, <1>3, <1>4, <1>5, <1>6 DEF Next, vars, ServerUpdatesSessions

\* The check after the registration closes the window between them: a connection that got
\* past the ban checks does not stay open once the ban of its IP has run to its end,
\* unless RemoveClientFromBag of another handler lost it.
THEOREM BannedIsDisconnected == Spec => []BannedIpDisconnected
<1>1. Init => TypeInv /\ LimitInv /\ BanInv
  BY InitType, InitLimit, InitBan
<1>2. TypeInv /\ LimitInv /\ BanInv /\ [Next]_vars => (TypeInv /\ LimitInv /\ BanInv)'
  BY StepType, StepLimit, StepBan DEF LimitInv
<1>3. BanInv => BannedIpDisconnected
  BY DEF BanInv, ReachInv, BannedIpDisconnected, Lost, Closing, Erased, Sweeping, BanInProgress
<1> QED
  BY <1>1, <1>2, <1>3, PTL DEF Spec
====

------------------------------ MODULE TcpProxy ------------------------------
(***************************************************************************)
(* The TCP proxy in front of the game servers (TcpProxy.cs) together with  *)
(* the ban procedure it shares with the anticheat server                   *)
(* (BanIpAndUserUid, DatabaseLogger.BanAccountsByIp).  Every accepted      *)
(* connection is a thread of its own; all of them share four static        *)
(* dictionaries.  A step is one access to one of those dictionaries, or    *)
(* one database statement, with the local code around it.                  *)
(***************************************************************************)
EXTENDS Integers, Sequences, FiniteSets

CONSTANTS
    Conns,             \* accepted TcpClient objects, each used once
    ServerThreads,     \* callbacks of the anticheat server that may ban an IP
    IPs,
    Ports,             \* the listening ports of the proxies of one process
    GameCodes,
    AccountIPs,        \* the IPs that have a row in Users_Master
    SessionLists,      \* the session lists the anticheat server may publish
    MaxFailedAttempts,
    MaxAuthTries,      \* look-ups of the session list per connection (maxAttempts)
    MaxOutages,        \* bound: database outages in a behaviour
    MaxUnbans,         \* bound: unbans by an administrator in a behaviour
    NoIp, NoPort, NoBag, NoList, NoCode

ASSUME ConstantsAssumption ==
    /\ MaxFailedAttempts \in Nat \ {0}
    /\ MaxAuthTries \in Nat \ {0}
    /\ MaxOutages \in Nat
    /\ MaxUnbans \in Nat
    /\ AccountIPs \subseteq IPs
    /\ NoList \in SessionLists
    /\ SessionLists \ {NoList} \subseteq Seq(GameCodes)
    /\ NoList \notin Seq(GameCodes)
    /\ NoCode \notin GameCodes

ASSUME ThreadsAssumption ==
    /\ Conns \cap ServerThreads = {}
    /\ NoIp \notin IPs
    /\ NoPort \notin Ports
    /\ \A c \in Conns, place \in {"registered", "rebuilt"} : NoBag # <<c, place>>
    /\ \A S \in SUBSET Conns : NoBag # S

VARIABLES
    conn,               \* the handler thread of each connection: program counter and locals
    ban,                \* the ban procedure run by a thread, "idle" when it runs none
    activeTcpClients,   \* ActiveTcpClients: IP -> bag object
    bag,                \* contents of every bag object, NoBag until it is created
    activeConnections,  \* ActiveConnections: the set of connection keys
    failedAttempts,     \* FailedAttempts: IP -> count, 0 when absent
    sessions,           \* AuthenticatedSessions, written by the anticheat server
    banned,             \* IPs whose accounts have Status = -5 in Users_Master
    uidBanned,          \* IPs whose user id is in Users_Bann
    dbUp,               \* the database answers
    outages, unbans     \* how many of the bounded events have happened

dbVars == <<banned, uidBanned, dbUp, outages, unbans>>
vars == <<conn, ban, activeTcpClients, bag, activeConnections, failedAttempts,
          sessions, dbVars>>

-----------------------------------------------------------------------------

\* A bag object is named by the thread that creates it and the place where it does:
\* the factory of GetOrAdd ("registered") or RemoveClientFromBag ("rebuilt").
RegisteredBag(c) == <<c, "registered">>
RebuiltBag(c) == <<c, "rebuilt">>
BagIds == {RegisteredBag(c) : c \in Conns} \cup {RebuiltBag(c) : c \in Conns}
BanThreads == Conns \cup ServerThreads
Keys == Ports \X IPs \X (GameCodes \cup {NoCode})

\* The steps of HandleClient, in the order of the code.
ConnPcs == {"none", "handle", "getOrAdd", "add", "attempts", "reset", "banCheck",
            "auth", "claim", "parallel", "reject", "connect", "forward", "grace",
            "release", "lookup", "copy", "assign", "count", "banning", "done"}
Outcomes == {"pending", "banned", "parallel", "unauthenticated", "served"}

ConnRecord ==
    [pc: ConnPcs, ip: IPs \cup {NoIp}, port: Ports \cup {NoPort},
     open: BOOLEAN,                      \* the TcpClient is not closed
     uid: BOOLEAN,                       \* userUid.HasValue
     tries: 0..MaxAuthTries, auth: BOOLEAN,
     code: GameCodes \cup {NoCode},      \* expectedGamecode
     outcome: Outcomes,                  \* why the handler leaves
     ref: BagIds \cup {NoBag},           \* the bag object it holds a reference to
     watch: BOOLEAN]                     \* banCheckThread is running

BanRecord ==
    [pc: {"idle", "status", "uid", "take", "close"}, ip: IPs \cup {NoIp},
     full: BOOLEAN,                      \* BanIpAndUserUid, not BanAccountsByIp + BanUserUid
     pass: {1, 2},                       \* inside BanAccountsByIp, or after it
     ref: BagIds \cup {NoBag}]

Key(c) == <<conn[c].port, conn[c].ip, conn[c].code>>

\* IsIpBanned and IsUserUidBanned answer FALSE when the database fails.
IsIpBanned(i) == dbUp /\ i \in banned
IsUserUidBanned(c) == conn[c].uid /\ dbUp /\ conn[c].ip \in uidBanned

Idle == [pc |-> "idle", ip |-> NoIp, full |-> TRUE, pass |-> 1, ref |-> NoBag]
\* The call of BanIpAndUserUid, or of BanAccountsByIp followed by BanUserUid.
Started(i, full) == [pc |-> "status", ip |-> i, full |-> full, pass |-> 1, ref |-> NoBag]
Unused == [pc |-> "none", ip |-> NoIp, port |-> NoPort, open |-> FALSE, uid |-> FALSE,
           tries |-> 0, auth |-> FALSE, code |-> NoCode, outcome |-> "pending",
           ref |-> NoBag, watch |-> FALSE]

Init ==
    /\ conn = [c \in Conns |-> Unused]
    /\ ban = [t \in BanThreads |-> Idle]
    /\ activeTcpClients = [i \in IPs |-> NoBag]
    /\ bag = [b \in BagIds |-> NoBag]
    /\ activeConnections = {}
    /\ failedAttempts = [i \in IPs |-> 0]
    /\ sessions = [i \in IPs |-> NoList]
    /\ banned = {}
    /\ uidBanned = {}
    /\ dbUp = TRUE
    /\ outages = 0
    /\ unbans = 0

-----------------------------------------------------------------------------
(* The accept loop and the handler thread of a connection. *)

\* Start: a connection of a banned IP is closed before any handler runs.
Accept(c, i, p) ==
    /\ conn[c].pc = "none"
    /\ conn' = [conn EXCEPT ![c] =
                  IF IsIpBanned(i)
                  THEN [@ EXCEPT !.ip = i, !.port = p, !.outcome = "banned", !.pc = "done"]
                  ELSE [@ EXCEPT !.ip = i, !.port = p, !.open = TRUE, !.pc = "handle"]]
    /\ UNCHANGED <<ban, activeTcpClients, bag, activeConnections, failedAttempts,
                   sessions, dbVars>>

\* A handler that leaves closes its client and goes on to RemoveClientFromBag.
Leave(c, why) ==
    conn' = [conn EXCEPT ![c] = [@ EXCEPT !.open = FALSE, !.outcome = why, !.pc = "lookup"]]

FirstBanCheck(c) ==
    /\ conn[c].pc = "handle"
    /\ \/ /\ IsIpBanned(conn[c].ip)
          /\ Leave(c, "banned")
       \/ /\ ~IsIpBanned(conn[c].ip)
          /\ conn' = [conn EXCEPT ![c].pc = "getOrAdd"]
    /\ UNCHANGED <<ban, activeTcpClients, bag, activeConnections, failedAttempts,
                   sessions, dbVars>>

GetOrAdd(c) ==
    LET i == conn[c].ip
        b == IF activeTcpClients[i] = NoBag THEN RegisteredBag(c) ELSE activeTcpClients[i]
    IN  /\ conn[c].pc = "getOrAdd"
        /\ activeTcpClients' = [activeTcpClients EXCEPT ![i] = b]
        /\ bag' = IF activeTcpClients[i] = NoBag THEN [bag EXCEPT ![b] = {}] ELSE bag
        /\ conn' = [conn EXCEPT ![c] = [@ EXCEPT !.ref = b, !.pc = "add"]]
        /\ UNCHANGED <<ban, activeConnections, failedAttempts, sessions, dbVars>>

\* bag.Add on the object GetOrAdd returned, then GetUserUidByIp.
Register(c) ==
    /\ conn[c].pc = "add"
    /\ bag' = [bag EXCEPT ![conn[c].ref] = @ \cup {c}]
    /\ conn' = [conn EXCEPT ![c] = [@ EXCEPT !.uid = dbUp /\ conn[c].ip \in AccountIPs,
                                             !.pc = "attempts"]]
    /\ UNCHANGED <<ban, activeTcpClients, activeConnections, failedAttempts,
                   sessions, dbVars>>

\* The counter of an IP the database no longer bans is to be reset.
ReadAttempts(c) ==
    /\ conn[c].pc = "attempts"
    /\ conn' = [conn EXCEPT ![c].pc =
                  IF failedAttempts[conn[c].ip] >= MaxFailedAttempts /\ ~IsIpBanned(conn[c].ip)
                  THEN "reset" ELSE "banCheck"]
    /\ UNCHANGED <<ban, activeTcpClients, bag, activeConnections, failedAttempts,
                   sessions, dbVars>>

ResetAttempts(c) ==
    /\ conn[c].pc = "reset"
    /\ failedAttempts' = [failedAttempts EXCEPT ![conn[c].ip] = 0]
    /\ conn' = [conn EXCEPT ![c].pc = "banCheck"]
    /\ UNCHANGED <<ban, activeTcpClients, bag, activeConnections, sessions, dbVars>>

\* Variant: the IP is checked only before its registration.
SecondBanCheckDropped(c) ==
    /\ conn[c].pc = "banCheck"
    /\ conn' = [conn EXCEPT ![c].pc = "auth"]
    /\ UNCHANGED <<ban, activeTcpClients, bag, activeConnections, failedAttempts,
                   sessions, dbVars>>

\* The check that follows the registration: a ban written before it is seen here,
\* a ban written after it finds the connection in the bag.
SecondBanCheck(c) ==
    /\ conn[c].pc = "banCheck"
    /\ \/ /\ IsIpBanned(conn[c].ip) \/ IsUserUidBanned(c)
          /\ Leave(c, "banned")
       \/ /\ ~IsIpBanned(conn[c].ip) /\ ~IsUserUidBanned(c)
          /\ conn' = [conn EXCEPT ![c].pc = "auth"]
    /\ UNCHANGED <<ban, activeTcpClients, bag, activeConnections, failedAttempts,
                   sessions, dbVars>>

\* Variant: the look-ups are counted from zero to the limit.
AuthenticateOnceMore(c) ==
    LET list == sessions[conn[c].ip]
        ok   == list # NoList /\ Len(list) <= 2
        last == conn[c].tries = MaxAuthTries
    IN  /\ conn[c].pc = "auth"
        /\ conn' = [conn EXCEPT ![c] = [@ EXCEPT
              !.tries = conn[c].tries + 1,
              !.auth = ok,
              !.pc = IF ok \/ last THEN "claim" ELSE "auth"]]
        /\ UNCHANGED <<ban, activeTcpClients, bag, activeConnections, failedAttempts,
                       sessions, dbVars>>

\* One of the look-ups of the session list, half a second apart.  A list of at most
\* two sessions authenticates, an empty one included; the game code of its first
\* session goes into the connection key.  After the last look-up the handler goes on
\* with whatever list it read.
Authenticate(c) ==
    LET list == sessions[conn[c].ip]
        ok   == list # NoList /\ Len(list) <= 2
        last == conn[c].tries + 1 = MaxAuthTries
    IN  /\ conn[c].pc = "auth"
        /\ conn' = [conn EXCEPT ![c] = [@ EXCEPT
              !.tries = conn[c].tries + 1,
              !.auth = ok,
              !.code = IF (ok \/ last) /\ list # NoList /\ list # <<>> THEN list[1] ELSE NoCode,
              !.pc = IF ok \/ last THEN "claim" ELSE "auth"]]
        /\ UNCHANGED <<ban, activeTcpClients, bag, activeConnections, failedAttempts,
                       sessions, dbVars>>

\* With its key claimed, an authenticated connection is served.
Claimed(c) ==
    conn' = [conn EXCEPT ![c] =
                IF conn[c].auth THEN [@ EXCEPT !.outcome = "served", !.pc = "connect"]
                                ELSE [@ EXCEPT !.outcome = "unauthenticated", !.pc = "reject"]]

\* Variant: the entry is written with the indexer instead of TryAdd.
ClaimUnchecked(c) ==
    /\ conn[c].pc = "claim"
    /\ activeConnections' = activeConnections \cup {Key(c)}
    /\ Claimed(c)
    /\ UNCHANGED <<ban, activeTcpClients, bag, failedAttempts, sessions, dbVars>>

\* ActiveConnections.TryAdd: the key must be free, for a refused connection too.
Claim(c) ==
    /\ conn[c].pc = "claim"
    /\ \/ /\ Key(c) \in activeConnections
          /\ conn' = [conn EXCEPT ![c] = [@ EXCEPT !.outcome = "parallel", !.pc = "parallel"]]
          /\ UNCHANGED activeConnections
       \/ /\ Key(c) \notin activeConnections
          /\ activeConnections' = activeConnections \cup {Key(c)}
          /\ Claimed(c)
    /\ UNCHANGED <<ban, activeTcpClients, bag, failedAttempts, sessions, dbVars>>

\* A refused parallel connection removes the key, which is not its own.
RefuseParallel(c) ==
    /\ conn[c].pc = "parallel"
    /\ activeConnections' = activeConnections \ {Key(c)}
    /\ Leave(c, "parallel")
    /\ UNCHANGED <<ban, activeTcpClients, bag, failedAttempts, sessions, dbVars>>

\* Variant: an unauthenticated connection leaves without removing its key.
RejectKeepsKey(c) ==
    /\ conn[c].pc = "reject"
    /\ Leave(c, "unauthenticated")
    /\ UNCHANGED <<ban, activeTcpClients, bag, activeConnections, failedAttempts,
                   sessions, dbVars>>

\* An unauthenticated connection frees the key it claimed.
RejectUnauthenticated(c) ==
    /\ conn[c].pc = "reject"
    /\ activeConnections' = activeConnections \ {Key(c)}
    /\ Leave(c, "unauthenticated")
    /\ UNCHANGED <<ban, activeTcpClients, bag, failedAttempts, sessions, dbVars>>

\* Variant: the ban follows the attempt after the limit.
CountFailurePastLimit(c) ==
    LET i == conn[c].ip
    IN  /\ conn[c].pc = "count"
        /\ failedAttempts' = [failedAttempts EXCEPT ![i] = @ + 1]
        /\ \/ /\ failedAttempts'[i] > MaxFailedAttempts
              /\ ban' = [ban EXCEPT ![c] = Started(i, TRUE)]
              /\ conn' = [conn EXCEPT ![c].pc = "banning"]
           \/ /\ failedAttempts'[i] <= MaxFailedAttempts
              /\ conn' = [conn EXCEPT ![c].pc = "done"]
              /\ UNCHANGED ban
        /\ UNCHANGED <<activeTcpClients, bag, activeConnections, sessions, dbVars>>

\* FailedAttempts.AddOrUpdate; exactly the attempt that reaches the limit bans.
CountFailure(c) ==
    LET i == conn[c].ip
    IN  /\ conn[c].pc = "count"
        /\ failedAttempts' = [failedAttempts EXCEPT ![i] = @ + 1]
        /\ \/ /\ failedAttempts'[i] = MaxFailedAttempts
              /\ ban' = [ban EXCEPT ![c] = Started(i, TRUE)]
              /\ conn' = [conn EXCEPT ![c].pc = "banning"]
           \/ /\ failedAttempts'[i] # MaxFailedAttempts
              /\ conn' = [conn EXCEPT ![c].pc = "done"]
              /\ UNCHANGED ban
        /\ UNCHANGED <<activeTcpClients, bag, activeConnections, sessions, dbVars>>

\* The ban procedure the handler called has returned.
BanReturns(c) ==
    /\ conn[c].pc = "banning"
    /\ ban[c].pc = "idle"
    /\ conn' = [conn EXCEPT ![c].pc = "done"]
    /\ UNCHANGED <<ban, activeTcpClients, bag, activeConnections, failedAttempts,
                   sessions, dbVars>>

\* Variant: the periodic ban check is not started.
ConnectTargetUnwatched(c) ==
    /\ conn[c].pc = "connect"
    /\ \E next \in {"forward", "release"} : conn' = [conn EXCEPT ![c].pc = next]
    /\ UNCHANGED <<ban, activeTcpClients, bag, activeConnections, failedAttempts,
                   sessions, dbVars>>

\* The periodic ban check thread is started, then the target is connected to: the
\* forwarding threads start, or the exception leads to the cleanup, which disposes
\* the client only after it.
ConnectTarget(c) ==
    /\ conn[c].pc = "connect"
    /\ \E next \in {"forward", "release"} :
          conn' = [conn EXCEPT ![c] = [@ EXCEPT !.watch = TRUE, !.pc = next]]
    /\ UNCHANGED <<ban, activeTcpClients, bag, activeConnections, failedAttempts,
                   sessions, dbVars>>

\* A forwarding thread ends: a peer has closed, or the client was closed under it.
PeerCloses(c) ==
    /\ conn[c].pc = "forward"
    /\ conn[c].open
    /\ conn' = [conn EXCEPT ![c].pc = "grace"]
    /\ UNCHANGED <<ban, activeTcpClients, bag, activeConnections, failedAttempts,
                   sessions, dbVars>>

ForwardFails(c) ==
    /\ conn[c].pc = "forward"
    /\ ~conn[c].open
    /\ conn' = [conn EXCEPT ![c].pc = "grace"]
    /\ UNCHANGED <<ban, activeTcpClients, bag, activeConnections, failedAttempts,
                   sessions, dbVars>>

\* After the grace period both ends are closed.
EndGrace(c) ==
    /\ conn[c].pc = "grace"
    /\ conn' = [conn EXCEPT ![c] = [@ EXCEPT !.open = FALSE, !.pc = "release"]]
    /\ UNCHANGED <<ban, activeTcpClients, bag, activeConnections, failedAttempts,
                   sessions, dbVars>>

\* The finally block.
Release(c) ==
    /\ conn[c].pc = "release"
    /\ activeConnections' = activeConnections \ {Key(c)}
    /\ conn' = [conn EXCEPT ![c].pc = "lookup"]
    /\ UNCHANGED <<ban, activeTcpClients, bag, failedAttempts, sessions, dbVars>>

-----------------------------------------------------------------------------
(* RemoveClientFromBag: look the bag up, copy it without the client, put the *)
(* copy in its place.                                                        *)

\* What the handler does after RemoveClientFromBag; a served client is disposed now.
AfterRemoval(c) == IF conn[c].outcome = "unauthenticated" THEN "count" ELSE "done"

LookupBag(c) ==
    LET b == activeTcpClients[conn[c].ip]
    IN  /\ conn[c].pc = "lookup"
        /\ \/ /\ b = NoBag
              /\ conn' = [conn EXCEPT ![c] = [@ EXCEPT !.open = FALSE, !.pc = AfterRemoval(c)]]
           \/ /\ b # NoBag
              /\ conn' = [conn EXCEPT ![c] = [@ EXCEPT !.ref = b, !.pc = "copy"]]
        /\ UNCHANGED <<ban, activeTcpClients, bag, activeConnections, failedAttempts,
                       sessions, dbVars>>

CopyBag(c) ==
    /\ conn[c].pc = "copy"
    /\ bag' = [bag EXCEPT ![RebuiltBag(c)] = bag[conn[c].ref] \ {c}]
    /\ conn' = [conn EXCEPT ![c].pc = "assign"]
    /\ UNCHANGED <<ban, activeTcpClients, activeConnections, failedAttempts,
                   sessions, dbVars>>

AssignBag(c) ==
    /\ conn[c].pc = "assign"
    /\ activeTcpClients' = [activeTcpClients EXCEPT ![conn[c].ip] = RebuiltBag(c)]
    /\ conn' = [conn EXCEPT ![c] = [@ EXCEPT !.open = FALSE, !.pc = AfterRemoval(c)]]
    /\ UNCHANGED <<ban, bag, activeConnections, failedAttempts, sessions, dbVars>>

-----------------------------------------------------------------------------
(* The periodic check of a forwarded connection (banCheckThread). *)

PeriodicBanCheck(c) ==
    /\ conn[c].watch
    /\ IsIpBanned(conn[c].ip)
    /\ conn' = [conn EXCEPT ![c] = [@ EXCEPT !.open = FALSE, !.watch = FALSE]]
    /\ UNCHANGED <<ban, activeTcpClients, bag, activeConnections, failedAttempts,
                   sessions, dbVars>>

-----------------------------------------------------------------------------
(* The ban procedure, run by a handler thread or by a callback of the        *)
(* anticheat server.                                                         *)

\* The anticheat server bans: BanIpAndUserUid for a third critical flag,
\* BanAccountsByIp and BanUserUid for a failed or missing file check.
ServerBans(t, i, full) ==
    /\ ban[t].pc = "idle"
    /\ ban' = [ban EXCEPT ![t] = Started(i, full)]
    /\ UNCHANGED <<conn, activeTcpClients, bag, activeConnections, failedAttempts,
                   sessions, dbVars>>

\* UPDATE Users_Master: it changes the rows of that IP, if there are any.  When it
\* fails the rest of BanAccountsByIp is skipped.
BanStatus(t) ==
    /\ ban[t].pc = "status"
    /\ banned' = IF dbUp THEN banned \cup ({ban[t].ip} \cap AccountIPs) ELSE banned
    /\ ban' = [ban EXCEPT ![t] = [@ EXCEPT !.pc = "uid", !.pass = IF dbUp THEN 1 ELSE 2]]
    /\ UNCHANGED <<conn, activeTcpClients, bag, activeConnections, failedAttempts,
                   sessions, uidBanned, dbUp, outages, unbans>>

\* BanUserUid for the accounts of the IP, in BanAccountsByIp and once more after it.
BanUid(t) ==
    /\ ban[t].pc = "uid"
    /\ uidBanned' = IF dbUp THEN uidBanned \cup ({ban[t].ip} \cap AccountIPs) ELSE uidBanned
    /\ ban' = [ban EXCEPT ![t] = IF ban[t].pass = 2 /\ ~ban[t].full
                                 THEN Idle ELSE [@ EXCEPT !.pc = "take"]]
    /\ UNCHANGED <<conn, activeTcpClients, bag, activeConnections, failedAttempts,
                   sessions, banned, dbUp, outages, unbans>>

\* CloseConnectionsForIp returns: to BanAccountsByIp, or to the end of BanIpAndUserUid.
CloseReturns(t) ==
    ban' = [ban EXCEPT ![t] = IF ban[t].pass = 1
                              THEN [@ EXCEPT !.pc = "uid", !.pass = 2, !.ref = NoBag]
                              ELSE Idle]

TakeBag(t) ==
    LET i == ban[t].ip
    IN  /\ ban[t].pc = "take"
        /\ activeTcpClients' = [activeTcpClients EXCEPT ![i] = NoBag]
        /\ \/ /\ activeTcpClients[i] = NoBag
              /\ CloseReturns(t)
           \/ /\ activeTcpClients[i] # NoBag
              /\ ban' = [ban EXCEPT ![t] = [@ EXCEPT !.pc = "close", !.ref = activeTcpClients[i]]]
        /\ UNCHANGED <<conn, bag, activeConnections, failedAttempts, sessions, dbVars>>

CloseBag(t) ==
    /\ ban[t].pc = "close"
    /\ conn' = [c \in Conns |-> IF c \in bag[ban[t].ref]
                                THEN [conn[c] EXCEPT !.open = FALSE] ELSE conn[c]]
    /\ CloseReturns(t)
    /\ UNCHANGED <<activeTcpClients, bag, activeConnections, failedAttempts,
                   sessions, dbVars>>

-----------------------------------------------------------------------------
(* The environment: the anticheat server's session table, the database and   *)
(* its administrator.                                                        *)

ServerUpdatesSessions(i, list) ==
    /\ list # sessions[i]
    /\ sessions' = [sessions EXCEPT ![i] = list]
    /\ UNCHANGED <<conn, ban, activeTcpClients, bag, activeConnections, failedAttempts, dbVars>>

DatabaseFails ==
    /\ dbUp /\ outages < MaxOutages
    /\ dbUp' = FALSE
    /\ outages' = outages + 1
    /\ UNCHANGED <<conn, ban, activeTcpClients, bag, activeConnections, failedAttempts,
                   sessions, banned, uidBanned, unbans>>

DatabaseRecovers ==
    /\ ~dbUp
    /\ dbUp' = TRUE
    /\ UNCHANGED <<conn, ban, activeTcpClients, bag, activeConnections, failedAttempts,
                   sessions, banned, uidBanned, outages, unbans>>

\* An administrator resets the Status column, and possibly Users_Bann with it.
AdminUnbans(i) ==
    /\ dbUp /\ unbans < MaxUnbans
    /\ i \in banned
    /\ banned' = banned \ {i}
    /\ \/ uidBanned' = uidBanned \ {i}
       \/ UNCHANGED uidBanned
    /\ unbans' = unbans + 1
    /\ UNCHANGED <<conn, ban, activeTcpClients, bag, activeConnections, failedAttempts,
                   sessions, dbUp, outages>>

-----------------------------------------------------------------------------

\* The steps a handler thread takes by itself.
Handler(c) ==
    \/ FirstBanCheck(c) \/ GetOrAdd(c) \/ Register(c)
    \/ ReadAttempts(c) \/ ResetAttempts(c) \/ SecondBanCheck(c)
    \/ Authenticate(c) \/ Claim(c) \/ RefuseParallel(c) \/ RejectUnauthenticated(c)
    \/ CountFailure(c) \/ BanReturns(c) \/ ConnectTarget(c)
    \/ ForwardFails(c) \/ EndGrace(c) \/ Release(c)
    \/ LookupBag(c) \/ CopyBag(c) \/ AssignBag(c)

BanProcedure(t) == BanStatus(t) \/ BanUid(t) \/ TakeBag(t) \/ CloseBag(t)

Next ==
    \/ \E c \in Conns : \/ Handler(c) \/ PeerCloses(c) \/ PeriodicBanCheck(c)
                        \/ \E i \in IPs, p \in Ports : Accept(c, i, p)
    \/ \E t \in BanThreads : BanProcedure(t)
    \/ \E t \in ServerThreads, i \in IPs, full \in BOOLEAN : ServerBans(t, i, full)
    \/ \E i \in IPs, list \in SessionLists : ServerUpdatesSessions(i, list)
    \/ \E i \in IPs : AdminUnbans(i)
    \/ DatabaseFails \/ DatabaseRecovers

Spec == Init /\ [][Next]_vars

\* Threads run; a forwarded connection, a client that connects, a ban and an outage
\* are never bound to happen, but an outage ends.
Fairness ==
    /\ \A c \in Conns : WF_vars(Handler(c)) /\ WF_vars(PeriodicBanCheck(c))
    /\ \A t \in BanThreads : WF_vars(BanProcedure(t))
    /\ WF_vars(DatabaseRecovers)

FairSpec == Spec /\ Fairness

-----------------------------------------------------------------------------
(* Properties *)

\* TYPE.  Every thread is at a step of the code with locals it can hold there.
TypeOK ==
    /\ conn \in [Conns -> ConnRecord]
    /\ ban \in [BanThreads -> BanRecord]
    /\ activeTcpClients \in [IPs -> BagIds \cup {NoBag}]
    /\ bag \in [BagIds -> {NoBag} \cup SUBSET Conns]
    /\ activeConnections \subseteq Keys
    /\ failedAttempts \in [IPs -> Nat]
    /\ sessions \in [IPs -> SessionLists]
    /\ banned \subseteq AccountIPs /\ uidBanned \subseteq AccountIPs
    /\ dbUp \in BOOLEAN
    /\ outages \in 0..MaxOutages /\ unbans \in 0..MaxUnbans

\* The connections between a successful TryAdd of a key and its TryRemove.
Holding == {"reject", "connect", "forward", "grace", "release"}
Holders(k) == {c \in Conns : conn[c].pc \in Holding /\ Key(c) = k}
RefusedParallel(k) == \E c \in Conns : conn[c].outcome = "parallel" /\ Key(c) = k

\* The handlers that passed the ban check that follows their registration.
Admitted == {"auth", "claim", "parallel"} \cup Holding

\* No entry of ActiveConnections outlives the connections that hold its key: an
\* entry nobody will remove would refuse that player until the server restarts.
NoLeakedKey == \A k \in activeConnections : Holders(k) # {}

\* Until a parallel connection is refused for a key, the key has one holder and its
\* entry is in ActiveConnections, whatever the other handlers do: TryAdd is the only
\* guard between two connections of a player.
ExclusiveKey ==
    \A k \in Keys : ~RefusedParallel(k) =>
        /\ \A c, d \in Holders(k) : c = d
        /\ Holders(k) # {} => k \in activeConnections

\* REFINEMENT.  Whatever the handlers, bans, outages and session changes do in between,
\* claiming a key, refusing a parallel connection and the two places that free a key
\* work as a guard: a key is granted only when nobody holds it or it was spoiled, a
\* connection holds one key at a time, and nobody is refused a key that is free.
Guard == INSTANCE KeyGuard
            WITH holders <- [k \in Keys |-> Holders(k)],
                 spoiled <- {k \in Keys : RefusedParallel(k)}
ImplementsGuard == Guard!Spec

\* The parallel connection guard as its log line states it: no two connections are
\* forwarded for the same key.
OneForwardedPerKey ==
    \A c, d \in Conns :
        conn[c].pc = "forward" /\ conn[d].pc = "forward" /\ Key(c) = Key(d) => c = d

BanInProgress(i) == \E t \in BanThreads : ban[t].pc # "idle" /\ ban[t].ip = i
\* RemoveClientFromBag of handler d has made a bag without connection c of its IP.
ErasedBy(c, d) ==
    /\ conn[d].ip = conn[c].ip
    /\ bag[RebuiltBag(d)] # NoBag
    /\ c \notin bag[RebuiltBag(d)]

\* Registering before the second ban check closes the window between them: once the
\* ban of an IP has run to its end, a connection of that IP that the ban check let
\* through is closed, wherever its handler was when the ban was written, unless
\* RemoveClientFromBag of another handler lost it.  It needs a database that answered
\* and no unban.
BannedIpDisconnected ==
    outages = 0 /\ unbans = 0 =>
        \A c \in Conns :
            conn[c].pc \in Admitted /\ conn[c].open /\ conn[c].ip \in banned
            => BanInProgress(conn[c].ip) \/ \E d \in Conns : ErasedBy(c, d)

\* Reaching the limit of failed attempts bans: exactly one attempt returns the limit
\* from AddOrUpdate, whatever resets and increments run beside it, so an IP beyond
\* the limit is banned or its ban is being written.
LimitBans ==
    outages = 0 /\ unbans = 0 =>
        \A i \in AccountIPs : failedAttempts[i] >= MaxFailedAttempts =>
            i \in banned \/ \E t \in Conns : ban[t].pc = "status" /\ ban[t].ip = i

\* A connection of a banned IP that got past the ban checks is closed in the end,
\* lost from its bag or not: the periodic check does not use the bag.
BannedEventuallyClosed ==
    \A c \in Conns :
        (conn[c].pc \in Admitted /\ conn[c].open /\ conn[c].ip \in banned)
            ~> (~conn[c].open \/ conn[c].ip \notin banned)

=============================================================================

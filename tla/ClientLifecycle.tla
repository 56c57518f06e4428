--------------------------- MODULE ClientLifecycle ---------------------------
(***************************************************************************)
(* The client process from main() to its end: the checks before and inside *)
(* the constructor of AntiCheat, the connection, the defences, the threads *)
(* each of them starts, the game, and the three ways back: the normal stop *)
(* (main() and API::Cleanup), the unwinding of a constructor that throws,  *)
(* and a return from main() while AntiCheat is alive.  What a check looks  *)
(* at is left open: each may succeed or fail.                              *)
(***************************************************************************)
EXTENDS Sequences, FiniteSets

CONSTANT UsingDriver    \* Settings::bUsingDriver

Managed == {"recv", "monitor", "creation", "registry", "antidebug"}  \* Thread objects
Detached == {"hash", "info"}                \* std::thread(...).detach() of NetClient
Techniques == {"sections", "remap", "rename", "apc"}

VARIABLES
    stage,          \* where main() is
    error,          \* errorCode of API::Initialize or API::LaunchDefenses
    applied,        \* the techniques of DeployBarrier that are in place
    view,           \* the section view that holds Settings
    driver,         \* the driver is loaded
    obj,            \* the Thread object: "none", "new" (not assigned yet), "set", "failed"
    run,            \* the thread itself: "none", "running", "ended"
    signalled,      \* ShutdownSignalled
    todo,           \* the threads still to be joined, in order
    receiving,      \* the receive thread is inside recv()
    inbox,          \* what waits to be received
    socket,         \* "none", "open", "peerClosed", "closed"
    graceful,       \* GracefulDisconnect
    handshake,      \* HandshakeCompleted
    detached,       \* the detached threads that run
    gone,           \* the objects destroyed
    stale,          \* history: threads that used an object after its destruction
    game,           \* the game was launched
    end             \* "alive", or how the process ended

mainVars == <<stage, error, applied, view, driver, game>>
threadVars == <<obj, run, signalled, todo>>
netVars == <<receiving, inbox, socket, graceful, handshake, detached>>
vars == <<mainVars, threadVars, netVars, gone, stale, end>>

Init ==
    /\ stage = "files" /\ error = FALSE /\ applied = {}
    /\ view = "none" /\ driver = FALSE /\ game = FALSE
    /\ obj = [t \in Managed |-> "none"] /\ run = [t \in Managed |-> "none"]
    /\ signalled = [t \in Managed |-> FALSE] /\ todo = <<>>
    /\ receiving = FALSE /\ inbox = "none" /\ socket = "none"
    /\ graceful = FALSE /\ handshake = FALSE /\ detached = {}
    /\ gone = {} /\ stale = {} /\ end = "alive"

At(s) == end = "alive" /\ stage = s
Go(s) == stage' = s /\ UNCHANGED end
Ends(how) == end' = how /\ UNCHANGED stage

\* The constructor of AntiCheat throws: its members are destroyed in the reverse order of
\* their declaration, and main() returns 1.
UnwindOrder == <<"antidebug", "monitor", "registry", "creation", "recv">>
Throws ==
    /\ Go("unwind")
    /\ todo' = UnwindOrder

-----------------------------------------------------------------------------
(* main() and the constructor of AntiCheat, up to the connection *)

\* The hashes of Updater.exe and duff.dll.
CheckFiles ==
    /\ At("files")
    /\ Go("settings") \/ Ends("exit")
    /\ UNCHANGED <<error, applied, view, driver, game, threadVars, netVars, gone, stale>>

\* The section of ProtectedMemory; nothing catches what its constructor throws.
MapSettings ==
    /\ At("settings")
    /\ \/ Go("parent") /\ view' = "writable"
       \/ Ends("terminate") /\ UNCHANGED view
    /\ UNCHANGED <<error, applied, driver, game, threadVars, netVars, gone, stale>>

CheckParent ==
    /\ At("parent")
    /\ Go("protect") \/ Ends("exit")
    /\ UNCHANGED <<error, applied, view, driver, game, threadVars, netVars, gone, stale>>

\* ProtectedMemory::Protect unmaps the view before it maps it again.
ProtectSettings ==
    /\ At("protect")
    /\ \/ Go("checks") /\ view' = "protected"
       \/ Ends("return") /\ view' = "unmapped"
    /\ UNCHANGED <<error, applied, driver, game, threadVars, netVars, gone, stale>>

\* DoPreInitializeChecks, then the members that are made before the driver is loaded.
PreInitialize ==
    /\ At("checks")
    /\ \/ Go(IF UsingDriver THEN "driver" ELSE "initialize") /\ UNCHANGED todo
       \/ Throws
    /\ UNCHANGED <<error, applied, view, driver, game, obj, run, signalled, netVars, gone, stale>>

LoadDriver ==
    /\ At("driver")
    /\ \/ Go("initialize") /\ driver' = TRUE /\ UNCHANGED todo
       \/ Throws /\ UNCHANGED driver
    /\ UNCHANGED <<error, applied, view, game, obj, run, signalled, netVars, gone, stale>>

\* API::Initialize looks at the parent again; a mismatch does not keep it from connecting.
InitializeParent ==
    /\ At("initialize")
    /\ Go("connect")
    /\ error' \in BOOLEAN
    /\ UNCHANGED <<applied, view, driver, game, threadVars, netVars, gone, stale>>

\* Up to the sent hello; the answer is not awaited.
Connect ==
    /\ At("connect")
    /\ \/ Go("recv") /\ socket' = "open" /\ UNCHANGED todo
       \/ Throws /\ UNCHANGED socket
    /\ UNCHANGED <<error, applied, view, driver, game, obj, run, signalled,
                   receiving, inbox, graceful, handshake, detached, gone, stale>>

-----------------------------------------------------------------------------
(* Starting threads *)

\* The Thread constructor: the thread runs, or std::thread has thrown and the id is 0.
NewThread(t) ==
    /\ At(t) /\ obj[t] = "none"
    /\ \/ obj' = [obj EXCEPT ![t] = "new"] /\ run' = [run EXCEPT ![t] = "running"]
       \/ obj' = [obj EXCEPT ![t] = "failed"] /\ UNCHANGED run
    /\ UNCHANGED <<mainVars, signalled, todo, netVars, gone, stale, end>>

AfterThread(t) ==
    CASE t = "recv" -> "detach"
      [] t = "monitor" -> IF obj[t] = "failed" THEN "antidebug" ELSE "creation"
      [] t = "creation" -> "registry"
      [] t = "registry" -> "antidebug"
      [] t = "antidebug" -> "signature"

\* The pointer to the object is stored.  Only the ids of the receive thread and of the
\* monitor are looked at.
AssignThread(t) ==
    /\ At(t) /\ obj[t] \in {"new", "failed"}
    /\ obj' = [obj EXCEPT ![t] = IF @ = "new" THEN "set" ELSE @]
    /\ IF t = "recv" /\ obj[t] = "failed"
       THEN Throws /\ socket' = "closed" /\ UNCHANGED error
       ELSE /\ Go(AfterThread(t)) /\ UNCHANGED <<todo, socket>>
            /\ error' = (error \/ (t = "monitor" /\ obj[t] = "failed"))
    /\ UNCHANGED <<applied, view, driver, game, run, signalled,
                   receiving, inbox, graceful, handshake, detached, gone, stale>>

\* StartPeriodicHashCheck and StartPeriodicClientInfo, and the result of API::Initialize.
DetachThreads ==
    /\ At("detach")
    /\ detached' = Detached
    /\ IF error THEN Throws ELSE Go("barrier") /\ UNCHANGED todo
    /\ UNCHANGED <<error, applied, view, driver, game, obj, run, signalled,
                   receiving, inbox, socket, graceful, handshake, gone, stale>>

\* Mutant: the result of DeployBarrier is forgotten.
DeployBlindly ==
    /\ At("barrier")
    /\ applied' \in SUBSET Techniques
    /\ error' = FALSE
    /\ Go("monitor")
    /\ UNCHANGED <<view, driver, game, threadVars, netVars, gone, stale>>

\* DeployBarrier tries every technique and remembers whether one has failed.
DeployBarrier ==
    /\ At("barrier")
    /\ applied' \in SUBSET Techniques
    /\ error' = (applied' # Techniques)
    /\ Go("monitor")
    /\ UNCHANGED <<view, driver, game, threadVars, netVars, gone, stale>>

\* CheckParentProcess, and the result of LaunchDefenses.
CheckSignature ==
    /\ At("signature")
    /\ \E allowed \in BOOLEAN : error' = (error \/ ~allowed)
    /\ IF error' THEN Throws ELSE Go("suspended") /\ UNCHANGED todo
    /\ UNCHANGED <<applied, view, driver, game, obj, run, signalled, netVars, gone, stale>>

-----------------------------------------------------------------------------
(* The game *)

\* IsAnyThreadSuspended: on a return the view of Settings, declared after AntiCheat, goes
\* first.
CheckSuspended ==
    /\ At("suspended")
    /\ \/ Go("launch") /\ UNCHANGED view
       \/ Go("early") /\ view' = "unmapped"
    /\ UNCHANGED <<error, applied, driver, game, threadVars, netVars, gone, stale>>

\* The destructor of AntiCheat reads Config->bUsingDriver.
EarlyReturn ==
    /\ At("early")
    /\ Ends("readUnmapped")
    /\ UNCHANGED <<error, applied, view, driver, game, threadVars, netVars, gone, stale>>

\* The hash of x32.exe; a game that cannot be launched is only reported.
LaunchGame ==
    /\ At("launch")
    /\ \/ Go("watch") /\ game' \in BOOLEAN
       \/ Ends("exit") /\ UNCHANGED game
    /\ UNCHANGED <<error, applied, view, driver, threadVars, netVars, gone, stale>>

\* The game has ended, 'q' was typed, or the user is a cheater.
Watch ==
    /\ At("watch")
    /\ \/ Go("stopDebug") /\ todo' = <<"antidebug">>
       \/ Ends("exit") /\ UNCHANGED todo
    /\ UNCHANGED <<error, applied, view, driver, game, obj, run, signalled, netVars, gone, stale>>

-----------------------------------------------------------------------------
(* The ways back *)

Joining == {"stopDebug", "cleanup", "unwind"}

\* Mutant: the destructor of Thread does not signal.
SignalInCleanupOnly ==
    /\ end = "alive" /\ stage \in Joining /\ todo # <<>>
    /\ LET t == Head(todo) IN
       /\ obj[t] = "set" /\ ~signalled[t]
       /\ signalled' = [signalled EXCEPT ![t] = stage # "unwind"]
       /\ gone' = IF stage = "unwind" /\ t = "antidebug"
                  THEN gone \cup {"antiDebugger"} ELSE gone
    /\ UNCHANGED <<mainVars, obj, run, todo, netVars, stale, end>>

\* SignalShutdown.  The destructor of AntiDebug destroys the driver's name before it does.
SignalThread ==
    /\ end = "alive" /\ stage \in Joining /\ todo # <<>>
    /\ LET t == Head(todo) IN
       /\ obj[t] = "set" /\ ~signalled[t]
       /\ signalled' = [signalled EXCEPT ![t] = TRUE]
       /\ gone' = IF stage = "unwind" /\ t = "antidebug"
                  THEN gone \cup {"antiDebugger"} ELSE gone
    /\ UNCHANGED <<mainVars, obj, run, todo, netVars, stale, end>>

\* JoinThread, or in the destructor of Thread, which then frees the object.
JoinThread ==
    /\ end = "alive" /\ stage \in Joining /\ todo # <<>>
    /\ LET t == Head(todo) IN
       /\ obj[t] = "set" => signalled[t]
       /\ run[t] # "running"
       /\ gone' = IF stage = "unwind" /\ t = "monitor"
                  THEN gone \cup {"monitorThread"} ELSE gone
    /\ todo' = Tail(todo)
    /\ UNCHANGED <<mainVars, obj, run, signalled, netVars, stale, end>>

Joined ==
    /\ end = "alive" /\ stage \in Joining /\ todo = <<>>
    /\ Go(CASE stage = "stopDebug" -> "goodbye"
            [] stage = "cleanup" -> "destroy"
            [] stage = "unwind" -> "unwound")
    /\ UNCHANGED <<error, applied, view, driver, game, threadVars, netVars, gone, stale>>

\* EndConnection: the disconnection is marked as wanted before the socket is closed.
Goodbye ==
    /\ At("goodbye")
    /\ graceful' = TRUE
    /\ Go("closeSocket")
    /\ UNCHANGED <<error, applied, view, driver, game, threadVars,
                   receiving, inbox, socket, handshake, detached, gone, stale>>

\* Mutant: the registry thread is not joined.
CleanupForgetsRegistry == <<"antidebug", "monitor", "creation", "recv">>

\* API::Cleanup stops the threads in this order.
CleanupOrder == <<"antidebug", "monitor", "creation", "registry", "recv">>

\* Mutants: the settings are unmapped before AntiCheat is destroyed; the connection is not
\* ended first.
UnmapBeforeCleanup ==
    /\ At("closeSocket")
    /\ socket' = "closed"
    /\ driver' = FALSE
    /\ view' = "unmapped"
    /\ todo' = CleanupOrder
    /\ Go("cleanup")
    /\ UNCHANGED <<error, applied, game, obj, run, signalled,
                   receiving, inbox, graceful, handshake, detached, gone, stale>>
CleanupWithoutEnd ==
    /\ At("closeSocket")
    /\ driver' = FALSE
    /\ todo' = CleanupOrder
    /\ Go("cleanup")
    /\ UNCHANGED <<error, applied, view, game, obj, run, signalled,
                   receiving, inbox, socket, graceful, handshake, detached, gone, stale>>

\* The destructor of AntiCheat unloads the driver and calls API::Cleanup.
CloseSocket ==
    /\ At("closeSocket")
    /\ socket' = "closed"
    /\ driver' = FALSE
    /\ todo' = CleanupOrder
    /\ Go("cleanup")
    /\ UNCHANGED <<error, applied, view, game, obj, run, signalled,
                   receiving, inbox, graceful, handshake, detached, gone, stale>>

\* The members are destroyed; at the end of an unwinding the client goes last.
Destroy ==
    /\ end = "alive" /\ stage \in {"destroy", "unwound"}
    /\ gone' = gone \cup {"antiDebugger", "monitorThread", "netClient"}
    /\ Go("unmap")
    /\ UNCHANGED <<error, applied, view, driver, game, threadVars, netVars, stale>>

Return ==
    /\ At("unmap")
    /\ view' = "unmapped"
    /\ Ends("return")
    /\ UNCHANGED <<error, applied, driver, game, threadVars, netVars, gone, stale>>

-----------------------------------------------------------------------------
(* The threads *)

Alive(t) == end = "alive" /\ run[t] = "running"
NullChecked == {"creation", "registry"}

\* The test at the head of a loop.  The pointer may not have been stored yet.
LoopTest(t) ==
    /\ Alive(t) /\ ~(t = "recv" /\ receiving)
    /\ t = "monitor" => view # "unmapped"
    /\ IF obj[t] = "new"
       THEN t \notin NullChecked /\ Ends("nullThread") /\ UNCHANGED <<run, receiving>>
       ELSE IF signalled[t]
       THEN run' = [run EXCEPT ![t] = "ended"] /\ UNCHANGED <<receiving, stage, end>>
       ELSE t = "recv" /\ receiving' = TRUE /\ UNCHANGED <<run, stage, end>>
    /\ UNCHANGED <<error, applied, view, driver, game, obj, signalled, todo,
                   inbox, socket, graceful, handshake, detached, gone, stale>>

\* A set-up that fails ends the thread (sections, COM, registry keys).
SetUpFails(t) ==
    /\ Alive(t) /\ ~signalled[t] /\ t \in {"monitor", "creation", "registry"}
    /\ run' = [run EXCEPT ![t] = "ended"]
    /\ UNCHANGED <<mainVars, obj, signalled, todo, netVars, gone, stale, end>>

\* The monitor reads the settings.
MonitorReads ==
    /\ Alive("monitor") /\ view = "unmapped"
    /\ Ends("readUnmapped")
    /\ UNCHANGED <<error, applied, view, driver, game, threadVars, netVars, gone, stale>>

UsedBy(t) == CASE t = "antidebug" -> "antiDebugger"
               [] t = "registry" -> "monitorThread"
               [] t \in Detached -> "netClient"

\* A thread that uses an object that has been destroyed.
UseDestroyed(t) ==
    /\ end = "alive" /\ UsedBy(t) \in gone
    /\ IF t \in Detached THEN t \in detached ELSE run[t] = "running"
    /\ t \notin stale
    /\ stale' = stale \cup {t}
    /\ UNCHANGED <<mainVars, threadVars, netVars, gone, end>>

\* recv() returns: data, the end of the stream, or an error.
Receive ==
    /\ Alive("recv") /\ receiving
    /\ \/ /\ inbox # "none" /\ socket # "closed"
          /\ handshake' = (handshake \/ inbox = "hello")
          /\ inbox' = "none" /\ receiving' = FALSE
          /\ UNCHANGED <<run, stage, end>>
       \/ /\ socket = "closed" \/ (inbox = "none" /\ socket = "peerClosed")
          /\ graceful
          /\ run' = [run EXCEPT !["recv"] = "ended"] /\ receiving' = FALSE
          /\ UNCHANGED <<inbox, handshake, stage, end>>
       \/ /\ socket = "closed" \/ (inbox = "none" /\ socket = "peerClosed")
          /\ ~graceful
          /\ Ends("exit")
          /\ UNCHANGED <<run, inbox, handshake, receiving>>
    /\ UNCHANGED <<error, applied, view, driver, game, obj, signalled, todo,
                   socket, graceful, detached, gone, stale>>

\* The server answers the hello, sends heartbeats, or closes the connection.
Server ==
    /\ end = "alive" /\ socket = "open"
    /\ \/ inbox = "none" /\ UNCHANGED socket
          /\ inbox' = IF handshake THEN "heartbeat" ELSE "hello"
       \/ socket' = "peerClosed" /\ UNCHANGED inbox
    /\ UNCHANGED <<mainVars, threadVars, receiving, graceful, handshake, detached,
                   gone, stale, end>>

Main ==
    \/ CheckFiles \/ MapSettings \/ CheckParent \/ ProtectSettings \/ PreInitialize
    \/ LoadDriver \/ InitializeParent \/ Connect \/ DetachThreads \/ DeployBarrier
    \/ \E t \in Managed : NewThread(t) \/ AssignThread(t)
    \/ CheckSignature \/ CheckSuspended \/ EarlyReturn \/ LaunchGame \/ Watch
    \/ SignalThread \/ JoinThread \/ Joined \/ Goodbye \/ CloseSocket \/ Destroy \/ Return

Threads ==
    \/ \E t \in Managed : LoopTest(t) \/ SetUpFails(t)
    \/ \E t \in {"antidebug", "registry"} \cup Detached : UseDestroyed(t)
    \/ MonitorReads \/ Receive

Over == end # "alive" /\ UNCHANGED vars

Next == Main \/ Threads \/ Server \/ Over

\* main() runs on, each loop comes round and recv() returns what there is.  Nobody
\* promises that the user stops the program or that the server sends.
Fairness ==
    /\ WF_vars(stage # "watch" /\ Main)
    /\ \A t \in Managed : WF_vars(LoopTest(t))
    /\ WF_vars(Receive)

Spec == Init /\ [][Next]_vars /\ Fairness

-----------------------------------------------------------------------------
(* What is checked *)

\* The game is launched only when every technique is in place and the receive thread and
\* the monitor were started: an error of one step of API::Initialize or LaunchDefenses
\* survives the success of the next ones.
GameIsGuarded ==
    game => applied = Techniques /\ obj["recv"] = "set" /\ obj["monitor"] = "set"

\* Nothing reads the settings after their view was unmapped (MapProtectedClass.hpp:87),
\* except when main() returns because a thread was found suspended.
SettingsOutliveReaders == end = "readUnmapped" => stage = "early"

\* After a normal stop only the detached threads of NetClient can meet a destroyed
\* object: main() and Cleanup have joined every thread that uses one.  (In the
\* unwinding of a failed start the anti-debug and registry threads can, too.)
StopJoinsFirst == graceful => stale \subseteq Detached

\* A normal stop ends the process, though the receive thread may sit in recv():
\* EndConnection comes before the join (main.cpp:556, API.cpp:164).
StopEnds == stage = "stopDebug" ~> end # "alive"

\* A start that fails ends the process, or waits in the destructor of Thread for the
\* receive thread and for nothing else: the connection is still open then.
FailedStartEnds ==
    stage = "unwind" ~> end # "alive" \/ (todo = <<"recv">> /\ receiving)

=============================================================================

------------------------ MODULE ClientLifecycle_proofs ------------------------
(* Proofs about ClientLifecycle, with the driver and without. *)
EXTENDS ClientLifecycle, Naturals, TLAPS

-----------------------------------------------------------------------------
(* Types, as far as the safety properties need them. *)

TypeInv ==
    /\ obj \in [Managed -> {"none", "new", "set", "failed"}]
    /\ run \in [Managed -> {"none", "running", "ended"}]
    /\ signalled \in [Managed -> BOOLEAN]
    /\ todo \in Seq(Managed)
    /\ error \in BOOLEAN /\ graceful \in BOOLEAN /\ game \in BOOLEAN
    /\ applied \subseteq Techniques

-----------------------------------------------------------------------------
(* The launch.  The error code is followed from the step that may set it to  *)
(* the last one that looks at it.                                            *)

\* Between DeployBarrier and the last look at the error code.
Guarding == {"monitor", "creation", "registry", "antidebug", "signature"}

\* What main() reaches with no error only: the launch, and the normal stop.
Guarded == {"suspended", "early", "launch", "watch", "stopDebug", "goodbye", "closeSocket",
            "cleanup", "destroy"}

GuardInv ==
    /\ stage \in {"detach", "barrier"} \cup Guarding \cup Guarded => obj["recv"] = "set"
    /\ stage \in Guarding /\ ~error => applied = Techniques
    /\ stage \in Guarding \ {"monitor"} /\ ~error => obj["monitor"] = "set"
    /\ stage \in Guarded => applied = Techniques /\ obj["monitor"] = "set"
    /\ game => stage \in {"watch", "stopDebug", "goodbye", "closeSocket", "cleanup", "destroy",
                          "unmap"}
    /\ GameIsGuarded

-----------------------------------------------------------------------------
(* The settings: while the process lives, only the early return of main()    *)
(* finds them unmapped.                                                      *)

SettingsInv ==
    /\ end = "alive" /\ view = "unmapped" => stage = "early"
    /\ SettingsOutliveReaders

-----------------------------------------------------------------------------
(* The stop.  What still runs during the clean-up is still to be joined, and *)
(* nothing is destroyed before that.                                         *)

StopInv ==
    /\ graceful => stage \in {"closeSocket", "cleanup", "destroy", "unmap"}
    /\ graceful /\ stage # "unmap" => gone = {} /\ stale = {}
    /\ stage \in {"files", "settings", "parent", "protect", "checks", "driver", "initialize",
                  "connect", "detach", "barrier", "signature"} \cup Managed \cup Guarded
          => gone = {} /\ stale = {}
    /\ stage = "cleanup" =>
          \A t \in Managed : run[t] = "running" => \E i \in DOMAIN todo : todo[i] = t
    /\ stage = "destroy" \/ (stage = "unmap" /\ graceful) =>
          \A t \in Managed : run[t] # "running"
    /\ StopJoinsFirst

-----------------------------------------------------------------------------

\* The orders in which threads are joined are sequences of threads.
LEMMA OrderType ==
    /\ UnwindOrder \in Seq(Managed) /\ CleanupOrder \in Seq(Managed)
    /\ <<"antidebug">> \in Seq(Managed)
  BY DEF UnwindOrder, CleanupOrder, Managed

\* Cleanup names every managed thread.
LEMMA CleanupJoinsAll == \A t \in Managed : \E i \in DOMAIN CleanupOrder : CleanupOrder[i] = t
<1>1. /\ CleanupOrder[1] = "antidebug" /\ CleanupOrder[2] = "monitor"
      /\ CleanupOrder[3] = "creation" /\ CleanupOrder[4] = "registry"
      /\ CleanupOrder[5] = "recv" /\ DOMAIN CleanupOrder = 1..5
  BY DEF CleanupOrder
<1> QED
  BY <1>1 DEF Managed

\* Every variable starts with a value of its type.
LEMMA InitTypes == Init => TypeInv
<1> SUFFICES ASSUME Init PROVE TypeInv
  OBVIOUS
<1>1. todo \in Seq(Managed)
  BY DEF Init
<1>2. obj \in [Managed -> {"none", "new", "set", "failed"}]
  BY DEF Init
<1>3. run \in [Managed -> {"none", "running", "ended"}] /\ signalled \in [Managed -> BOOLEAN]
  BY DEF Init
<1> QED
  BY <1>1, <1>2, <1>3 DEF Init, TypeInv

\* Every step keeps the types.
LEMMA TypeStep == TypeInv /\ [Next]_vars => TypeInv'
<1> SUFFICES ASSUME TypeInv, [Next]_vars PROVE TypeInv'
  OBVIOUS
<1> USE DEF TypeInv, mainVars, threadVars, netVars, At, Go, Ends, Throws
<1>1. CASE CheckFiles
  BY <1>1 DEF CheckFiles
<1>2. CASE MapSettings
  BY <1>2 DEF MapSettings
<1>3. CASE CheckParent
  BY <1>3 DEF CheckParent
<1>4. CASE ProtectSettings
  BY <1>4 DEF ProtectSettings
<1>5. CASE PreInitialize
  BY <1>5, OrderType DEF PreInitialize
<1>6. CASE LoadDriver
  BY <1>6, OrderType DEF LoadDriver
<1>7. CASE InitializeParent
  BY <1>7 DEF InitializeParent
<1>8. CASE Connect
  BY <1>8, OrderType DEF Connect
<1>9. CASE DetachThreads
  BY <1>9, OrderType DEF DetachThreads
<1>10. CASE DeployBarrier
  BY <1>10 DEF DeployBarrier
<1>11. CASE CheckSignature
  BY <1>11, OrderType DEF CheckSignature
<1>12. CASE CheckSuspended
  BY <1>12 DEF CheckSuspended
<1>13. CASE EarlyReturn
  BY <1>13 DEF EarlyReturn
<1>14. CASE LaunchGame
  BY <1>14 DEF LaunchGame
<1>15. CASE Watch
  BY <1>15, OrderType DEF Watch
<1>16. CASE SignalThread
  BY <1>16 DEF SignalThread, Joining
<1>17. CASE JoinThread
  BY <1>17 DEF JoinThread, Joining
<1>18. CASE Joined
  BY <1>18 DEF Joined, Joining
<1>19. CASE Goodbye
  BY <1>19 DEF Goodbye
<1>20. CASE CloseSocket
  BY <1>20, OrderType DEF CloseSocket
<1>21. CASE Destroy
  BY <1>21 DEF Destroy
<1>22. CASE Return
  BY <1>22 DEF Return
<1>23. CASE \E t \in Managed : NewThread(t)
  BY <1>23 DEF NewThread
<1>24. CASE \E t \in Managed : AssignThread(t)
  <2>1. PICK t \in Managed : AssignThread(t)
    BY <1>24
  <2>2. CASE t = "recv" /\ obj[t] = "failed"
    BY <2>1, <2>2, OrderType DEF AssignThread
  <2>3. CASE ~(t = "recv" /\ obj[t] = "failed")
    BY <2>1, <2>3 DEF AssignThread
  <2> QED
    BY <2>2, <2>3
<1>25. CASE \E t \in Managed : LoopTest(t)
  BY <1>25 DEF LoopTest, Alive
<1>26. CASE \E t \in Managed : SetUpFails(t)
  BY <1>26 DEF SetUpFails, Alive
<1>27. CASE \E t \in {"antidebug", "registry"} \cup Detached : UseDestroyed(t)
  BY <1>27 DEF UseDestroyed
<1>28. CASE MonitorReads
  BY <1>28 DEF MonitorReads, Alive
<1>29. CASE Receive
  <2>1. CASE UNCHANGED <<run, stage, end>>
    BY <1>29, <2>1 DEF Receive
  <2>2. CASE run' = [run EXCEPT !["recv"] = "ended"] /\ UNCHANGED <<stage, end>>
    BY <1>29, <2>2 DEF Receive, Managed
  <2>3. CASE UNCHANGED run /\ Ends("exit")
    BY <1>29, <2>3 DEF Receive
  <2> QED
    BY <1>29, <2>1, <2>2, <2>3 DEF Receive
<1>30. CASE Server
  BY <1>30 DEF Server
<1>31. CASE UNCHANGED vars
  BY <1>31 DEF vars
<1> HIDE DEF TypeInv, mainVars, threadVars, netVars, At, Go, Ends, Throws
<1> QED
  BY <1>1, <1>2, <1>3, <1>4, <1>5, <1>6, <1>7, <1>8, <1>9, <1>10, <1>11, <1>12, <1>13,
     <1>14, <1>15, <1>16, <1>17, <1>18, <1>19, <1>20, <1>21, <1>22, <1>23, <1>24, <1>25,
     <1>26, <1>27, <1>28, <1>29, <1>30, <1>31
  DEF Next, Main, Threads, Over

\* Every step keeps the guard: an error that a step sets is still there at the last look,
\* and main() passes that look with none.
LEMMA GuardStep == TypeInv /\ GuardInv /\ [Next]_vars => GuardInv'
<1> SUFFICES ASSUME TypeInv /\ GuardInv, [Next]_vars PROVE GuardInv'
  OBVIOUS
<1> USE DEF TypeInv, GuardInv, Guarding, Guarded, GameIsGuarded, Managed, mainVars,
     threadVars, netVars, At, Go, Ends, Throws
<1>1. CASE CheckFiles
  BY <1>1 DEF CheckFiles
<1>2. CASE MapSettings
  BY <1>2 DEF MapSettings
<1>3. CASE CheckParent
  BY <1>3 DEF CheckParent
<1>4. CASE ProtectSettings
  BY <1>4 DEF ProtectSettings
<1>5. CASE PreInitialize
  BY <1>5 DEF PreInitialize
<1>6. CASE LoadDriver
  BY <1>6 DEF LoadDriver
<1>7. CASE InitializeParent
  BY <1>7 DEF InitializeParent
<1>8. CASE Connect
  BY <1>8 DEF Connect
<1>9. CASE DetachThreads
  BY <1>9 DEF DetachThreads
<1>10. CASE DeployBarrier
  BY <1>10 DEF DeployBarrier
<1>11. CASE CheckSignature
  BY <1>11 DEF CheckSignature
<1>12. CASE CheckSuspended
  BY <1>12 DEF CheckSuspended
<1>13. CASE EarlyReturn
  BY <1>13 DEF EarlyReturn
<1>14. CASE LaunchGame
  BY <1>14 DEF LaunchGame
<1>15. CASE Watch
  BY <1>15 DEF Watch
<1>16. CASE SignalThread
  BY <1>16 DEF SignalThread, Joining
<1>17. CASE JoinThread
  BY <1>17 DEF JoinThread, Joining
<1>18. CASE Joined
  BY <1>18 DEF Joined, Joining
<1>19. CASE Goodbye
  BY <1>19 DEF Goodbye
<1>20. CASE CloseSocket
  BY <1>20 DEF CloseSocket
<1>21. CASE Destroy
  BY <1>21 DEF Destroy
<1>22. CASE Return
  BY <1>22 DEF Return
<1>23. CASE \E t \in Managed : NewThread(t)
  BY <1>23 DEF NewThread
<1>24. CASE \E t \in Managed : AssignThread(t)
  <2>1. PICK t \in Managed : AssignThread(t)
    BY <1>24
  <2>2. CASE t = "recv" /\ obj[t] = "failed"
    BY <2>1, <2>2 DEF AssignThread
  <2>3. CASE ~(t = "recv" /\ obj[t] = "failed")
    BY <2>1, <2>3 DEF AssignThread, AfterThread
  <2> QED
    BY <2>2, <2>3
<1>25. CASE \E t \in Managed : LoopTest(t)
  BY <1>25 DEF LoopTest, Alive
<1>26. CASE \E t \in Managed : SetUpFails(t)
  BY <1>26 DEF SetUpFails, Alive
<1>27. CASE \E t \in {"antidebug", "registry"} \cup Detached : UseDestroyed(t)
  BY <1>27 DEF UseDestroyed
<1>28. CASE MonitorReads
  BY <1>28 DEF MonitorReads, Alive
<1>29. CASE Receive
  BY <1>29 DEF Receive, Alive
<1>30. CASE Server
  BY <1>30 DEF Server
<1>31. CASE UNCHANGED vars
  BY <1>31 DEF vars
<1> HIDE DEF TypeInv, GuardInv, Guarding, Guarded, GameIsGuarded, Managed, mainVars,
     threadVars, netVars, At, Go, Ends, Throws
<1> QED
  BY <1>1, <1>2, <1>3, <1>4, <1>5, <1>6, <1>7, <1>8, <1>9, <1>10, <1>11, <1>12, <1>13,
     <1>14, <1>15, <1>16, <1>17, <1>18, <1>19, <1>20, <1>21, <1>22, <1>23, <1>24, <1>25,
     <1>26, <1>27, <1>28, <1>29, <1>30, <1>31
  DEF Next, Main, Threads, Over

\* Only main() unmaps the settings, and only at the suspended-thread check while the process
\* goes on.
LEMMA SettingsStep == SettingsInv /\ [Next]_vars => SettingsInv'
<1> SUFFICES ASSUME SettingsInv, [Next]_vars PROVE SettingsInv'
  OBVIOUS
<1> USE DEF SettingsInv, SettingsOutliveReaders, mainVars, threadVars, netVars, At, Go,
     Ends, Throws
<1>1. CASE CheckFiles
  BY <1>1 DEF CheckFiles
<1>2. CASE MapSettings
  BY <1>2 DEF MapSettings
<1>3. CASE CheckParent
  BY <1>3 DEF CheckParent
<1>4. CASE ProtectSettings
  BY <1>4 DEF ProtectSettings
<1>5. CASE PreInitialize
  BY <1>5 DEF PreInitialize
<1>6. CASE LoadDriver
  BY <1>6 DEF LoadDriver
<1>7. CASE InitializeParent
  BY <1>7 DEF InitializeParent
<1>8. CASE Connect
  BY <1>8 DEF Connect
<1>9. CASE DetachThreads
  BY <1>9 DEF DetachThreads
<1>10. CASE DeployBarrier
  BY <1>10 DEF DeployBarrier
<1>11. CASE CheckSignature
  BY <1>11 DEF CheckSignature
<1>12. CASE CheckSuspended
  BY <1>12 DEF CheckSuspended
<1>13. CASE EarlyReturn
  BY <1>13 DEF EarlyReturn
<1>14. CASE LaunchGame
  BY <1>14 DEF LaunchGame
<1>15. CASE Watch
  BY <1>15 DEF Watch
<1>16. CASE SignalThread
  BY <1>16 DEF SignalThread, Joining
<1>17. CASE JoinThread
  BY <1>17 DEF JoinThread, Joining
<1>18. CASE Joined
  BY <1>18 DEF Joined, Joining
<1>19. CASE Goodbye
  BY <1>19 DEF Goodbye
<1>20. CASE CloseSocket
  BY <1>20 DEF CloseSocket
<1>21. CASE Destroy
  BY <1>21 DEF Destroy
<1>22. CASE Return
  BY <1>22 DEF Return
<1>23. CASE \E t \in Managed : NewThread(t)
  BY <1>23 DEF NewThread
<1>24. CASE \E t \in Managed : AssignThread(t)
  BY <1>24 DEF AssignThread, AfterThread, Managed
<1>25. CASE \E t \in Managed : LoopTest(t)
  BY <1>25 DEF LoopTest, Alive
<1>26. CASE \E t \in Managed : SetUpFails(t)
  BY <1>26 DEF SetUpFails, Alive
<1>27. CASE \E t \in {"antidebug", "registry"} \cup Detached : UseDestroyed(t)
  BY <1>27 DEF UseDestroyed
<1>28. CASE MonitorReads
  BY <1>28 DEF MonitorReads, Alive
<1>29. CASE Receive
  BY <1>29 DEF Receive, Alive
<1>30. CASE Server
  BY <1>30 DEF Server
<1>31. CASE UNCHANGED vars
  BY <1>31 DEF vars
<1> HIDE DEF SettingsInv, SettingsOutliveReaders, mainVars, threadVars, netVars, At, Go,
     Ends, Throws
<1> QED
  BY <1>1, <1>2, <1>3, <1>4, <1>5, <1>6, <1>7, <1>8, <1>9, <1>10, <1>11, <1>12, <1>13,
     <1>14, <1>15, <1>16, <1>17, <1>18, <1>19, <1>20, <1>21, <1>22, <1>23, <1>24, <1>25,
     <1>26, <1>27, <1>28, <1>29, <1>30, <1>31
  DEF Next, Main, Threads, Over

\* Every step keeps the order of the stop: EndConnection, the joins, the destruction.
LEMMA StopStep == TypeInv /\ StopInv /\ [Next]_vars => StopInv'
<1> SUFFICES ASSUME TypeInv /\ StopInv, [Next]_vars PROVE StopInv'
  OBVIOUS
<1> USE DEF TypeInv, StopInv, Guarded, StopJoinsFirst, Managed, mainVars, threadVars,
     netVars, At, Go, Ends, Throws
<1>1. CASE CheckFiles
  BY <1>1 DEF CheckFiles
<1>2. CASE MapSettings
  BY <1>2 DEF MapSettings
<1>3. CASE CheckParent
  BY <1>3 DEF CheckParent
<1>4. CASE ProtectSettings
  BY <1>4 DEF ProtectSettings
<1>5. CASE PreInitialize
  BY <1>5 DEF PreInitialize
<1>6. CASE LoadDriver
  BY <1>6 DEF LoadDriver
<1>7. CASE InitializeParent
  BY <1>7 DEF InitializeParent
<1>8. CASE Connect
  BY <1>8 DEF Connect
<1>9. CASE DetachThreads
  BY <1>9 DEF DetachThreads
<1>10. CASE DeployBarrier
  BY <1>10 DEF DeployBarrier
<1>11. CASE CheckSignature
  BY <1>11 DEF CheckSignature
<1>12. CASE CheckSuspended
  BY <1>12 DEF CheckSuspended
<1>13. CASE EarlyReturn
  BY <1>13 DEF EarlyReturn
<1>14. CASE LaunchGame
  BY <1>14 DEF LaunchGame
<1>15. CASE Watch
  BY <1>15 DEF Watch
<1>16. CASE SignalThread
  BY <1>16 DEF SignalThread, Joining
<1>17. CASE JoinThread
  <2>1. todo \in Seq(Managed) /\ todo # <<>> /\ run[Head(todo)] # "running"
    BY <1>17 DEF JoinThread
  <2>2. /\ stage = "unwind" \/ gone' = gone
        /\ stage \in {"stopDebug", "cleanup", "unwind"}
        /\ todo' = Tail(todo) /\ run' = run /\ stage' = stage /\ stale' = stale
        /\ graceful' = graceful /\ end' = end
    BY <1>17 DEF JoinThread, Joining
  <2>3. ASSUME NEW t \in Managed, run[t] = "running", \E i \in DOMAIN todo : todo[i] = t
        PROVE  \E i \in DOMAIN todo' : todo'[i] = t
    <3>1. PICK i \in DOMAIN todo : todo[i] = t
      BY <2>3
    <3>2. i # 1
      BY <2>1, <2>3, <3>1
    <3>3. i - 1 \in DOMAIN Tail(todo) /\ Tail(todo)[i - 1] = t
      BY <2>1, <3>1, <3>2
    <3> QED
      BY <2>2, <3>3
  <2>4. stage' = "cleanup" =>
          \A t \in Managed : run'[t] = "running" => \E i \in DOMAIN todo' : todo'[i] = t
    BY <2>2, <2>3
  <2> QED
    BY <2>2, <2>4
<1>18. CASE Joined
  BY <1>18 DEF Joined, Joining
<1>19. CASE Goodbye
  BY <1>19 DEF Goodbye
<1>20. CASE CloseSocket
  BY <1>20, CleanupJoinsAll DEF CloseSocket
<1>21. CASE Destroy
  BY <1>21 DEF Destroy
<1>22. CASE Return
  BY <1>22 DEF Return
<1>23. CASE \E t \in Managed : NewThread(t)
  BY <1>23 DEF NewThread
<1>24. CASE \E t \in Managed : AssignThread(t)
  BY <1>24 DEF AssignThread, AfterThread
<1>25. CASE \E t \in Managed : LoopTest(t)
  BY <1>25 DEF LoopTest, Alive
<1>26. CASE \E t \in Managed : SetUpFails(t)
  BY <1>26 DEF SetUpFails, Alive
<1>27. CASE \E t \in {"antidebug", "registry"} \cup Detached : UseDestroyed(t)
  BY <1>27 DEF UseDestroyed
<1>28. CASE MonitorReads
  BY <1>28 DEF MonitorReads, Alive
<1>29. CASE Receive
  <2>1. CASE UNCHANGED <<run, stage, end>>
    BY <1>29, <2>1 DEF Receive
  <2>2. CASE run' = [run EXCEPT !["recv"] = "ended"] /\ UNCHANGED <<stage, end>>
    BY <1>29, <2>2 DEF Receive, Managed
  <2>3. CASE UNCHANGED run /\ Ends("exit")
    BY <1>29, <2>3 DEF Receive
  <2> QED
    BY <1>29, <2>1, <2>2, <2>3 DEF Receive
<1>30. CASE Server
  BY <1>30 DEF Server
<1>31. CASE UNCHANGED vars
  BY <1>31 DEF vars
<1> HIDE DEF TypeInv, StopInv, Guarded, StopJoinsFirst, Managed, mainVars, threadVars,
     netVars, At, Go, Ends, Throws
<1> QED
  BY <1>1, <1>2, <1>3, <1>4, <1>5, <1>6, <1>7, <1>8, <1>9, <1>10, <1>11, <1>12, <1>13,
     <1>14, <1>15, <1>16, <1>17, <1>18, <1>19, <1>20, <1>21, <1>22, <1>23, <1>24, <1>25,
     <1>26, <1>27, <1>28, <1>29, <1>30, <1>31
  DEF Next, Main, Threads, Over

-----------------------------------------------------------------------------

\* The game is never launched with a technique of the barrier missing or without the
\* receive thread and the monitor (API::LaunchDefenses, main.cpp:461).
THEOREM LaunchIsGuarded == Spec => []GameIsGuarded
<1>1. Init => TypeInv /\ GuardInv
  BY InitTypes DEF Init, GuardInv, GameIsGuarded, Guarding, Guarded
<1>2. TypeInv /\ GuardInv /\ [Next]_vars => (TypeInv /\ GuardInv)'
  BY TypeStep, GuardStep
<1>3. GuardInv => GameIsGuarded
  BY DEF GuardInv
<1> QED
  BY <1>1, <1>2, <1>3, PTL DEF Spec

\* The view of the settings outlives everybody who reads them, the early return of main()
\* excepted.
THEOREM SettingsOutlive == Spec => []SettingsOutliveReaders
<1>1. Init => SettingsInv
  BY DEF Init, SettingsInv, SettingsOutliveReaders
<1>2. SettingsInv /\ [Next]_vars => SettingsInv'
  BY SettingsStep
<1>3. SettingsInv => SettingsOutliveReaders
  BY DEF SettingsInv
<1> QED
  BY <1>1, <1>2, <1>3, PTL DEF Spec

\* In a normal stop every managed thread has ended before what it uses is destroyed.
THEOREM StopJoins == Spec => []StopJoinsFirst
<1>1. Init => TypeInv /\ StopInv
  BY InitTypes DEF Init, StopInv, StopJoinsFirst, Managed, Guarded
<1>2. TypeInv /\ StopInv /\ [Next]_vars => (TypeInv /\ StopInv)'
  BY TypeStep, StopStep
<1>3. StopInv => StopJoinsFirst
  BY DEF StopInv
<1> QED
  BY <1>1, <1>2, <1>3, PTL DEF Spec

=============================================================================

------------------------------- MODULE AntiDebug -------------------------------
(***************************************************************************)
(* The anti-debugging thread, the threads it starts to look at the debug   *)
(* registers of every other thread, and main(), which asks once whether    *)
(* one of its threads is suspended.  Both suspend threads to look at them. *)
(* A suspended thread keeps its locks: the heap's and the Logger's.        *)
(***************************************************************************)
EXTENDS Naturals, Sequences, FiniteSets

CONSTANTS
    Checks,     \* threads of _IsHardwareDebuggerPresent that may exist together
    Logging,    \* Settings::bEnableLogging
    Debuggers   \* the debuggers that may be attached, each a set of traces

Locks == IF Logging THEN {"heap", "console"} ELSE {"heap"}
Asked == <<"monitor", "creation", "debug", "recv">>      \* by IsAnyThreadSuspended, in turn
Workers == {Asked[i] : i \in DOMAIN Asked}              \* they allocate and log all the time
Threads == Workers \cup {"main"} \cup Checks

\* A thread that checks is none of the others, and a process has finitely many threads.
ASSUME ChecksAssumption ==
    IsFiniteSet(Checks) /\ Checks \cap (Workers \cup {"main", "none"}) = {}

\* A snapshot lists the threads of the process in the order of their creation.
ListsBefore(a, b) ==
    \/ a = "main" /\ b # "main"
    \/ a = "recv" /\ b \notin {"main", "recv"}
    \/ a = "monitor" /\ b \in {"creation", "debug"} \cup Checks
    \/ a = "creation" /\ b \in {"debug"} \cup Checks
    \/ a = "debug" /\ b \in Checks

\* What a debugger leaves behind: the BeingDebugged byte, a debug port, the flags of a heap
\* made under a debugger, the exception for an invalid handle, the inherit flag, the kernel's
\* debugger bit, Cheat Engine's VEH module and driver, a breakpoint that does not come back
\* as an exception, a process with a known name.
Traces == {"peb", "port", "heap", "handle", "inherit", "kernel", "veh", "dbk64",
           "breakpoint", "process"}
ASSUME TracesAssumption == Debuggers \subseteq SUBSET Traces

\* The flag a detection function adds, by the trace it looks at.  IsDebuggerPresent() looks at
\* the same byte as the function for the PEB, and adds no flag of its own.
AttachChecks(d) ==
    {f \in {"heapFlags", "closeHandle", "remote"} :
        [heapFlags |-> "heap", closeHandle |-> "handle", remote |-> "port"][f] \in d}
VehCheck(d) == {"veh"} \cap d
BreakCheck(d) == IF "breakpoint" \in d THEN {"dbgBreak"} ELSE {}
\* Mutant: the PEB is left to IsDebuggerPresent().
QueryChecksWithoutPeb(d) ==
    {f \in {"debugPort", "debugFlags"} :
        [debugPort |-> "port", debugFlags |-> "inherit"][f] \in d}
QueryChecks(d) ==
    {f \in {"peb", "debugPort", "debugFlags"} :
        [peb |-> "peb", debugPort |-> "port", debugFlags |-> "inherit"][f] \in d}
KernelChecks(d) == {"kernel"} \cap d
DriverCheck(d) == {"dbk64"} \cap d

VARIABLES
    debug,      \* CheckForDebugger: "none", "head", "wait", "run", "sleep", "ended"
    check,      \* each check: where it is, the thread it looks at, the threads still to look at
    count,      \* the suspend count of each thread
    holds,      \* the locks each thread holds
    probe,      \* main(): <<index>> into Asked, <<index, previous count>> after SuspendThread
    stage,      \* main(): "start", "probe", "watch", "join"
    signalled,  \* ShutdownSignalled of the detection thread
    flags,      \* the flags in the EvidenceLocker
    debugger,   \* the traces of the debugger that is attached
    end         \* "alive", or how the process ended

vars == <<debug, check, count, holds, probe, stage, signalled, flags, debugger, end>>
checkVars == <<check, count>>
mainVars == <<probe, stage, signalled>>

NoCheck == [at |-> "idle", on |-> "none", left |-> {}]

Init ==
    /\ debug = "none"
    /\ check = [h \in Checks |-> NoCheck]
    /\ count = [t \in Threads |-> 0]
    /\ holds = [t \in Threads |-> {}]
    /\ probe = <<>> /\ stage = "start" /\ signalled = FALSE
    /\ flags = {} /\ debugger = {} /\ end = "alive"

Runs(t) == end = "alive" /\ count[t] = 0
Free(l) == \A t \in Threads : l \notin holds[t]

\* A message is put in a string of the heap before Logger::log looks at enableLogging; the
\* file and the console are written under consoleMutex.
CanLog == Free("heap") /\ (Logging => Free("console"))

\* AddFlagged allocates a list node; no thread keeps the mutex of the list for long.
CanFlag == Free("heap")

-----------------------------------------------------------------------------
(* The other threads and their locks *)

Acquire(t, l) ==
    /\ Runs(t) /\ Free(l)
    /\ l = "console" => "heap" \notin holds[t]
    /\ t = "debug" => debug = "run"
    /\ holds' = [holds EXCEPT ![t] = @ \cup {l}]
    /\ UNCHANGED <<debug, checkVars, mainVars, flags, debugger, end>>

Release(t, l) ==
    /\ Runs(t) /\ l \in holds[t]
    /\ l # "heap" => "heap" \notin holds[t]
    /\ holds' = [holds EXCEPT ![t] = @ \ {l}]
    /\ UNCHANGED <<debug, checkVars, mainVars, flags, debugger, end>>

-----------------------------------------------------------------------------
(* CheckForDebugger *)

\* Mutant: the shutdown signal is not looked at.
LoopForever ==
    /\ Runs("debug") /\ debug = "head"
    /\ \/ \E h \in Checks :
            /\ check[h] = NoCheck
            /\ check' = [check EXCEPT ![h].at = "snapshot"]
            /\ debug' = "wait"
       \/ CanLog /\ debug' = "run" /\ UNCHANGED check
    /\ UNCHANGED <<count, holds, mainVars, flags, debugger, end>>

LoopHead ==
    /\ Runs("debug") /\ debug = "head"
    /\ IF signalled
       THEN debug' = "ended" /\ UNCHANGED check
       ELSE \/ \E h \in Checks :
                 /\ check[h] = NoCheck
                 /\ check' = [check EXCEPT ![h].at = "snapshot"]
                 /\ debug' = "wait"
            \/ /\ CanLog                                 \* CreateThread has failed
               /\ debug' = "run" /\ UNCHANGED check
    /\ UNCHANGED <<count, holds, mainVars, flags, debugger, end>>

\* The check has ended, or two seconds have passed.
WaitEnds ==
    /\ Runs("debug") /\ debug = "wait"
    /\ debug' = "run"
    /\ UNCHANGED <<checkVars, holds, mainVars, flags, debugger, end>>

\* InitializeVEH is patched, and the module may get another name, by which it is not found.
AfterVeh(d) == {d, d \ {"veh"}}

\* A thread in a debugger's process that calls ExitProcess, where the process can be opened.
AfterExitCommonDebuggers(d) == {d, d \ {"process"}}

\* RunDetectionFunctions in the order of DetectionFunctionList, and IsDBK64DriverLoaded.
\* __fastfail ends the process when the breakpoint of DebugBreak() does not come back.
RunDetectionFunctions ==
    /\ Runs("debug") /\ debug = "run" /\ holds["debug"] = {} /\ CanFlag
    /\ LET first == AttachChecks(debugger) \cup VehCheck(debugger) \cup BreakCheck(debugger)
           second == QueryChecks(debugger) \cup KernelChecks(debugger) \cup DriverCheck(debugger)
       IN IF BreakCheck(debugger) # {}
          THEN /\ flags' = flags \cup first
               /\ debugger' \in AfterVeh(debugger)
               /\ end' = "fastfail" /\ UNCHANGED debug
          ELSE /\ flags' = flags \cup first \cup second
               /\ debugger' \in UNION {AfterExitCommonDebuggers(d) : d \in AfterVeh(debugger)}
               /\ debug' = "sleep" /\ UNCHANGED end
    /\ UNCHANGED <<checkVars, holds, mainVars>>

Sleep ==
    /\ Runs("debug") /\ debug = "sleep"
    /\ debug' = "head"
    /\ UNCHANGED <<checkVars, holds, mainVars, flags, debugger, end>>

\* A debugger is attached at any time.
Attach ==
    /\ end = "alive" /\ debugger = {}
    /\ debugger' \in Debuggers
    /\ UNCHANGED <<debug, checkVars, holds, mainVars, flags, end>>

-----------------------------------------------------------------------------
(* _IsHardwareDebuggerPresent *)

Living == Threads \ ({h \in Checks : check[h] = NoCheck}
                     \cup (IF debug \in {"none", "ended"} THEN {"debug"} ELSE {}))

\* Mutant: the check does not leave itself out.
SnapshotWithSelf(h) ==
    /\ Runs(h) /\ check[h].at = "snapshot"
    /\ check' = [check EXCEPT ![h] = [at |-> "next", on |-> "none", left |-> Living]]
    /\ UNCHANGED <<debug, count, holds, mainVars, flags, debugger, end>>

Snapshot(h) ==
    /\ Runs(h) /\ check[h].at = "snapshot"
    /\ \/ check' = [check EXCEPT ![h] = [at |-> "next", on |-> "none", left |-> Living \ {h}]]
       \/ CanLog /\ check' = [check EXCEPT ![h] = NoCheck]
    /\ UNCHANGED <<debug, count, holds, mainVars, flags, debugger, end>>

\* SuspendThread and GetThreadContext: no debug register is set, one is, or the call fails.
SuspendNext(h) ==
    /\ Runs(h) /\ check[h].at = "next"
    /\ \E t \in check[h].left :
         /\ t \in Living
         /\ \A u \in check[h].left : ~ListsBefore(u, t)
         /\ \E seen \in {"clean", "set", "failed"} :
              check' = [check EXCEPT ![h] = [at |-> seen, on |-> t, left |-> @.left \ {t}]]
         /\ count' = [count EXCEPT ![t] = @ + 1]
    /\ UNCHANGED <<debug, holds, mainVars, flags, debugger, end>>

\* OpenThread fails, for a thread that has ended or for another reason.
SkipThread(h) ==
    /\ Runs(h) /\ check[h].at = "next" /\ CanLog
    /\ \E t \in check[h].left :
         /\ \A u \in check[h].left : ~ListsBefore(u, t)
         /\ check' = [check EXCEPT ![h].left = @ \ {t}]
    /\ UNCHANGED <<debug, count, holds, mainVars, flags, debugger, end>>

\* Mutant: a thread without a context is not resumed.
ForgetToResume(h) ==
    /\ Runs(h) /\ check[h].at \in {"clean", "set", "failed"}
    /\ check[h].at # "clean" => CanLog
    /\ count' = [count EXCEPT ![check[h].on] = IF check[h].at = "failed" THEN @ ELSE @ - 1]
    /\ check' = [check EXCEPT ![h] = [at |-> IF @.at = "set" THEN "flag" ELSE "next",
                                      on |-> "none", left |-> @.left]]
    /\ UNCHANGED <<debug, holds, mainVars, flags, debugger, end>>

\* The message of a hit or a failure is logged before the thread is resumed.
ResumeThread(h) ==
    /\ Runs(h) /\ check[h].at \in {"clean", "set", "failed"}
    /\ check[h].at # "clean" => CanLog
    /\ count' = [count EXCEPT ![check[h].on] = @ - 1]
    /\ check' = [check EXCEPT ![h] = [at |-> IF @.at = "set" THEN "flag" ELSE "next",
                                      on |-> "none", left |-> @.left]]
    /\ UNCHANGED <<debug, holds, mainVars, flags, debugger, end>>

\* Mutant: a hit is only logged.
LogRegisters(h) ==
    /\ Runs(h) /\ check[h].at = "flag" /\ CanFlag
    /\ check' = [check EXCEPT ![h] = NoCheck]
    /\ UNCHANGED <<debug, count, holds, mainVars, flags, debugger, end>>

\* A hit is flagged and ends the check; so does the end of the snapshot.
FlagRegisters(h) ==
    /\ Runs(h) /\ check[h].at = "flag" /\ CanFlag
    /\ flags' = flags \cup {"registers"}
    /\ check' = [check EXCEPT ![h] = NoCheck]
    /\ UNCHANGED <<debug, count, holds, mainVars, debugger, end>>

CheckEnds(h) ==
    /\ Runs(h) /\ check[h].at = "next" /\ check[h].left = {}
    /\ check' = [check EXCEPT ![h] = NoCheck]
    /\ UNCHANGED <<debug, count, holds, mainVars, flags, debugger, end>>

-----------------------------------------------------------------------------
(* main() *)

\* StartAntiDebugThread is the last thing before main() asks for suspended threads.
StartAntiDebugThread ==
    /\ Runs("main") /\ stage = "start"
    /\ debug' = "head" /\ stage' = "probe" /\ probe' = <<1>>
    /\ UNCHANGED <<checkVars, holds, signalled, flags, debugger, end>>

NextProbe == IF probe[1] = Len(Asked) THEN <<>> ELSE <<probe[1] + 1>>

\* Thread::IsThreadSuspended: the count before SuspendThread is the answer.
ProbeSuspends ==
    /\ Runs("main") /\ stage = "probe" /\ Len(probe) = 1
    /\ probe' = Append(probe, count[Asked[probe[1]]])
    /\ count' = [count EXCEPT ![Asked[probe[1]]] = @ + 1]
    /\ UNCHANGED <<debug, check, holds, stage, signalled, flags, debugger, end>>

ProbeResumes ==
    /\ Runs("main") /\ stage = "probe" /\ Len(probe) = 2
    /\ count' = [count EXCEPT ![Asked[probe[1]]] = @ - 1]
    /\ IF probe[2] > 0
       THEN end' = "suspended" /\ UNCHANGED <<probe, stage>>
       ELSE /\ probe' = NextProbe
            /\ stage' = IF probe' = <<>> THEN "watch" ELSE stage
            /\ UNCHANGED end
    /\ UNCHANGED <<debug, check, holds, signalled, flags, debugger>>

\* The user ends the program.
SignalShutdown ==
    /\ Runs("main") /\ stage = "watch"
    /\ signalled' = TRUE /\ stage' = "join"
    /\ UNCHANGED <<debug, checkVars, holds, probe, flags, debugger, end>>

JoinThread ==
    /\ Runs("main") /\ stage = "join" /\ debug = "ended"
    /\ end' = "joined"
    /\ UNCHANGED <<debug, checkVars, holds, mainVars, flags, debugger>>

Check(h) ==
    \/ Snapshot(h) \/ SuspendNext(h) \/ SkipThread(h)
    \/ ResumeThread(h) \/ FlagRegisters(h) \/ CheckEnds(h)

CheckForDebugger == LoopHead \/ WaitEnds \/ RunDetectionFunctions \/ Sleep

Main == StartAntiDebugThread \/ ProbeSuspends \/ ProbeResumes \/ SignalShutdown \/ JoinThread

Over == end # "alive" /\ UNCHANGED vars

Next ==
    \/ Main \/ CheckForDebugger \/ Attach \/ Over
    \/ \E h \in Checks : Check(h)
    \/ \E t \in Workers, l \in Locks : Acquire(t, l) \/ Release(t, l)

\* A thread that is resumed again and again runs again and again: Windows schedules it.
Fairness ==
    /\ \A h \in Checks : SF_vars(Check(h))
    /\ SF_vars(LoopHead \/ RunDetectionFunctions \/ Sleep) /\ SF_vars(WaitEnds)
    /\ SF_vars(ProbeResumes \/ JoinThread)
    /\ SF_vars(\E t \in Workers, l \in Locks : Release(t, l))

Spec == Init /\ [][Next]_vars /\ Fairness

-----------------------------------------------------------------------------
(* What is checked *)

\* Between the checks every thread runs: whatever a check met, and however checks and
\* IsThreadSuspended overlap, each took back what it suspended (Thread.cpp:61 calls the
\* suspension very brief).
IdleMeansRunning ==
    (\A h \in Checks : check[h].on = "none") /\ Len(probe) < 2 =>
        \A t \in Threads : count[t] = 0

\* A lock that somebody needs is held by a thread that does not run.
Wedged == \E t \in Threads : holds[t] # {} /\ count[t] > 0

\* A check that never ends is kept by one thing only: a suspended thread that holds a lock
\* the message of line 127 or 141 needs.  AntiDebugger.cpp:61 waits two seconds for it.
CheckEndsUnlessWedged ==
    \A h \in Checks : <>[](end = "alive" /\ check[h].at # "idle") => <>[]Wedged

\* The join of the detection thread comes back, though checks that suspend it may overlap.
JoinEndsUnlessWedged == <>[](end = "alive" /\ stage = "join") => <>[]Wedged

\* A debugger that leaves a trace some function looks at is flagged in one of the next rounds,
\* or the process ends, whatever the checks suspend: the header says of the functions that
\* "detected flags are already set in each routine" (AntiDebugger.hpp:73).
Flagged(t) ==
    flags \cap (AttachChecks({t}) \cup VehCheck({t}) \cup BreakCheck({t})
               \cup QueryChecks({t}) \cup KernelChecks({t}) \cup DriverCheck({t})) # {}
AllFlagged == \A t \in debugger \ {"process"} : Flagged(t)
DebuggerIsFlagged ==
    debug # "none" /\ ~AllFlagged ~> AllFlagged \/ end # "alive" \/ signalled \/ Wedged

\* A debug register that was seen is flagged, too.
HitIsFlagged ==
    \A h \in Checks : check[h].at = "set" ~> "registers" \in flags \/ end # "alive" \/ Wedged

=============================================================================

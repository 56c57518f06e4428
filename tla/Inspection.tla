------------------------------- MODULE Inspection -------------------------------
(***************************************************************************)
(* The rounds of Detections::Monitor over the process that the barrier     *)
(* has left, beside the threads for new processes and for the registry.    *)
(* Tampering is a set of traces; the checks look at what Windows shows of  *)
(* them.  How a report reaches the server is in module Detections.         *)
(***************************************************************************)
EXTENDS Barrier, Integrity

CONSTANTS
    Before,         \* those that may be there from the start
    Traces,         \* what somebody does to the process or runs beside it
    MaxTraces,      \* bound: how much of it
    Settings,       \* the checks that Config turns on: "integrity", "hypervisor"
    TextBlocks,     \* blocks of a .text section
    MonitorBlock,   \* the block of the function Monitor
    RandomBlocks,   \* the blocks it may pick for its own comparison
    SetupFaults     \* what may fail when the threads are set up or the web is read

VARIABLES
    world,          \* the traces there are
    parent,         \* whether the launcher runs: "runs" or "gone"
    whitelist,      \* Integrity::WhitelistedModules, by base name
    moduleHashes,   \* Integrity::ModuleHashes
    patterns,       \* Detections::BlacklistedBytePatterns
    names,          \* Detections::BlacklistedProcesses
    keywords,       \* Detections::BlacklistedKeywords
    queue,          \* DLLVerificationQueue
    monitor,        \* the thread of Monitor: "none", "round"
    step,           \* the check it comes to
    shouldFlag,     \* whether this round may report
    baseline,       \* the hashes it took at its start
    creation,       \* the thread for new processes: "none", "loop", "over"
    spawned,        \* the processes Windows has told it of
    scanned,        \* those it has looked at
    registry,       \* the thread for the registry: "none", "loop", "over"
    key,            \* each key: "off", "watched", "changed"
    setupFault,     \* what fails, or "none"
    reports         \* the checks that have added a flag

\* The linker gives code these characteristics.
ASSUME CodeAssumption == Access[".text"] = {"r", "x"} /\ TextBlocks \in Nat

roundVars == <<monitor, step, shouldFlag, baseline, queue>>
listVars == <<whitelist, moduleHashes, patterns, names, keywords>>
threadVars == <<creation, spawned, scanned, registry, key, setupFault>>
inspectVars == <<world, parent, listVars, roundVars, threadVars, reports>>
vars == <<barrierVars, inspectVars>>

Keys == 1..2

-----------------------------------------------------------------------------
(* What Windows shows *)

Self == 100
Launcher == 50
If(trace, s) == IF trace \in world THEN s ELSE <<>>

Program(pid, name) ==
    [NoProcess EXCEPT !.pid = pid, !.name = name, !.open = TRUE, !.text = <<1, 2, 3, 4>>,
        !.modules = <<[NoModule EXCEPT !.name = name, !.base = 1, !.size = 10,
                           !.sections = <<[name |-> ".text", at |-> 1, size |-> 4]>>]>>]

Processes ==
    <<NoProcess, [NoProcess EXCEPT !.pid = 4, !.name = "System"]>>
    \o (IF parent = "runs" THEN <<Program(Launcher, "launcher.exe")>> ELSE <<>>)
    \o <<Program(60, "csrss.exe"), [Program(Self, "game.exe") EXCEPT !.parent = Launcher]>>
    \o If("listedProcess", <<Program(200, "cheatengine.exe")>>)
    \o If("keywordProcess", <<Program(201, "mytrainer.exe")>>)
    \o If("cheatHandle", <<Program(202, "tool.exe")>>)
    \o If("scannedProcess", <<[Program(203, "harmless.exe") EXCEPT !.text = <<7, 7, 9, 7>>]>>)

\* Windows and the launcher hold handles of the process from its start.
AllHandles ==
    {[owner |-> Launcher, target |-> Self], [owner |-> 60, target |-> Self],
     [owner |-> 4, target |-> Self], [owner |-> 60, target |-> 4]}
    \cup (IF "cheatHandle" \in world THEN {[owner |-> 202, target |-> Self]} ELSE {})

SectionHeaders ==
    <<[name |-> ".text", at |-> 1, size |-> TextBlocks], [name |-> ".rdata", at |-> 5, size |-> 2],
      [name |-> ".data", at |-> 7, size |-> 2]>>
Module(name, base, signed) ==
    [NoModule EXCEPT !.name = name, !.path = name, !.base = base, !.size = 10, !.signed = signed,
        !.sections = SectionHeaders]

Executable ==
    [Module("game.exe", 1000, FALSE) EXCEPT !.text = memory[".text"],
        !.path = IF "name" \in done THEN "random" ELSE @]
Wintrust ==
    [Module("WINTRUST.dll", 1200, TRUE) EXCEPT
        !.text = (IF "wintrust" \in world THEN {1} ELSE {})]
Modules ==
    <<Executable, Module("ntdll.dll", 1100, TRUE), Wintrust, Module("ws2_32.dll", 1300, TRUE)>>
    \o If("unsignedDll", <<Module("cheat.dll", 1400, FALSE)>>)
    \o If("namesakeDll", <<[Module("ws2_32.dll", 1500, FALSE) EXCEPT !.path = "other"]>>)
    \o If("signedDll", <<Module("overlay.dll", 1600, TRUE)>>)

\* An import may lead to another module than it names.
Imports ==
    <<<<"ntdll.dll", 1101>>,
      <<"ws2_32.dll", CASE "iatHook" \in world -> 5000
                        [] "iatForward" \in world -> 1101
                        [] OTHER -> 1301>>>>

\* The first bytes of send in ws2_32.dll.
SendOpcode ==
    CASE "jmpHook" \in world -> "jmp" [] "pushHook" \in world -> "push" [] OTHER -> "mov"

Tls == [at |-> (CASE "tlsGone" \in world -> 0 [] "tlsMoved" \in world -> 5000 [] OTHER -> 1008),
        callbacks |-> <<IF "tlsForeign" \in world THEN 5000 ELSE 1002>>
                      \o If("tlsExtra", <<1003>>)]

\* Committed memory with what QueryWorkingSetEx and its first bytes say.  The settings are in a
\* view of their own that may be executed.
Region(base, execute, shared, start) ==
    [base |-> base, execute |-> execute, shared |-> shared, start |-> start]
MemoryRegions ==
    {Region(Modules[i].base, TRUE, FALSE, "pe") : i \in DOMAIN Modules}
    \cup {Region(3000, TRUE, TRUE, "code")}
    \cup (IF region = NoCopy THEN {} ELSE {Region(3100, TRUE, FALSE, "pe")})
    \cup (IF "mapped" \in world THEN {Region(3200, TRUE, FALSE, "pe")} ELSE {})
    \cup (IF "erased" \in world THEN {Region(3300, TRUE, FALSE, "code")} ELSE {})
    \cup (IF "mappedData" \in world THEN {Region(3400, FALSE, FALSE, "pe")} ELSE {})

DiscText == IF "disc" \in world THEN {1} ELSE {}

Contains == {<<"mytrainer.exe", "trainer">>}

-----------------------------------------------------------------------------
(* The checks *)

AllowedParents == {"launcher.exe"}
ShouldFlag ==
    \/ IsAllowedProcess(Processes, Self, AllowedParents)
    \/ IsAllowedProcess(Processes, GetParentProcessId(Processes, Self), AllowedParents)

\* A region that begins with zeros or is not private is left alone.
DetectManualMapping ==
    {r \in MemoryRegions :
        /\ r.execute /\ ~IsAddressInModule(Modules, r.base)
        /\ IsPEHeader(r.start) \/ (~r.shared /\ r.start = "code")}

DoesFunctionAppearHooked == SendOpcode \in {"call", "jmp"}

IsTextSectionWritable ==
    /\ GetSectionAddress(Executable, ".text", numSections) # 0
    /\ GetTextSectionSize(Executable, HeaderCount) > 0
    /\ access[".text"] # {"r", "x"}

IsBlacklistedWindowPresent == "window" \in world
IsHypervisorPresent == "hypervisor" \in world
IsTestsigningOrDebugMode == "testsigning" \in world \/ "debugMode" \in world

\* A block of the first part of .text, found by the count of the header.
InRandomBlock(changed, block) ==
    GetTextSectionSize(Executable, HeaderCount) > 0 /\ block \in changed

Checks == <<"hypervisor", "tls", "text", "disc", "wintrust", "mapped", "process", "hooks",
            "unknown", "testsigning", "iat", "writable", "handles", "window", "self", "random">>
IntegrityChecks == {"tls", "text", "disc"}

\* What is reported although the parent is none of the allowed ones.
Unconditional == {"hypervisor", "mapped", "process", "window", "self", "random"}

Enabled(c) ==
    /\ c \in IntegrityChecks => "integrity" \in Settings
    /\ c = "hypervisor" => "hypervisor" \in Settings

Found(c) ==
    CASE c = "hypervisor" -> IsHypervisorPresent
      [] c = "tls" -> IsTLSCallbackStructureModified(Executable, Tls)
      [] c = "text" -> ~Check(memory[".text"], baseline.text)
      [] c = "disc" -> ~CheckFileIntegrityFromDisc(DiscText, baseline.text)
      [] c = "wintrust" ->
            IsModuleModified(Modules, "WINTRUST.dll", moduleHashes, numSections)
      [] c = "mapped" -> DetectManualMapping # {}
      [] c = "process" -> IsBlacklistedProcessRunning(Processes, names, keywords, Contains)
      [] c = "hooks" -> DoesFunctionAppearHooked
      [] c = "unknown" -> IsUnknownModulePresent(Modules, whitelist)
      [] c = "testsigning" -> IsTestsigningOrDebugMode
      [] c = "iat" -> DoesIATContainHooked(Modules, Imports)
      [] c = "writable" -> IsTextSectionWritable
      [] c = "handles" -> CheckOpenHandles(Processes, AllHandles, Self)
      [] c = "window" -> IsBlacklistedWindowPresent
      [] c = "self" -> (MonitorBlock \in memory[".text"]) # baseline.self
      [] c = "random" -> InRandomBlock(memory[".text"], baseline.block) # baseline.random

-----------------------------------------------------------------------------
(* Detections::Detections, and the barrier after it *)

NoBaseline == [text |-> <<>>, self |-> FALSE, block |-> 1, random |-> FALSE]
StaticNames == {"cheatengine.exe"}
StaticKeywords == {"trainer"}

InspectInit ==
    /\ setupFault \in SetupFaults \cup {"none"} /\ world \in {{}} \cup {{x} : x \in Before}
    /\ Cardinality({setupFault, fault} \ {"none"}) + Cardinality(world) <= 1
    /\ parent = "runs" /\ reports = {}
    /\ whitelist = {} /\ moduleHashes = <<>> /\ patterns = {}
    /\ names = {} /\ keywords = {} /\ queue = <<>>
    /\ monitor = "none" /\ step = 0 /\ shouldFlag = FALSE /\ baseline = NoBaseline
    /\ creation = "none" /\ spawned = {} /\ scanned = {} /\ registry = "none"
    /\ key = [k \in Keys |-> "off"]

\* The module hashes are taken after NumSections is set, from the header's count.  What is loaded
\* by now is taken for known.  The patterns come from the web.
Construct ==
    /\ CountSections
    /\ whitelist' = {m.name : m \in Listed(Modules)}
    /\ moduleHashes' = GetModuleHashes(Modules, numSections')
    /\ patterns' = IF setupFault = "patterns" THEN {} ELSE {<<7, 9>>}
    /\ names' = StaticNames /\ keywords' = StaticKeywords
    /\ UNCHANGED <<world, parent, roundVars, threadVars, reports>>

BarrierStep ==
    /\ Deploy \/ (at # "count" /\ (monitor = "round" => fault = "none") /\ Others)
    /\ UNCHANGED inspectVars

-----------------------------------------------------------------------------
(* Detections::Monitor *)

Running == Alive /\ monitor = "round"

\* Bound: how the workers are when the barrier is done makes no difference to the rounds.
Quiet ==
    /\ writes = 0 /\ \A t \in Workers : worker[t] = "image"
    /\ fault # "none" => memory[".text"] = {}

\* StartMonitor, and what Monitor does before its loop.
StartMonitor ==
    /\ Alive /\ at = "done" /\ monitor = "none" /\ Quiet
    /\ \E block \in RandomBlocks :
        baseline' = [text |-> GetMemoryHash(memory[".text"], TextBlocks),
                     self |-> MonitorBlock \in memory[".text"], block |-> block,
                     random |-> InRandomBlock(memory[".text"], block)]
    /\ monitor' = "round" /\ creation' = "start" /\ registry' = "start"
    /\ UNCHANGED <<barrierVars, world, parent, listVars, step, shouldFlag, queue, spawned,
                   scanned, key, setupFault, reports>>

Report(c, found) == reports' = IF found THEN reports \cup {c} ELSE reports

\* CheckDLLSignature empties the queue, and the round asks for its parent.
StartRound ==
    /\ Running /\ step = 0
    /\ Report("signature", \E i \in DOMAIN queue : ~queue[i].signed)
    /\ queue' = <<>>
    /\ shouldFlag' = ShouldFlag
    /\ step' = 1
    /\ UNCHANGED <<barrierVars, world, parent, listVars, monitor, baseline, threadVars>>

Inspect ==
    /\ Running /\ step \in DOMAIN Checks
    /\ LET c == Checks[step]
       IN /\ Report(c, Enabled(c) /\ Found(c) /\ (shouldFlag \/ c \in Unconditional))
          /\ whitelist' = IF c = "unknown" THEN WhitelistAfter(Modules, whitelist) ELSE whitelist
    /\ step' = step + 1
    /\ UNCHANGED <<barrierVars, world, parent, moduleHashes, patterns, names, keywords, monitor,
                   shouldFlag, baseline, queue, threadVars>>

\* UpdateBlacklistsFromServer after every round, as nothing counts the rounds.  What can be read
\* replaces both lists, and a list there need not have keywords.
UpdateBlacklistsFromServer ==
    /\ Running /\ step = Len(Checks) + 1
    /\ step' = 0
    /\ \/ UNCHANGED <<names, keywords>>
       \/ /\ names' = StaticNames
          /\ keywords' = IF setupFault = "keywords" THEN {} ELSE StaticKeywords
    /\ UNCHANGED <<barrierVars, world, parent, whitelist, moduleHashes, patterns, monitor,
                   shouldFlag, baseline, queue, threadVars, reports>>

-----------------------------------------------------------------------------
(* Detections::MonitorProcessCreation *)

SetUpCreation ==
    /\ Running /\ creation = "start"
    /\ creation' = IF setupFault = "wmi" THEN "over" ELSE "loop"
    /\ UNCHANGED <<barrierVars, world, parent, listVars, roundVars, spawned, scanned, registry, key,
                   setupFault, reports>>

\* One event.  The name is only logged; a pattern longer than the section reads on behind it.
ScanNewProcess ==
    /\ Running /\ creation = "loop"
    /\ \E pid \in spawned \ scanned :
        LET found == FindBlacklistedProgramsThroughByteScan(Processes, pid, patterns)
        IN /\ scanned' = scanned \cup {pid}
           /\ Report("scan", "found" \in found)
    /\ UNCHANGED <<barrierVars, world, parent, listVars, roundVars, creation, spawned, registry, key,
                   setupFault>>

-----------------------------------------------------------------------------
(* Detections::MonitorImportantRegistryKeys *)

\* The keys are opened in their order, and what was opened is left open when one fails.  This
\* thread is the last that is started.
SetUpRegistry ==
    /\ Running /\ registry = "start" /\ creation # "start"
    /\ IF setupFault = "key"
       THEN registry' = "over" /\ UNCHANGED key
       ELSE registry' = "loop" /\ key' = [k \in Keys |-> "watched"]
    /\ UNCHANGED <<barrierVars, world, parent, listVars, roundVars, creation, spawned, scanned, setupFault,
                   reports>>

\* The first event that is set; then the notification is registered again.
WaitForKey ==
    /\ Running /\ registry = "loop"
    /\ \E k \in Keys :
        /\ key[k] = "changed" /\ \A j \in 1..(k - 1) : key[j] # "changed"
        /\ Report("registry", ShouldFlag)
        /\ key' = [key EXCEPT ![k] = "watched"]
    /\ UNCHANGED <<barrierVars, world, parent, listVars, roundVars, creation, spawned, scanned, registry,
                   setupFault>>

-----------------------------------------------------------------------------
(* Somebody else *)

Dlls == {"unsignedDll", "namesakeDll", "signedDll"}
Programs == {"listedProcess", "keywordProcess", "cheatHandle", "scannedProcess"}
Loaded(x) ==
    CASE x = "unsignedDll" -> Module("cheat.dll", 1400, FALSE)
      [] x = "namesakeDll" -> Module("ws2_32.dll", 1500, FALSE)
      [] x = "signedDll" -> Module("overlay.dll", 1600, TRUE)
Pid(x) == CHOOSE n \in 200..203 :
    n = CASE x = "listedProcess" -> 200 [] x = "keywordProcess" -> 201
          [] x = "cheatHandle" -> 202 [] OTHER -> 203

\* Bound: one thing at a time goes wrong.
Concerned ==
    CASE setupFault \in {"patterns", "wmi"} -> {"scannedProcess"}
      [] setupFault = "keywords" -> {"keywordProcess"}
      [] setupFault = "key" -> {"key"}
      [] OTHER -> Traces \cup {"key"}
MayTamper(x) ==
    /\ Running /\ fault = "none" /\ x \in Concerned
    /\ x \notin world /\ Cardinality(world) < MaxTraces

\* OnDllNotification queues a module; Windows tells of a process once somebody asks.
Tamper(x) ==
    /\ MayTamper(x)
    /\ world' = world \cup {x}
    /\ queue' = IF x \in Dlls THEN Append(queue, Loaded(x)) ELSE queue
    /\ spawned' = IF x \in Programs /\ creation = "loop" THEN spawned \cup {Pid(x)} ELSE spawned
    /\ UNCHANGED <<barrierVars, parent, listVars, monitor, step, shouldFlag, baseline, creation,
                   scanned, registry, key, setupFault, reports>>

\* The image is unmapped once more, and mapped again so that it can be written.
RemapWritable ==
    /\ MayTamper("writable") /\ view[".text"] = "locked"
    /\ world' = world \cup {"writable"}
    /\ view' = [view EXCEPT ![".text"] = "image"]
    /\ access' = [access EXCEPT ![".text"] = {"r", "w", "x"}]
    /\ UNCHANGED <<at, numSections, memory, copyVars, done, retError, fault, worker, writes, end,
                   parent, listVars, roundVars, threadVars, reports>>

ChangeKey(k) ==
    /\ MayTamper("key") /\ key[k] = "watched"
    /\ world' = world \cup {"key"}
    /\ key' = [key EXCEPT ![k] = "changed"]
    /\ UNCHANGED <<barrierVars, parent, listVars, roundVars, creation, spawned, scanned, registry,
                   setupFault, reports>>

ParentExits ==
    /\ Running /\ fault = "none" /\ setupFault = "none" /\ parent = "runs"
    /\ parent' = "gone"
    /\ UNCHANGED <<barrierVars, world, listVars, roundVars, threadVars, reports>>

-----------------------------------------------------------------------------

MonitorStep == StartMonitor \/ StartRound \/ Inspect \/ UpdateBlacklistsFromServer
CreationStep == SetUpCreation \/ ScanNewProcess
RegistryStep == SetUpRegistry \/ WaitForKey

\* The thread of Monitor goes on to its next step.
Advance == Running /\ step' = (step + 1) % (Len(Checks) + 2)

Init == BarrierInit /\ InspectInit

Next ==
    \/ Construct \/ BarrierStep
    \/ MonitorStep \/ CreationStep \/ RegistryStep
    \/ \E x \in Traces \ {"writable"} : Tamper(x)
    \/ RemapWritable \/ ParentExits
    \/ \E k \in Keys : ChangeKey(k)

Spec ==
    /\ Init /\ [][Next]_vars
    /\ WF_step(Advance) /\ WF_<<creation, scanned, registry, key>>(CreationStep \/ RegistryStep)


-----------------------------------------------------------------------------

\* The check that is there for each trace.  Nothing is for a hook that is no jump, for code that
\* may not be executed, and for a module with a signature.
Tells(x) ==
    CASE x \in {"tlsGone", "tlsMoved", "tlsForeign", "tlsExtra"} -> "tls"
      [] x \in {"mapped", "erased"} -> "mapped"
      [] x \in {"listedProcess", "keywordProcess"} -> "process"
      [] x = "jmpHook" -> "hooks" [] x = "iatHook" -> "iat"
      [] x \in {"unsignedDll", "namesakeDll"} -> "signature"
      [] x = "cheatHandle" -> "handles"
      [] x = "scannedProcess" -> "scan" [] x = "key" -> "registry"
      [] x \in {"testsigning", "debugMode"} -> "testsigning"
      [] x \in {"hypervisor", "disc", "wintrust", "writable", "window"} -> x
      [] OTHER -> "none"
Causes(c) == {x \in world : Tells(x) = c}
Patched == memory[".text"]

\* What the checks report is there: the barrier, the settings and Windows itself leave nothing
\* that is taken for tampering.
NoReportWithoutCause ==
    \A c \in reports :
        CASE c \in {"text", "self", "random"} -> Patched # {}
          [] c = "disc" -> Causes(c) # {} \/ Patched # {}
          [] c = "unknown" -> "unsignedDll" \in world
          [] OTHER -> Causes(c) # {}


\* What a trace needs to be seen: that it was not there when the checks took their measure, that
\* the threads were set up and the lists were read, and a parent that is watched.
Visible(x) ==
    /\ Tells(x) # "none"
    /\ parent = "runs" \/ Tells(x) \in Unconditional \cup {"signature", "scan"}
    /\ Enabled(Tells(x))
    /\ x = "unsignedDll" => "cheat.dll" \notin whitelist
    /\ x = "wintrust" => moduleHashes["WINTRUST.dll"][1] = {}
    /\ x = "keywordProcess" => keywords # {}
    /\ x = "scannedProcess" => 203 \in spawned /\ patterns # {}
    /\ x = "disc" => baseline.text[1] = {}
PatchedBefore == baseline.text[TextBlocks]
HiddenPatches ==
    (IF "text" \in reports THEN {} ELSE Patched \ (PatchedBefore \cup {TextBlocks}))
    \cup (IF "disc" \in reports THEN {} ELSE PatchedBefore \ (DiscText \cup {TextBlocks}))
NothingHidden ==
    /\ \A x \in world : Visible(x) => Tells(x) \in reports
    /\ parent = "runs" /\ "integrity" \in Settings => HiddenPatches = {}

\* Whatever is done to the process while it runs is reported in the end, by the check that is
\* there for it, in whatever step of the round or of a set-up it is done: code that was patched
\* before the hashes were taken by the comparison with the file, later patches by the hashes.
NothingStaysHidden == []<>(monitor = "none" \/ NothingHidden)

\* After the barrier has reported success, the code of the program never changes again, unless
\* somebody unmaps the view itself and maps memory that can be written in its place: whichever
\* call has failed, and whatever the threads and the checks do meanwhile (remap.cpp:416).
CodeStays ==
    [][at = "done" /\ retError = "OK" /\ "writable" \notin world =>
        memory'[".text"] = memory[".text"]]_vars

=============================================================================

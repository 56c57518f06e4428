------------------------------ MODULE ProcessView ------------------------------
(***************************************************************************)
(* What the client reads of the processes, modules, sections and handles   *)
(* around it: the lookups of Process.cpp and Handles.cpp as functions of   *)
(* what Windows would show it.                                             *)
(*                                                                         *)
(*   process  [pid, name, parent, open, modules, text]                     *)
(*   module   [name, path, base, size, signed, sections, exports, text]    *)
(*   section  [name, at, size]                                             *)
(*   handle   [owner, target]                                              *)
(*                                                                         *)
(* Lists have the order in which Windows shows them.  The first process of *)
(* a snapshot is the idle process, and the processes up to 4 are Windows'. *)
(***************************************************************************)
EXTENDS Integers, Sequences

Listed(s) == {s[i] : i \in DOMAIN s}
FirstOf(s, Test(_), default) ==
    IF \E i \in DOMAIN s : Test(s[i])
    THEN s[CHOOSE i \in DOMAIN s : Test(s[i]) /\ \A j \in 1..(i - 1) : ~Test(s[j])]
    ELSE default

NoProcess == [pid |-> 0, name |-> "", parent |-> 0, open |-> FALSE, modules |-> <<>>, text |-> <<>>]
NoModule == [name |-> "", path |-> "", base |-> 0, size |-> 0, signed |-> FALSE,
             sections |-> <<>>, exports |-> <<>>, text |-> {}]

-----------------------------------------------------------------------------
(* Processes *)

ProcessOf(processes, pid) ==
    LET IsIt(p) == p.pid = pid IN FirstOf(processes, IsIt, NoProcess)

GetParentProcessId(processes, self) == ProcessOf(processes, self).parent

\* The name is that of the first module, and is empty if the process cannot be opened.
GetProcessName(processes, pid) ==
    LET p == ProcessOf(processes, pid) IN IF p.open THEN p.name ELSE ""

IsAllowedProcess(processes, pid, allowed) ==
    pid # 0 /\ GetProcessName(processes, pid) \in allowed

\* The whole snapshot, by name and by keyword; contains has the pairs of a name and a word in it.
IsBlacklistedProcessRunning(processes, names, keywords, contains) ==
    \E p \in Listed(processes) :
        p.name \in names \/ \E word \in keywords : <<p.name, word>> \in contains

-----------------------------------------------------------------------------
(* Another process' memory *)

\* The first module of the process, and the .text section of its header.
GetRemoteTextSection(p) ==
    LET IsText(s) == s.name = ".text"
        none == [name |-> "", at |-> 0, size |-> 0]
    IN IF p.modules = <<>> THEN none ELSE FirstOf(p.modules[1].sections, IsText, none)

ReadRemoteTextSection(processes, pid) ==
    LET p == ProcessOf(processes, pid)
    IN IF pid <= 4 \/ ~p.open \/ GetRemoteTextSection(p).size = 0 THEN <<>> ELSE p.text

\* A pattern longer than the section: the last index is computed without a sign, the loop does
\* not end there, and the memory behind the section is read.
ByteScan(text, pattern) ==
    IF Len(pattern) > Len(text)
    THEN "beyond"
    ELSE IF \E i \in 0..(Len(text) - Len(pattern)) :
                \A j \in 1..Len(pattern) : text[i + j] = pattern[j]
    THEN "found" ELSE "clean"

FindBlacklistedProgramsThroughByteScan(processes, pid, patterns) ==
    LET text == ReadRemoteTextSection(processes, pid)
    IN IF pid <= 4 \/ text = <<>>
       THEN {"clean"}
       ELSE {ByteScan(text, pattern) : pattern \in patterns}

-----------------------------------------------------------------------------
(* Modules of this process *)

\* GetLoadedModules walks the list of the loader in load order; module 1 is the executable.
GetModuleInfo(modules, name) ==
    LET IsIt(m) == m.name = name IN FirstOf(modules, IsIt, NoModule)

GetModuleSize(modules, name) == GetModuleInfo(modules, name).size

IsAddressInModule(modules, address) ==
    \E m \in Listed(modules) : address >= m.base /\ address < m.base + m.size

\* DoesIATContainHooked: an entry may lead into any module, whose first byte is no function.  The
\* search ends at an import whose module is not loaded, hooked or not.
GetIATEntries(imports) ==
    [i \in DOMAIN imports |-> [module |-> imports[i][1], address |-> imports[i][2]]]
Inside(modules, address) ==
    \E m \in Listed(modules) : address > m.base /\ address < m.base + m.size
DoesIATContainHooked(modules, imports) ==
    LET entries == GetIATEntries(imports)
        hooked == {i \in DOMAIN entries : ~Inside(modules, entries[i].address)}
        unknown == {i \in DOMAIN entries : GetModuleSize(modules, entries[i].module) = 0}
    IN \E i \in hooked : \A j \in unknown : i < j

-----------------------------------------------------------------------------
(* Sections of this process.  `count' is Process::NumSections, `header' what the header says. *)

\* There are no more headers than sections, whatever the count says.
Headers(module, n) ==
    SubSeq(module.sections, 1, IF n > Len(module.sections) THEN Len(module.sections) ELSE n)

GetSections(module, count, header) == Headers(module, IF count = 0 THEN header ELSE count)

GetSectionAddress(module, name, count) ==
    LET IsIt(s) == s.name = name
    IN module.base + FirstOf(Headers(module, count), IsIt, [at |-> 0 - module.base]).at

GetTextSectionSize(module, header) ==
    LET IsText(s) == s.name = ".text"
    IN FirstOf(Headers(module, header), IsText, [size |-> 0]).size

-----------------------------------------------------------------------------
(* Handles *)

WhitelistedOwners == {"conhost.exe"}
SystemOwners == {"svchost.exe", "lsass.exe", "csrss.exe", "wininit.exe", "services.exe",
                 "winlogon.exe", "explorer.exe", "conhost.exe"}

GetHandles(handles) == {h \in handles : h.owner > 4}

\* The handles of others that lead here, of processes that can be opened to copy them.
DetectOpenHandlesToProcess(processes, handles, self) ==
    {h \in GetHandles(handles) :
        /\ h.owner # self /\ h.target = self
        /\ ProcessOf(processes, h.owner).open
        /\ GetProcessName(processes, h.owner) \notin WhitelistedOwners}

DoesProcessHaveOpenHandleToUs(pid, handles) == pid > 4 /\ \E h \in handles : h.owner = pid

CheckOpenHandles(processes, handles, self) ==
    LET toUs == DetectOpenHandlesToProcess(processes, handles, self)
    IN \E h \in toUs :
        /\ DoesProcessHaveOpenHandleToUs(h.owner, toUs)
        /\ h.owner # GetParentProcessId(processes, self)
        /\ GetProcessName(processes, h.owner) \notin SystemOwners \cup WhitelistedOwners

=============================================================================

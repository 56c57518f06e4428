------------------------------- MODULE Integrity -------------------------------
(***************************************************************************)
(* What the class Integrity says of memory, modules and the file on disc.  *)
(* A section is the set of its 32-byte blocks that differ from the build.  *)
(***************************************************************************)
EXTENDS ProcessView

\* The digests of the blocks are added up: hash i stands for the blocks up to i.
GetMemoryHash(changed, blocks) == [i \in 1..blocks |-> changed \cap 1..i]

\* Mutant: the last hash is left out of a list that has lost it already.
SameHashesTwiceCut(hashes, hashList) ==
    \A i \in 1..(Len(hashes) - 2) : hashes[i] = hashList[i]

\* All hashes but the last, whose block may reach past the section.
SameHashes(hashes, hashList) == \A i \in 1..(Len(hashes) - 1) : hashes[i] = hashList[i]

Check(changed, hashList) == SameHashes(GetMemoryHash(changed, Len(hashList)), hashList)

\* The .text section of the module with that name.  GetSections looks at as many sections of it as
\* the executable has.
GetModuleHash(modules, name, count) ==
    LET m == GetModuleInfo(modules, name)
        text == {s \in Listed(GetSections(m, count, Len(m.sections))) : s.name = ".text"}
    IN IF text = {} THEN <<>> ELSE GetMemoryHash(m.text, (CHOOSE s \in text : TRUE).size)

\* GetModuleHashes, without the executable.
GetModuleHashes(modules, count) ==
    [name \in {m.name : m \in Listed(Tail(modules))} |-> GetModuleHash(modules, name, count)]

IsModuleModified(modules, name, moduleHashes, count) ==
    LET current == GetModuleHash(modules, name, count)
    IN /\ name \in DOMAIN moduleHashes
       /\ \/ Len(moduleHashes[name]) # Len(current)
          \/ ~SameHashes(moduleHashes[name], current)

\* A whitelisted base name is enough.  A module that has a signature is whitelisted.
IsUnknown(m, whitelist) == m.name \notin whitelist
IsUnknownModulePresent(modules, whitelist) ==
    \E m \in Listed(modules) : IsUnknown(m, whitelist) /\ ~m.signed
WhitelistAfter(modules, whitelist) ==
    whitelist \cup {m.name : m \in {n \in Listed(modules) : IsUnknown(n, whitelist) /\ n.signed}}

\* The directory and its callbacks, [at, callbacks], must lie in the executable, whose last
\* address counts as inside, and there must be one callback.
IsTLSCallbackStructureModified(main, tls) ==
    LET inside(address) == address >= main.base /\ address <= main.base + main.size
    IN \/ tls.at = 0
       \/ ~inside(tls.at)
       \/ \E i \in DOMAIN tls.callbacks : ~inside(tls.callbacks[i])
       \/ Len(tls.callbacks) # 1

IsPEHeader(header) == header = "pe"

\* The file's list is cut to the length of the running list, which has to be there.
CheckFileIntegrityFromDisc(disc, running) ==
    SameHashes(running, GetMemoryHash(disc, Len(running)))

=============================================================================

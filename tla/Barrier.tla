-------------------------------- MODULE Barrier --------------------------------
(***************************************************************************)
(* Preventions::DeployBarrier: the number of sections is hidden, the image *)
(* is copied, unmapped and mapped again in views whose protection cannot   *)
(* change, the module is renamed, ntdll is patched.  The threads that were *)
(* started before it go on running the image all the while.                *)
(***************************************************************************)
EXTENDS Naturals, Sequences, FiniteSets, Functions

CONSTANTS
    Sections,   \* the sections of the image, in the order of its header
    Access,     \* the access each section's characteristics ask for
    Faults,     \* the calls of Windows of which one may fail
    Workers,    \* threads that were started before the barrier
    MaxWrites,  \* bound: how often they write to the data of the image
    Patches     \* the blocks of code that somebody may patch

Regions == Range(Sections) \cup {"header"}

\* A section is known by its name, so that no two have the same.
ASSUME SectionsAssumption ==
    /\ Sections \in Seq(Range(Sections))
    /\ \A i, j \in DOMAIN Sections : Sections[i] = Sections[j] => i = j
    /\ "header" \notin Range(Sections)
    /\ ".text" \in Range(Sections) /\ ".data" \in Range(Sections)
    /\ Access \in [Range(Sections) -> SUBSET {"r", "w", "x"}]
    /\ "w" \in Access[".data"] /\ "w" \notin Access[".text"]

VARIABLES
    at,         \* the call DeployBarrier is in
    numSections,    \* Process::NumSections
    view,       \* how each region is mapped: "image", "none" or "locked"
    access,     \* the access its pages allow
    memory,     \* what has changed in it since the program was loaded
    region,     \* the copy in the remap region
    section,    \* the copy in the page-file-backed section
    done,       \* the techniques that have been applied
    retError,   \* the last error of DeployBarrier
    fault,      \* the call that fails, or "none"
    worker,     \* each worker: "image" while it runs code of the program, "system"
    writes,     \* the writes of the workers to the data of the image
    end         \* "alive", or how the process ended

barrierVars == <<at, numSections, view, access, memory, region, section, done, retError, fault,
                 worker, writes, end>>
imageVars == <<view, access, memory>>
copyVars == <<region, section>>

NoCopy == <<>>
HeaderCount == IF "count" \in memory["header"] THEN 1 ELSE Len(Sections)

\* The regions the loops of remap.cpp visit.  The header is handled on its own.
Visited == {Sections[i] : i \in 1..numSections}

InitialAccess(r) == IF r = "header" THEN {"r"} ELSE Access[r]

BarrierInit ==
    /\ at = "count" /\ numSections = 0
    /\ view = [r \in Regions |-> "image"] /\ access = [r \in Regions |-> InitialAccess(r)]
    /\ memory = [r \in Regions |-> {}]
    /\ region = NoCopy /\ section = NoCopy
    /\ done = {} /\ retError = "OK" /\ fault \in Faults \cup {"none"}
    /\ worker = [t \in Workers |-> "image"] /\ writes = 0 /\ end = "alive"

Alive == end = "alive"
Fails(call) == fault = call

-----------------------------------------------------------------------------
(* Detections::Detections *)

\* GetSections falls back on the header's count, which nobody has changed yet.  A program that
\* was renamed is not found under _MAIN_MODULE_NAME, and the number is 0.
CountSections ==
    /\ Alive /\ at = "count"
    /\ numSections' = IF Fails("ownName") THEN 0 ELSE HeaderCount
    /\ at' = "spoof"
    /\ UNCHANGED <<imageVars, copyVars, done, retError, fault, worker, writes, end>>

-----------------------------------------------------------------------------
(* Process::ChangeNumberOfSections *)

\* VirtualProtect on pages of the image.
CanProtect(r) == view[r] = "image" /\ ~Fails("protect")

\* The count is written as four bytes, and stays written if the second VirtualProtect fails.
ChangeNumberOfSections ==
    /\ Alive /\ at = "spoof"
    /\ LET found == ~Fails("ownName")
           written == found /\ CanProtect("header")
           restored == written /\ ~Fails("protectAgain")
       IN /\ IF written
             THEN memory' = [memory EXCEPT !["header"] = @ \cup {"count"}]
             ELSE UNCHANGED memory
          /\ IF written /\ ~restored
             THEN access' = [access EXCEPT !["header"] = {"r", "w", "x"}]
             ELSE UNCHANGED access
          /\ IF restored
             THEN done' = done \cup {"sections"} /\ UNCHANGED retError
             ELSE retError' = "CANT_APPLY_TECHNIQUE" /\ UNCHANGED done
    /\ at' = "headers"
    /\ UNCHANGED <<numSections, view, copyVars, fault, worker, writes, end>>

-----------------------------------------------------------------------------
(* RmpRemapImage, in the image *)

\* Everything that fails before the image is unmapped ends in the same way.
RemapFails == at' = "threads" /\ retError' = "CANT_STARTUP"

\* Mutant: a section that is not aligned is reported, and the result stays success.
VerifyHeadersLeniently ==
    /\ Alive /\ at = "headers"
    /\ IF Fails("ntHeader") \/ Fails("alloc")
       THEN RemapFails
       ELSE at' = (IF Fails("alignment") THEN "threads" ELSE "copyRegion") /\ UNCHANGED retError
    /\ UNCHANGED <<numSections, imageVars, copyVars, done, fault, worker, writes, end>>

VerifyHeaders ==
    /\ Alive /\ at = "headers"
    /\ IF Fails("ntHeader") \/ Fails("alignment") \/ Fails("alloc")
       THEN RemapFails
       ELSE at' = "copyRegion" /\ UNCHANGED retError
    /\ UNCHANGED <<numSections, imageVars, copyVars, done, fault, worker, writes, end>>

\* RmppCopyPeSections: the visited sections and the page of the header, from the image.
CopySections == [r \in Regions |-> IF r \in Visited \cup {"header"} THEN memory[r] ELSE {}]

CopyToRegion ==
    /\ Alive /\ at = "copyRegion"
    /\ region' = CopySections
    /\ at' = "create"
    /\ UNCHANGED <<numSections, imageVars, section, done, retError, fault, worker, writes, end>>

-----------------------------------------------------------------------------
(* RmppRemapImageRoutine, in the remap region *)

\* NtCreateSection and the view of the whole section.
CreateSection ==
    /\ Alive /\ at = "create"
    /\ IF Fails("createSection") \/ Fails("mapView")
       THEN RemapFails /\ region' = NoCopy
       ELSE at' = "copy" /\ UNCHANGED <<region, retError>>
    /\ UNCHANGED <<numSections, imageVars, section, done, fault, worker, writes, end>>

\* The image is copied as it is now, not as it is in the remap region.
CopyToView ==
    /\ Alive /\ at = "copy"
    /\ section' = CopySections
    /\ at' = "unmap"
    /\ UNCHANGED <<numSections, imageVars, region, done, retError, fault, worker, writes, end>>

UnmapImage ==
    /\ Alive /\ at = "unmap"
    /\ IF Fails("unmapView")
       THEN /\ RemapFails /\ region' = NoCopy
            /\ UNCHANGED imageVars
       ELSE /\ view' = [r \in Regions |-> "none"]
            /\ access' = [r \in Regions |-> {}]
            /\ memory' = [r \in Regions |-> {}]
            /\ at' = "map" /\ UNCHANGED <<region, retError>>
    /\ UNCHANGED <<numSections, section, done, fault, worker, writes, end>>

\* RmppConvertSectionCharacteristicsToPageProtection
Converted(characteristics) ==
    CASE characteristics = {"w"} -> {"r", "w"}              \* PAGE_WRITECOPY
      [] characteristics = {"w", "x"} -> {"r", "w", "x"}    \* PAGE_EXECUTE_WRITECOPY
      [] OTHER -> characteristics

\* Mutant: the view is mapped without SEC_NO_CHANGE.
MapViewWithoutSecNoChange(r, protection) ==
    /\ view' = [view EXCEPT ![r] = "image"]
    /\ access' = [access EXCEPT ![r] = protection]
    /\ memory' = [memory EXCEPT ![r] = section[r]]

\* RmppMapProtectedView with SEC_NO_CHANGE
MapProtectedView(r, protection) ==
    /\ view' = [view EXCEPT ![r] = "locked"]
    /\ access' = [access EXCEPT ![r] = protection]
    /\ memory' = [memory EXCEPT ![r] = section[r]]

\* The views are mapped in the order of the header.
Mapped == Cardinality({i \in 1..numSections : view[Sections[i]] # "none"})

\* Mutant: the loop leaves out the last section.
MapSectionsButLast ==
    /\ Alive /\ at = "map"
    /\ IF Mapped + 1 >= numSections
       THEN at' = "mapHeader" /\ UNCHANGED <<imageVars, end>>
       ELSE /\ MapProtectedView(Sections[Mapped + 1], Converted(Access[Sections[Mapped + 1]]))
            /\ UNCHANGED <<at, end>>
    /\ UNCHANGED <<numSections, copyVars, done, retError, fault, worker, writes>>

\* When a view fails, the routine returns to code that is not there, and so would an exception.
MapSections ==
    /\ Alive /\ at = "map"
    /\ IF Mapped = numSections
       THEN at' = "mapHeader" /\ UNCHANGED <<imageVars, end>>
       ELSE IF Fails("mapProtected")
       THEN end' = "crashed" /\ UNCHANGED <<at, imageVars>>
       ELSE /\ MapProtectedView(Sections[Mapped + 1], Converted(Access[Sections[Mapped + 1]]))
            /\ UNCHANGED <<at, end>>
    /\ UNCHANGED <<numSections, copyVars, done, retError, fault, worker, writes>>

\* The header is mapped last.  Then the routine returns to the image.
MapHeader ==
    /\ Alive /\ at = "mapHeader"
    /\ MapProtectedView("header", {"r"})
    /\ IF view[".text"] = "none"
       THEN end' = "crashed" /\ UNCHANGED at
       ELSE at' = "validate" /\ UNCHANGED end
    /\ UNCHANGED <<numSections, copyVars, done, retError, fault, worker, writes>>

-----------------------------------------------------------------------------
(* RmpRemapImage, in the remapped image *)

\* RmppValidateRemappedPeSectionProtection: VirtualProtect has to fail on the section's view.
IsProtected(r) == ~CanProtect(r) /\ ~Fails("query")

\* Mutant: the remap region stays.
ValidateImageKeepsRegion ==
    /\ Alive /\ at = "validate"
    /\ IF \A r \in Visited \cup {"header"} : IsProtected(r)
       THEN at' = "threads" /\ done' = done \cup {"remap"} /\ UNCHANGED retError
       ELSE RemapFails /\ UNCHANGED done
    /\ UNCHANGED <<numSections, view, access, memory, copyVars, fault, worker, writes, end>>

\* RmppValidateRemappedImageProtection, and the remap region is freed.
ValidateImage ==
    /\ Alive /\ at = "validate"
    /\ region' = NoCopy
    /\ IF \A r \in Visited \cup {"header"} : IsProtected(r)
       THEN at' = "threads" /\ done' = done \cup {"remap"} /\ UNCHANGED retError
       ELSE RemapFails /\ UNCHANGED done
    /\ UNCHANGED <<numSections, imageVars, section, fault, worker, writes, end>>

-----------------------------------------------------------------------------
(* The rest of Preventions::DeployBarrier *)

Technique(step, next, call, technique) ==
    /\ Alive /\ at = step /\ at' = next
    /\ IF Fails(call)
       THEN retError' = "CANT_APPLY_TECHNIQUE" /\ UNCHANGED done
       ELSE done' = done \cup {technique} /\ UNCHANGED retError
    /\ UNCHANGED <<numSections, imageVars, copyVars, fault, worker, writes, end>>

PreventThreads ==
    /\ Alive /\ at = "threads" /\ at' = "name"
    /\ done' = done \cup {"threads"}
    /\ UNCHANGED <<numSections, imageVars, copyVars, retError, fault, worker, writes, end>>

\* RandomizeModuleName: the path of the module is changed, and not its base name, so that the
\* module is found under its old name ever after, and the new one is not put on the whitelist.
RandomizeModuleName == Technique("name", "apc", "ownName", "name")

\* Mutant: what VirtualProtect returns is not looked at.
StopAPCInjectionUnchecked ==
    /\ Alive /\ at = "apc" /\ at' = "policies"
    /\ done' = IF Fails("apc") THEN done ELSE done \cup {"apc"}
    /\ UNCHANGED <<numSections, imageVars, copyVars, retError, fault, worker, writes, end>>

StopAPCInjection == Technique("apc", "policies", "apc", "apc")

\* EnableProcessMitigations: failures are only logged.
EnableProcessMitigations ==
    /\ Alive /\ at = "policies" /\ at' = "done"
    /\ done' = IF Fails("policy") THEN done ELSE done \cup {"policies"}
    /\ UNCHANGED <<numSections, imageVars, copyVars, retError, fault, worker, writes, end>>

-----------------------------------------------------------------------------
(* The other threads, until the barrier is done *)

\* A worker runs code of the image, goes into a call of Windows, and comes back.
Run(t) ==
    /\ Alive /\ at # "done"
    /\ \/ worker[t] = "image" /\ view[".text"] # "none"
          /\ worker' = [worker EXCEPT ![t] = "system"] /\ UNCHANGED end
       \/ worker[t] = "system"
          /\ worker' = [worker EXCEPT ![t] = "image"] /\ UNCHANGED end
       \/ worker[t] = "image" /\ view[".text"] = "none"
          /\ end' = "crashed" /\ UNCHANGED worker
    /\ UNCHANGED <<at, numSections, imageVars, copyVars, done, retError, fault, writes>>

\* It writes to a variable of the program.
Write(t) ==
    /\ Alive /\ at # "done" /\ worker[t] = "image" /\ view[".text"] # "none"
    /\ writes < MaxWrites
    /\ IF "w" \in access[".data"]
       THEN /\ memory' = [memory EXCEPT ![".data"] = @ \cup {writes + 1}]
            /\ writes' = writes + 1 /\ UNCHANGED end
       ELSE end' = "crashed" /\ UNCHANGED <<memory, writes>>
    /\ UNCHANGED <<at, numSections, view, access, copyVars, done, retError, fault, worker>>

\* Somebody patches code, where the protection of its pages can be changed.
Patch(b) ==
    /\ Alive /\ view[".text"] = "image"
    /\ memory' = [memory EXCEPT ![".text"] = @ \cup {b}]
    /\ UNCHANGED <<at, numSections, view, access, copyVars, done, retError, fault, worker, writes,
                   end>>

\* What DeployBarrier does, after Detections::Detections has counted the sections.
Deploy ==
    \/ ChangeNumberOfSections \/ VerifyHeaders \/ CopyToRegion \/ CreateSection
    \/ CopyToView \/ UnmapImage \/ MapSections \/ MapHeader \/ ValidateImage \/ PreventThreads
    \/ RandomizeModuleName \/ StopAPCInjection \/ EnableProcessMitigations

Others ==
    \/ \E t \in Workers : Run(t) \/ Write(t)
    \/ \E b \in Patches : Patch(b)

-----------------------------------------------------------------------------

Techniques == {"sections", "remap", "threads", "name", "apc"}
\* When DeployBarrier returns Error::OK every technique is in place: each section is in a view
\* whose protection cannot change and allows what its characteristics say, and the header hides
\* the sections.
BarrierHolds ==
    [][Alive /\ at # "done" /\ at' = "done" /\ retError' = "OK" =>
        /\ Techniques \subseteq done'
        /\ \A r \in Regions : view'[r] = "locked"
        /\ \A r \in Range(Sections) : access'[r] = Converted(Access[r])
        /\ "count" \in memory'["header"]]_barrierVars

\* The barrier reports an error only when a call has failed: its own techniques do not get in
\* the way of one another.
NoErrorWithoutFault == Alive /\ fault = "none" => retError = "OK"

\* When DeployBarrier goes on after the remapping, nothing of the image is missing, whether the
\* remapping has succeeded or has failed halfway.
ImageIsComplete ==
    Alive /\ at \in {"validate", "threads", "name", "apc", "policies", "done"} =>
        \A r \in Regions : view[r] # "none"

=============================================================================

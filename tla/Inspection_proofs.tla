--------------------------- MODULE Inspection_proofs ---------------------------
(* Proofs about the barrier, in the process that Inspection puts it in: for   *)
(* any image, any call of Windows that may fail, any number of threads that   *)
(* were started before, and whatever is done to the process meanwhile; and    *)
(* about the checks of the process that it leaves.                            *)
EXTENDS Inspection, FiniteSetTheorems, SequenceTheorems, TLAPS

-----------------------------------------------------------------------------
(* The invariant *)

\* The calls of DeployBarrier before the image is unmapped, those that map it, and the rest.
UntilUnmapped == {"spoof", "headers", "copyRegion", "create", "copy", "unmap"}
Untouched == {"count"} \cup UntilUnmapped
After == {"validate", "threads", "name", "apc", "policies", "done"}
Calls == Untouched \cup {"map", "mapHeader"} \cup After

\* The first m sections are mapped in views whose protection cannot change.
FirstMapped(m) ==
    \A i \in DOMAIN Sections :
        /\ i <= m => view[Sections[i]] = "locked"
                     /\ access[Sections[i]] = Converted(Access[Sections[i]])
        /\ i > m => view[Sections[i]] = "none"

Locked ==
    /\ \A r \in Regions : view[r] = "locked"
    /\ \A r \in Range(Sections) : access[r] = Converted(Access[r])

TypeInv ==
    /\ at \in Calls
    /\ view \in [Regions -> {"image", "none", "locked"}]
    /\ access \in [Regions -> SUBSET {"r", "w", "x"}]
    /\ DOMAIN memory = Regions
    /\ at \in {"unmap", "map", "mapHeader"} => DOMAIN section = Regions
    /\ numSections = 0 \/ numSections = Len(Sections)
    /\ writes \in Nat

\* How the image is mapped, call by call.
MapInv ==
    /\ at = "count" => "count" \notin memory["header"]
    /\ at \in Untouched => \A r \in Regions : view[r] = "image"
    /\ Alive /\ at \in {"map", "mapHeader"} => view["header"] = "none"
    /\ Alive /\ at = "map" => \E m \in 0..numSections : FirstMapped(m)
    /\ Alive /\ at = "mapHeader" => FirstMapped(numSections)
    /\ Alive /\ at = "validate" => Locked
    /\ Alive /\ at \in After =>
          Locked \/ (\A r \in Regions : view[r] = "image")
          \/ (at = "done" /\ "writable" \in world /\ \A r \in Regions : view[r] # "none")

\* What DeployBarrier has applied while it knows of no error.
DoneInv ==
    retError = "OK" =>
        /\ at \notin {"count", "spoof"} => "sections" \in done
        /\ at \in UntilUnmapped \ {"spoof"} => "count" \in memory["header"]
        /\ at \in {"unmap", "map", "mapHeader"} => "count" \in section["header"]
        /\ at \in After => "count" \in memory["header"]
        /\ at \in After \ {"validate"} => "remap" \in done
        /\ Alive /\ at \in After => Locked \/ (at = "done" /\ "writable" \in world)
        /\ at \in After \ {"validate", "threads"} => "threads" \in done
        /\ at \in {"apc", "policies", "done"} => "name" \in done
        /\ at \in {"policies", "done"} => "apc" \in done

MonitorInv == monitor # "none" => at = "done"

Inv == TypeInv /\ MapInv /\ DoneInv /\ MonitorInv /\ NoErrorWithoutFault

-----------------------------------------------------------------------------
(* Facts about the image *)

\* The sections and the regions of the image.
LEMMA SectionFacts ==
    /\ Len(Sections) \in Nat /\ DOMAIN Sections = 1..Len(Sections)
    /\ \A i \in DOMAIN Sections : Sections[i] \in Range(Sections) /\ Sections[i] # "header"
    /\ \A r \in Range(Sections) : \E i \in DOMAIN Sections : r = Sections[i]
    /\ Regions = Range(Sections) \cup {"header"}
    /\ ".text" \in Range(Sections) /\ ".data" \in Range(Sections)
  BY SectionsAssumption DEF Regions, Range

\* The protection of a page is an access again.
LEMMA ConvertedType ==
    \A r \in Range(Sections) :
        Access[r] \in SUBSET {"r", "w", "x"} /\ Converted(Access[r]) \in SUBSET {"r", "w", "x"}
  BY SectionsAssumption DEF Converted

\* Mapped is the number of sections that were mapped so far.
LEMMA MappedIs ==
    ASSUME NEW m \in 0..numSections, FirstMapped(m), numSections = 0 \/ numSections = Len(Sections)
    PROVE  Mapped = m
<1>1. /\ m \in Nat /\ numSections \in Nat /\ m <= numSections
      /\ 1..numSections \subseteq DOMAIN Sections
  BY SectionFacts
<1>2. ASSUME NEW i \in 1..numSections PROVE view[Sections[i]] # "none" <=> i <= m
  <2>1. i \in DOMAIN Sections /\ i \in Nat /\ m \in Nat
    BY <1>1
  <2>2. CASE i <= m
    BY <2>1, <2>2 DEF FirstMapped
  <2>3. CASE i > m
    BY <2>1, <2>3 DEF FirstMapped
  <2> QED
    BY <2>1, <2>2, <2>3
<1>3. {i \in 1..numSections : view[Sections[i]] # "none"} = 1..m
  BY <1>1, <1>2
<1>4. Cardinality(1..m) = m
  BY <1>1, FS_Interval
<1> QED
  BY <1>3, <1>4 DEF Mapped

-----------------------------------------------------------------------------
(* The steps *)

\* The program as it was loaded.
LEMMA InitInv == Init => Inv
<1> SUFFICES ASSUME Init PROVE Inv
  OBVIOUS
<1> USE DEF Init, BarrierInit, InspectInit
<1>1. TypeInv
  <2>1. access \in [Regions -> SUBSET {"r", "w", "x"}]
    BY SectionFacts, SectionsAssumption DEF InitialAccess
  <2> QED
    BY <2>1 DEF TypeInv, Calls, Untouched
<1>2. MapInv
  BY SectionFacts DEF MapInv, Untouched, After
<1>3. DoneInv
  BY DEF DoneInv, UntilUnmapped, After
<1>4. MonitorInv /\ NoErrorWithoutFault
  BY DEF MonitorInv, NoErrorWithoutFault
<1> QED
  BY <1>1, <1>2, <1>3, <1>4 DEF Inv

\* A step that does not go on in DeployBarrier, and leaves how the image is mapped, keeps all.
LEMMA Beside ==
    ASSUME Inv, UNCHANGED <<at, view, access, section, numSections, done, retError, fault>>,
           memory' = memory \/ (DOMAIN memory' = Regions /\ memory'["header"] = memory["header"]),
           writes' \in Nat, end' = "alive" => Alive,
           "writable" \in world => "writable" \in world',
           monitor' = monitor \/ at = "done"
    PROVE  Inv'
<1>1. TypeInv'
  BY DEF Inv, TypeInv
<1>2. MapInv'
  BY DEF Inv, MapInv, FirstMapped, Locked, Alive
<1>3. DoneInv'
  BY DEF Inv, DoneInv, Locked, Alive
<1>4. MonitorInv' /\ NoErrorWithoutFault'
  BY DEF Inv, MonitorInv, NoErrorWithoutFault, Alive
<1> QED
  BY <1>1, <1>2, <1>3, <1>4 DEF Inv

\* What DeployBarrier does keeps the invariant.
LEMMA DeployStep == Inv /\ Deploy /\ UNCHANGED inspectVars => Inv'
<1> SUFFICES ASSUME Inv, Deploy, UNCHANGED inspectVars PROVE Inv'
  OBVIOUS
<1>a. TypeInv /\ MapInv /\ DoneInv /\ MonitorInv /\ NoErrorWithoutFault
  BY DEF Inv
<1>b. UNCHANGED <<world, monitor>>
  BY DEF inspectVars, roundVars
<1>m. at # "done" => monitor = "none"
  BY <1>a DEF MonitorInv
<1>1. CASE ChangeNumberOfSections
  <2>1. /\ at = "spoof" /\ at' = "headers" /\ Alive /\ end' = end
        /\ UNCHANGED <<numSections, view, section, fault, writes>>
        /\ retError' = "OK" =>
              /\ retError = "OK" /\ "sections" \in done'
              /\ memory' = [memory EXCEPT !["header"] = @ \cup {"count"}]
    BY <1>1 DEF ChangeNumberOfSections, copyVars, imageVars
  <2>2. \A r \in Regions : view[r] = "image"
    BY <2>1, <1>a DEF MapInv, Untouched, UntilUnmapped
  <2>3. fault = "none" => retError' = retError
    BY <1>1, <2>2, SectionFacts DEF ChangeNumberOfSections, CanProtect, Fails
  <2>4. TypeInv'
    BY <1>1, <2>1, <1>a
    DEF ChangeNumberOfSections, TypeInv, Calls, Untouched, UntilUnmapped, After
  <2>5. MapInv'
    BY <2>1, <2>2, <1>a DEF MapInv, Untouched, UntilUnmapped, After
  <2>6. retError' = "OK" => "count" \in memory'["header"]
    <3>1. "header" \in DOMAIN memory
      BY <1>a, SectionFacts DEF TypeInv
    <3> QED
      BY <2>1, <3>1
  <2>7. DoneInv'
    BY <2>1, <2>6 DEF DoneInv, UntilUnmapped, After
  <2>8. MonitorInv' /\ NoErrorWithoutFault'
    BY <2>1, <2>3, <1>a, <1>b, <1>m DEF MonitorInv, NoErrorWithoutFault, Alive
  <2> QED
    BY <2>4, <2>5, <2>7, <2>8 DEF Inv
<1>2. CASE VerifyHeaders
  <2> USE DEF VerifyHeaders, RemapFails, imageVars, copyVars, Fails, Alive
  <2>1. TypeInv'
    BY <1>2, <1>a DEF TypeInv, Calls, Untouched, UntilUnmapped, After
  <2>2. MapInv'
    BY <1>2, <1>a, <1>b
    DEF TypeInv, MapInv, FirstMapped, Locked, Untouched, UntilUnmapped, After
  <2>3. DoneInv'
    BY <1>2, <1>a, <1>b
    DEF TypeInv, DoneInv, MapInv, Locked, Untouched, UntilUnmapped, After
  <2>4. MonitorInv' /\ NoErrorWithoutFault'
    BY <1>2, <1>a, <1>b, <1>m
    DEF MonitorInv, NoErrorWithoutFault, MapInv, Untouched, UntilUnmapped
  <2> QED
    BY <2>1, <2>2, <2>3, <2>4 DEF Inv
<1>3. CASE CopyToRegion
  <2> USE DEF CopyToRegion, imageVars, copyVars, Fails, Alive
  <2>1. TypeInv'
    BY <1>3, <1>a DEF TypeInv, Calls, Untouched, UntilUnmapped, After
  <2>2. MapInv'
    BY <1>3, <1>a, <1>b
    DEF TypeInv, MapInv, FirstMapped, Locked, Untouched, UntilUnmapped, After
  <2>3. DoneInv'
    BY <1>3, <1>a, <1>b
    DEF TypeInv, DoneInv, MapInv, Locked, Untouched, UntilUnmapped, After
  <2>4. MonitorInv' /\ NoErrorWithoutFault'
    BY <1>3, <1>a, <1>b, <1>m
    DEF MonitorInv, NoErrorWithoutFault, MapInv, Untouched, UntilUnmapped
  <2> QED
    BY <2>1, <2>2, <2>3, <2>4 DEF Inv
<1>4. CASE CreateSection
  <2> USE DEF CreateSection, RemapFails, imageVars, copyVars, Fails, Alive
  <2>1. TypeInv'
    BY <1>4, <1>a DEF TypeInv, Calls, Untouched, UntilUnmapped, After
  <2>2. MapInv'
    BY <1>4, <1>a, <1>b
    DEF TypeInv, MapInv, FirstMapped, Locked, Untouched, UntilUnmapped, After
  <2>3. DoneInv'
    BY <1>4, <1>a, <1>b
    DEF TypeInv, DoneInv, MapInv, Locked, Untouched, UntilUnmapped, After
  <2>4. MonitorInv' /\ NoErrorWithoutFault'
    BY <1>4, <1>a, <1>b, <1>m
    DEF MonitorInv, NoErrorWithoutFault, MapInv, Untouched, UntilUnmapped
  <2> QED
    BY <2>1, <2>2, <2>3, <2>4 DEF Inv
<1>5. CASE CopyToView
  <2> USE DEF CopyToView, CopySections, imageVars, copyVars, Fails, Alive
  <2>1. TypeInv'
    BY <1>5, <1>a DEF TypeInv, Calls, Untouched, UntilUnmapped, After
  <2>2. MapInv'
    BY <1>5, <1>a, <1>b
    DEF TypeInv, MapInv, FirstMapped, Locked, Untouched, UntilUnmapped, After
  <2>3. DoneInv'
    <3>1. section'["header"] = memory["header"] /\ UNCHANGED <<retError, done, memory>>
      BY <1>5, SectionFacts
    <3> QED
      BY <1>5, <3>1, <1>a DEF DoneInv, UntilUnmapped, After
  <2>4. MonitorInv' /\ NoErrorWithoutFault'
    BY <1>5, <1>a, <1>b, <1>m
    DEF MonitorInv, NoErrorWithoutFault, MapInv, Untouched, UntilUnmapped
  <2> QED
    BY <2>1, <2>2, <2>3, <2>4 DEF Inv
<1>6. CASE UnmapImage
  <2>1. CASE Fails("unmapView")
    <3> USE DEF UnmapImage, imageVars, copyVars, Fails, Alive, RemapFails
    <3>1. /\ at = "unmap" /\ at' = "threads" /\ retError' = "CANT_STARTUP" /\ fault # "none"
          /\ UNCHANGED <<imageVars, numSections, section, fault, writes, end>>
      BY <1>6, <2>1
    <3>2. TypeInv'
      BY <3>1, <1>a DEF TypeInv, Calls, After
    <3>3. MapInv'
      BY <3>1, <1>a DEF MapInv, Untouched, UntilUnmapped, After
    <3> QED
      BY <3>1, <3>2, <3>3, <1>a, <1>b, <1>m
      DEF Inv, DoneInv, MonitorInv, NoErrorWithoutFault
  <2>2. CASE ~Fails("unmapView")
    <3>1. /\ at = "unmap" /\ at' = "map"
          /\ view' = [r \in Regions |-> "none"] /\ access' = [r \in Regions |-> {}]
          /\ memory' = [r \in Regions |-> {}]
          /\ UNCHANGED <<numSections, section, done, retError, fault, writes, end>>
      BY <1>6, <2>2 DEF UnmapImage
    <3>2. TypeInv'
      BY <3>1, <1>a DEF TypeInv, Calls
    <3>3. FirstMapped(0)'
      BY <3>1, SectionFacts DEF FirstMapped
    <3>4. 0 \in 0..numSections'
      BY <3>1, <1>a, SectionFacts DEF TypeInv
    <3>5. MapInv'
      BY <3>1, <3>3, <3>4, SectionFacts DEF MapInv, Untouched, UntilUnmapped, After
    <3>6. DoneInv'
      BY <3>1, <1>a DEF DoneInv, UntilUnmapped, After
    <3> QED
      BY <3>1, <3>2, <3>5, <3>6, <1>a, <1>b, <1>m
      DEF Inv, MonitorInv, NoErrorWithoutFault, Alive
  <2> QED
    BY <2>1, <2>2
<1>7. CASE MapSections
  <2>1. /\ at = "map" /\ Alive
        /\ UNCHANGED <<section, numSections, done, retError, fault, writes>>
    BY <1>7 DEF MapSections, copyVars
  <2>2. PICK m \in 0..numSections : FirstMapped(m)
    BY <2>1, <1>a DEF MapInv
  <2>3. /\ Mapped = m /\ m \in Nat /\ numSections \in Nat /\ numSections <= Len(Sections)
        /\ view["header"] = "none"
    BY <2>1, <2>2, <1>a, MappedIs, SectionFacts DEF TypeInv, MapInv
  <2>4. CASE m = numSections
    <3>1. at' = "mapHeader" /\ UNCHANGED <<view, access, memory, end>>
      BY <1>7, <2>3, <2>4 DEF MapSections, imageVars
    <3>2. TypeInv'
      BY <2>1, <3>1, <1>a DEF TypeInv, Calls
    <3>3. MapInv'
      BY <2>1, <2>2, <2>3, <2>4, <3>1
      DEF MapInv, FirstMapped, Untouched, UntilUnmapped, After
    <3>4. DoneInv'
      BY <2>1, <3>1, <1>a DEF DoneInv, UntilUnmapped, After
    <3> QED
      BY <2>1, <3>1, <3>2, <3>3, <3>4, <1>a, <1>b, <1>m
      DEF Inv, MonitorInv, NoErrorWithoutFault, Alive
  <2>5. CASE m # numSections /\ Fails("mapProtected")
    <3>1. end' = "crashed" /\ UNCHANGED <<at, view, access, memory>>
      BY <1>7, <2>3, <2>5 DEF MapSections, imageVars
    <3>2. TypeInv'
      BY <2>1, <3>1, <1>a DEF TypeInv
    <3>3. MapInv' /\ DoneInv'
      BY <2>1, <3>1, <1>a DEF MapInv, DoneInv, Alive, Untouched, UntilUnmapped, After
    <3> QED
      BY <2>1, <3>1, <3>2, <3>3, <1>a, <1>b, <1>m
      DEF Inv, MonitorInv, NoErrorWithoutFault, Alive
  <2>6. CASE m # numSections /\ ~Fails("mapProtected")
    <3> DEFINE r == Sections[m + 1]
    <3>1. /\ view' = [view EXCEPT ![r] = "locked"]
          /\ access' = [access EXCEPT ![r] = Converted(Access[r])]
          /\ memory' = [memory EXCEPT ![r] = section[r]]
          /\ UNCHANGED <<at, end>>
      BY <1>7, <2>3, <2>6 DEF MapSections, MapProtectedView
    <3>2. m + 1 \in DOMAIN Sections /\ m + 1 \in 0..numSections
      BY <2>2, <2>3, <2>6, SectionFacts
    <3>3. r \in Regions /\ r # "header" /\ Converted(Access[r]) \in SUBSET {"r", "w", "x"}
      BY <3>2, SectionFacts, ConvertedType
    <3>4. TypeInv'
      BY <2>1, <3>1, <3>3, <1>a DEF TypeInv
    <3>5. FirstMapped(m + 1)'
      <4> SUFFICES ASSUME NEW i \in DOMAIN Sections
                   PROVE  /\ i <= m + 1 => /\ view'[Sections[i]] = "locked"
                                           /\ access'[Sections[i]] = Converted(Access[Sections[i]])
                          /\ i > m + 1 => view'[Sections[i]] = "none"
        BY DEF FirstMapped
      <4>1. Sections[i] \in Regions /\ i \in Nat /\ (Sections[i] = r <=> i = m + 1)
        BY <3>2, SectionFacts, SectionsAssumption
      <4>2. CASE i = m + 1
        BY <4>1, <4>2, <3>1, <3>3, <2>3, <1>a DEF TypeInv
      <4>3. CASE i # m + 1
        BY <4>1, <4>3, <3>1, <3>3, <2>2, <2>3, <1>a DEF TypeInv, FirstMapped
      <4> QED
        BY <4>2, <4>3
    <3>6. view'["header"] = "none"
      BY <3>1, <3>3, <2>3, <1>a, SectionFacts DEF TypeInv
    <3>7. MapInv'
      BY <2>1, <3>1, <3>2, <3>5, <3>6 DEF MapInv, Untouched, UntilUnmapped, After
    <3>8. DoneInv'
      BY <2>1, <3>1, <1>a DEF DoneInv, UntilUnmapped, After
    <3> QED
      BY <2>1, <3>1, <3>4, <3>7, <3>8, <1>a, <1>b, <1>m
      DEF Inv, MonitorInv, NoErrorWithoutFault, Alive
  <2> QED
    BY <2>4, <2>5, <2>6
<1>8. CASE MapHeader
  <2>1. /\ at = "mapHeader" /\ Alive
        /\ view' = [view EXCEPT !["header"] = "locked"]
        /\ access' = [access EXCEPT !["header"] = {"r"}]
        /\ memory' = [memory EXCEPT !["header"] = section["header"]]
        /\ UNCHANGED <<section, numSections, done, retError, fault, writes>>
    BY <1>8 DEF MapHeader, MapProtectedView, copyVars
  <2>2. FirstMapped(numSections) /\ (numSections = 0 \/ numSections = Len(Sections))
    BY <2>1, <1>a DEF MapInv, TypeInv
  <2>3. TypeInv'
    BY <1>8, <2>1, <1>a, SectionFacts DEF MapHeader, TypeInv, Calls, After
  <2>4. CASE view[".text"] = "none"
    <3>1. end' = "crashed" /\ at' = at
      BY <1>8, <2>4 DEF MapHeader
    <3>2. MapInv'
      BY <2>1, <3>1 DEF MapInv, Alive, Untouched, UntilUnmapped, After
    <3>3. DoneInv'
      BY <2>1, <3>1, <1>a DEF DoneInv, Alive, UntilUnmapped, After
    <3> QED
      BY <2>1, <2>3, <3>1, <3>2, <3>3, <1>a, <1>b, <1>m
      DEF Inv, MonitorInv, NoErrorWithoutFault, Alive
  <2>5. CASE view[".text"] # "none"
    <3>1. end' = end /\ at' = "validate"
      BY <1>8, <2>5 DEF MapHeader
    <3>2. numSections = Len(Sections)
      BY <2>2, <2>5, SectionFacts DEF FirstMapped
    <3>3. \A r \in Range(Sections) : view[r] = "locked" /\ access[r] = Converted(Access[r])
      BY <2>2, <3>2, SectionFacts DEF FirstMapped
    <3>4. Locked'
      <4>1. \A r \in Range(Sections) : view'[r] = view[r] /\ access'[r] = access[r]
        BY <2>1, <1>a, SectionFacts DEF TypeInv
      <4>2. view'["header"] = "locked"
        BY <2>1, <1>a, SectionFacts DEF TypeInv
      <4> QED
        BY <4>1, <4>2, <3>3, SectionFacts DEF Locked
    <3>5. MapInv'
      BY <2>1, <3>1, <3>4 DEF MapInv, Untouched, UntilUnmapped, After
    <3>6. memory'["header"] = section["header"]
      BY <2>1, <1>a, SectionFacts DEF TypeInv
    <3>7. DoneInv'
      BY <2>1, <3>1, <3>4, <3>6, <1>a DEF DoneInv, UntilUnmapped, After
    <3> QED
      BY <2>1, <2>3, <3>1, <3>5, <3>7, <1>a, <1>b, <1>m
      DEF Inv, MonitorInv, NoErrorWithoutFault, Alive
  <2> QED
    BY <2>4, <2>5
<1>9. CASE ValidateImage
  <2> USE DEF ValidateImage, IsProtected, CanProtect, RemapFails, imageVars, copyVars,
     Fails, Alive
  <2>1. TypeInv'
    BY <1>9, <1>a DEF TypeInv, Calls, Untouched, UntilUnmapped, After
  <2>2. MapInv'
    BY <1>9, <1>a, <1>b
    DEF TypeInv, MapInv, FirstMapped, Locked, Untouched, UntilUnmapped, After
  <2>3. DoneInv'
    BY <1>9, <1>a, <1>b
    DEF TypeInv, DoneInv, MapInv, Locked, Untouched, UntilUnmapped, After
  <2>4. MonitorInv' /\ NoErrorWithoutFault'
    <3>1. Locked
      BY <1>9, <1>a DEF MapInv
    <3>2. Visited \subseteq Regions
      BY <1>a, SectionFacts DEF TypeInv, Visited
    <3>3. fault = "none" => \A r \in Visited \cup {"header"} : IsProtected(r)
      BY <3>1, <3>2, SectionFacts DEF Locked
    <3> QED
      BY <1>9, <3>3, <1>a, <1>b, <1>m DEF MonitorInv, NoErrorWithoutFault
  <2> QED
    BY <2>1, <2>2, <2>3, <2>4 DEF Inv
<1>10. CASE PreventThreads
  <2> USE DEF PreventThreads, imageVars, copyVars, Fails, Alive
  <2>1. TypeInv'
    BY <1>10, <1>a DEF TypeInv, Calls, Untouched, UntilUnmapped, After
  <2>2. MapInv'
    BY <1>10, <1>a, <1>b
    DEF TypeInv, MapInv, FirstMapped, Locked, Untouched, UntilUnmapped, After
  <2>3. DoneInv'
    BY <1>10, <1>a, <1>b
    DEF TypeInv, DoneInv, MapInv, Locked, Untouched, UntilUnmapped, After
  <2>4. MonitorInv' /\ NoErrorWithoutFault'
    BY <1>10, <1>a, <1>b, <1>m
    DEF MonitorInv, NoErrorWithoutFault, MapInv, Untouched, UntilUnmapped
  <2> QED
    BY <2>1, <2>2, <2>3, <2>4 DEF Inv
<1>11. CASE RandomizeModuleName
  <2> USE DEF RandomizeModuleName, Technique, imageVars, copyVars, Fails, Alive
  <2>1. TypeInv'
    BY <1>11, <1>a DEF TypeInv, Calls, Untouched, UntilUnmapped, After
  <2>2. MapInv'
    BY <1>11, <1>a, <1>b
    DEF TypeInv, MapInv, FirstMapped, Locked, Untouched, UntilUnmapped, After
  <2>3. DoneInv'
    BY <1>11, <1>a, <1>b
    DEF TypeInv, DoneInv, MapInv, Locked, Untouched, UntilUnmapped, After
  <2>4. MonitorInv' /\ NoErrorWithoutFault'
    BY <1>11, <1>a, <1>b, <1>m
    DEF MonitorInv, NoErrorWithoutFault, MapInv, Untouched, UntilUnmapped
  <2> QED
    BY <2>1, <2>2, <2>3, <2>4 DEF Inv
<1>12. CASE StopAPCInjection
  <2> USE DEF StopAPCInjection, Technique, imageVars, copyVars, Fails, Alive
  <2>1. TypeInv'
    BY <1>12, <1>a DEF TypeInv, Calls, Untouched, UntilUnmapped, After
  <2>2. MapInv'
    BY <1>12, <1>a, <1>b
    DEF TypeInv, MapInv, FirstMapped, Locked, Untouched, UntilUnmapped, After
  <2>3. DoneInv'
    BY <1>12, <1>a, <1>b
    DEF TypeInv, DoneInv, MapInv, Locked, Untouched, UntilUnmapped, After
  <2>4. MonitorInv' /\ NoErrorWithoutFault'
    BY <1>12, <1>a, <1>b, <1>m
    DEF MonitorInv, NoErrorWithoutFault, MapInv, Untouched, UntilUnmapped
  <2> QED
    BY <2>1, <2>2, <2>3, <2>4 DEF Inv
<1>13. CASE EnableProcessMitigations
  <2> USE DEF EnableProcessMitigations, imageVars, copyVars, Fails, Alive
  <2>1. TypeInv'
    BY <1>13, <1>a DEF TypeInv, Calls, Untouched, UntilUnmapped, After
  <2>2. MapInv'
    BY <1>13, <1>a, <1>b
    DEF TypeInv, MapInv, FirstMapped, Locked, Untouched, UntilUnmapped, After
  <2>3. DoneInv'
    BY <1>13, <1>a, <1>b
    DEF TypeInv, DoneInv, MapInv, Locked, Untouched, UntilUnmapped, After
  <2>4. MonitorInv' /\ NoErrorWithoutFault'
    BY <1>13, <1>a, <1>b, <1>m
    DEF MonitorInv, NoErrorWithoutFault, MapInv, Untouched, UntilUnmapped
  <2> QED
    BY <2>1, <2>2, <2>3, <2>4 DEF Inv
<1> QED
  BY <1>1, <1>2, <1>3, <1>4, <1>5, <1>6, <1>7, <1>8, <1>9, <1>10, <1>11, <1>12, <1>13
  DEF Deploy

\* The other threads write to the data of the image, or to its code where somebody has mapped
\* it so that the protection can be changed.
LEMMA OthersStep == Inv /\ Others /\ UNCHANGED inspectVars => Inv'
<1> SUFFICES ASSUME Inv, Others, UNCHANGED inspectVars PROVE Inv'
  OBVIOUS
<1>a. TypeInv /\ UNCHANGED <<world, monitor>>
  BY DEF Inv, inspectVars, roundVars
<1>1. CASE \E t \in Workers : Run(t)
  BY <1>1, <1>a, Beside DEF Run, imageVars, copyVars, Alive, TypeInv
<1>2. CASE \E t \in Workers : Write(t)
  <2>1. memory' = memory \/ memory' = [memory EXCEPT ![".data"] = @ \cup {writes + 1}]
    BY <1>2 DEF Write
  <2>2. writes' \in Nat
    BY <1>2, <1>a DEF Write, TypeInv
  <2> QED
    BY <1>2, <1>a, <2>1, <2>2, SectionFacts, Beside DEF Write, copyVars, Alive, TypeInv
<1>3. CASE \E b \in Patches : Patch(b)
  BY <1>3, <1>a, SectionFacts, Beside DEF Patch, copyVars, Alive, TypeInv
<1> QED
  BY <1>1, <1>2, <1>3 DEF Others

\* The number of sections is taken from a header that nobody has changed.
LEMMA ConstructStep == Inv /\ Construct => Inv'
<1> SUFFICES ASSUME Inv, Construct PROVE Inv'
  OBVIOUS
<1>1. /\ at = "count" /\ at' = "spoof" /\ Alive
      /\ numSections' = IF Fails("ownName") THEN 0 ELSE HeaderCount
      /\ UNCHANGED <<view, access, memory, section, done, retError, fault, writes, end, monitor>>
  BY DEF Construct, CountSections, imageVars, copyVars, roundVars
<1>a. TypeInv /\ MapInv /\ DoneInv /\ MonitorInv /\ NoErrorWithoutFault
  BY DEF Inv
<1>2. numSections' = 0 \/ numSections' = Len(Sections)
  BY <1>1, <1>a DEF HeaderCount, MapInv
<1>3. TypeInv'
  BY <1>1, <1>2, <1>a DEF TypeInv, Calls, Untouched, UntilUnmapped
<1>4. MapInv' /\ DoneInv'
  BY <1>1, <1>a DEF MapInv, DoneInv, Untouched, UntilUnmapped, After
<1> QED
  BY <1>1, <1>3, <1>4, <1>a DEF Inv, MonitorInv, NoErrorWithoutFault, Alive

\* The view is unmapped once more after the barrier is done.
LEMMA RemapStep == Inv /\ RemapWritable => Inv'
<1> SUFFICES ASSUME Inv, RemapWritable PROVE Inv'
  OBVIOUS
<1>a. TypeInv /\ MapInv /\ DoneInv /\ MonitorInv /\ NoErrorWithoutFault
  BY DEF Inv
<1>1. /\ at = "done" /\ Alive /\ "writable" \in world' /\ view[".text"] = "locked"
      /\ view' = [view EXCEPT ![".text"] = "image"]
      /\ access' = [access EXCEPT ![".text"] = {"r", "w", "x"}]
      /\ UNCHANGED <<at, memory, section, numSections, done, retError, fault, writes, end, monitor>>
  BY <1>a DEF RemapWritable, MayTamper, Running, MonitorInv, copyVars, roundVars
<1>2. TypeInv'
  BY <1>1, <1>a DEF TypeInv
<1>3. MapInv'
  <2>1. \A r \in Regions : view[r] # "none"
    BY <1>1, <1>a DEF MapInv, After, Locked
  <2>2. \A r \in Regions : view'[r] # "none"
    BY <2>1, <1>1, <1>a DEF TypeInv
  <2> QED
    BY <1>1, <2>2 DEF MapInv, Untouched, UntilUnmapped
<1>4. DoneInv'
  BY <1>1, <1>a DEF DoneInv, UntilUnmapped, After
<1> QED
  BY <1>1, <1>2, <1>3, <1>4, <1>a DEF Inv, MonitorInv, NoErrorWithoutFault, Alive

\* The other steps of Inspection leave the barrier alone.
LEMMA InspectStep ==
    ASSUME Inv, UNCHANGED barrierVars, world \subseteq world', monitor' = monitor \/ at = "done"
    PROVE  Inv'
  BY Beside DEF barrierVars, imageVars, copyVars, Inv, TypeInv, Alive

\* Every step keeps the invariant.
LEMMA InvStep == Inv /\ [Next]_vars => Inv'
<1> SUFFICES ASSUME Inv, [Next]_vars PROVE Inv'
  OBVIOUS
<1>1. CASE Construct
  BY <1>1, ConstructStep
<1>2. CASE BarrierStep
  BY <1>2, DeployStep, OthersStep DEF BarrierStep
<1>3. CASE MonitorStep
  BY <1>3, InspectStep DEF MonitorStep, StartMonitor, StartRound, Inspect,
     UpdateBlacklistsFromServer
<1>4. CASE CreationStep \/ RegistryStep
  BY <1>4, InspectStep DEF CreationStep, RegistryStep, SetUpCreation, ScanNewProcess,
     SetUpRegistry, WaitForKey, roundVars
<1>5. CASE \E x \in Traces \ {"writable"} : Tamper(x)
  BY <1>5, InspectStep DEF Tamper
<1>6. CASE RemapWritable
  BY <1>6, RemapStep
<1>7. CASE ParentExits
  BY <1>7, InspectStep DEF ParentExits, roundVars
<1>8. CASE \E k \in Keys : ChangeKey(k)
  BY <1>8, InspectStep DEF ChangeKey, roundVars
<1>9. CASE UNCHANGED vars
  BY <1>9, InspectStep DEF vars, inspectVars, roundVars
<1> QED
  BY <1>1, <1>2, <1>3, <1>4, <1>5, <1>6, <1>7, <1>8, <1>9 DEF Next

-----------------------------------------------------------------------------
(* The theorems *)

\* The invariant holds in every state.
LEMMA Invariance == Spec => []Inv
<1>1. Init => Inv
  BY InitInv
<1>2. Inv /\ [Next]_vars => Inv'
  BY InvStep
<1> QED
  BY <1>1, <1>2, PTL DEF Spec

\* DeployBarrier reports an error only when a call of Windows has failed.
THEOREM ErrorsHaveAFault == Spec => []NoErrorWithoutFault
<1>1. Inv => NoErrorWithoutFault
  BY DEF Inv
<1> QED
  BY Invariance, <1>1, PTL

\* However the remapping ends, if the process goes on nothing of the image is missing.
THEOREM NothingIsMissing == Spec => []ImageIsComplete
<1>1. Inv => ImageIsComplete
  BY DEF Inv, MapInv, ImageIsComplete, After, Locked
<1> QED
  BY Invariance, <1>1, PTL

\* EnableProcessMitigations is the last thing DeployBarrier does.
LEMMA PoliciesAreLast ==
    ASSUME Inv, [Next]_vars, at # "done", at' = "done" PROVE EnableProcessMitigations
<1>1. CASE Construct
  BY <1>1 DEF Construct, CountSections
<1>2. CASE BarrierStep
  <2>1. CASE Deploy
    BY <2>1 DEF Deploy, ChangeNumberOfSections, VerifyHeaders, CopyToRegion, CreateSection,
       CopyToView, UnmapImage, MapSections, MapHeader, ValidateImage, PreventThreads,
       RandomizeModuleName, StopAPCInjection, Technique, RemapFails
  <2>2. CASE Others
    BY <2>2 DEF Others, Run, Write, Patch
  <2> QED
    BY <1>2, <2>1, <2>2 DEF BarrierStep
<1>3. CASE MonitorStep \/ CreationStep \/ RegistryStep
  BY <1>3 DEF MonitorStep, StartMonitor, StartRound, Inspect, UpdateBlacklistsFromServer,
     CreationStep, RegistryStep, SetUpCreation, ScanNewProcess, SetUpRegistry, WaitForKey,
     barrierVars
<1>4. CASE \/ \E x \in Traces \ {"writable"} : Tamper(x)
           \/ ParentExits \/ \E k \in Keys : ChangeKey(k)
  BY <1>4 DEF Tamper, ParentExits, ChangeKey, barrierVars
<1>5. CASE RemapWritable \/ UNCHANGED vars
  BY <1>5 DEF RemapWritable, vars, barrierVars
<1> QED
  BY <1>1, <1>2, <1>3, <1>4, <1>5 DEF Next

\* Success means that every technique is in place: each section is mapped in a view whose
\* protection cannot change and allows what its characteristics say.
THEOREM SuccessMeansProtected == Spec => BarrierHolds
<1> DEFINE Holds ==
      Alive /\ at # "done" /\ at' = "done" /\ retError' = "OK" =>
        /\ Techniques \subseteq done'
        /\ \A r \in Regions : view'[r] = "locked"
        /\ \A r \in Range(Sections) : access'[r] = Converted(Access[r])
        /\ "count" \in memory'["header"]
<1>1. Inv /\ Inv' /\ [Next]_vars => [Holds]_barrierVars
  <2> SUFFICES ASSUME Inv, Inv', [Next]_vars, Alive, at # "done", at' = "done", retError' = "OK"
               PROVE  Holds
    OBVIOUS
  <2>1. EnableProcessMitigations
    BY PoliciesAreLast
  <2>2. /\ at = "policies" /\ retError = "OK" /\ done \subseteq done'
        /\ UNCHANGED <<view, access, memory>>
    BY <2>1 DEF EnableProcessMitigations, imageVars
  <2>3. Locked
    BY <2>2 DEF Inv, DoneInv, After
  <2> QED
    BY <2>2, <2>3 DEF Inv, DoneInv, After, Techniques, Locked
<1> QED
  BY Invariance, <1>1, PTL DEF Spec, BarrierHolds

\* After success the code of the program never changes again, unless somebody unmaps the view
\* and maps memory that can be written in its place.
THEOREM CodeStaysAfterSuccess == Spec => CodeStays
<1>1. Inv /\ [Next]_vars =>
        [at = "done" /\ retError = "OK" /\ "writable" \notin world
           => memory'[".text"] = memory[".text"]]_vars
  <2> SUFFICES ASSUME Inv, [Next]_vars, at = "done", retError = "OK", "writable" \notin world
               PROVE  memory'[".text"] = memory[".text"]
    OBVIOUS
  <2>1. Alive => view[".text"] = "locked"
    BY SectionFacts DEF Inv, DoneInv, After, Locked
  <2>2. CASE Construct
    BY <2>2 DEF Construct, CountSections
  <2>3. CASE BarrierStep
    <3>1. ~Deploy
      BY DEF Deploy, ChangeNumberOfSections, VerifyHeaders, CopyToRegion, CreateSection,
         CopyToView, UnmapImage, MapSections, MapHeader, ValidateImage, PreventThreads,
         RandomizeModuleName, StopAPCInjection, EnableProcessMitigations, Technique
    <3> QED
      BY <2>1, <2>3, <3>1 DEF BarrierStep, Others, Run, Write, Patch
  <2>4. CASE MonitorStep \/ CreationStep \/ RegistryStep
    BY <2>4 DEF MonitorStep, StartMonitor, StartRound, Inspect, UpdateBlacklistsFromServer,
       CreationStep, RegistryStep, SetUpCreation, ScanNewProcess, SetUpRegistry, WaitForKey,
       barrierVars, imageVars
  <2>5. CASE \/ \E x \in Traces \ {"writable"} : Tamper(x)
             \/ ParentExits \/ \E k \in Keys : ChangeKey(k)
    BY <2>5 DEF Tamper, ParentExits, ChangeKey, barrierVars, imageVars
  <2>6. CASE RemapWritable \/ UNCHANGED vars
    BY <2>6 DEF RemapWritable, vars, barrierVars, imageVars
  <2> QED
    BY <2>2, <2>3, <2>4, <2>5, <2>6 DEF Next
<1> QED
  BY Invariance, <1>1, PTL DEF Spec, CodeStays

-----------------------------------------------------------------------------
(* The invariant of the checks *)

\* The code is mapped as it was linked, and the copy of it is gone.
ImageInv ==
    /\ at \in Untouched => access[".text"] = {"r", "x"}
    /\ Alive /\ at \in After => access[".text"] = {"r", "x"} \/ "writable" \in world
    /\ at \in {"count", "spoof", "headers", "copyRegion"} \cup (After \ {"validate"})
          => region = NoCopy

\* The hash of the code of a module.
HashOf(m, count) ==
    LET text == {s \in Listed(GetSections(m, count, Len(m.sections))) : s.name = ".text"}
    IN IF text = {} THEN <<>> ELSE GetMemoryHash(m.text, (CHOOSE s \in text : TRUE).size)
CleanWintrust == [Module("WINTRUST.dll", 1200, TRUE) EXCEPT !.text = {}]

\* What the lists hold that were filled when the process was started.
KnownInv ==
    /\ at # "count" => {"game.exe", "ws2_32.dll"} \subseteq whitelist
    /\ at # "count" /\ "wintrust" \notin world /\ "WINTRUST.dll" \in DOMAIN moduleHashes
          => moduleHashes["WINTRUST.dll"] = HashOf(CleanWintrust, numSections)
    /\ names \subseteq StaticNames /\ keywords \subseteq StaticKeywords
    /\ patterns \subseteq {<<7, 9>>}

\* What has been queued and signalled was done by somebody.
SignalInv ==
    /\ queue \in Seq({Loaded(x) : x \in Dlls \cap world})
    /\ \A k \in Keys : key[k] = "changed" => "key" \in world

\* Patches stay, so that code without one had none when its hashes were taken.
BaselineInv ==
    /\ monitor # "none" /\ Patched = {} =>
          /\ baseline.text = GetMemoryHash({}, TextBlocks)
          /\ baseline.self = FALSE /\ baseline.random = FALSE
    /\ monitor = "none" => reports = {}

\* Why a check may report.
HasCause(c) ==
    CASE c \in {"text", "self", "random"} -> Patched # {}
      [] c = "disc" -> Causes(c) # {} \/ Patched # {}
      [] c = "unknown" -> "unsignedDll" \in world
      [] OTHER -> Causes(c) # {}

ReportInv == ImageInv /\ KnownInv /\ SignalInv /\ BaselineInv /\ NoReportWithoutCause
-----------------------------------------------------------------------------
(* The lists of Windows *)

\* What is in the list of two lists.
LEMMA ListedConcat ==
    ASSUME NEW S, NEW s \in Seq(S), NEW t \in Seq(S)
    PROVE  Listed(s \o t) = Listed(s) \cup Listed(t)
<1>1. /\ s \o t \in Seq(S) /\ Len(s) \in Nat /\ Len(t) \in Nat
      /\ DOMAIN s = 1..Len(s) /\ DOMAIN t = 1..Len(t) /\ DOMAIN (s \o t) = 1..(Len(s) + Len(t))
      /\ \A i \in 1..(Len(s) + Len(t)) : (s \o t)[i] = IF i <= Len(s) THEN s[i] ELSE t[i - Len(s)]
  BY ConcatProperties, LenProperties
<1>2. \A i \in DOMAIN s : i \in DOMAIN (s \o t) /\ (s \o t)[i] = s[i]
  BY <1>1
<1>3. \A i \in DOMAIN t : i + Len(s) \in DOMAIN (s \o t) /\ (s \o t)[i + Len(s)] = t[i]
  BY <1>1
<1>4. \A i \in DOMAIN (s \o t) :
        i \in DOMAIN s \/ (i - Len(s) \in DOMAIN t /\ (s \o t)[i] = t[i - Len(s)])
  BY <1>1
<1>5. ASSUME NEW x \in Listed(s \o t) PROVE x \in Listed(s) \cup Listed(t)
  <2>1. PICK i \in DOMAIN (s \o t) : x = (s \o t)[i]
    BY <1>5 DEF Listed
  <2>2. CASE i \in DOMAIN s
    BY <1>2, <2>1, <2>2 DEF Listed
  <2>3. CASE i - Len(s) \in DOMAIN t /\ x = t[i - Len(s)]
    BY <2>3 DEF Listed
  <2> QED
    BY <1>4, <2>1, <2>2, <2>3
<1>6. ASSUME NEW x \in Listed(s) PROVE x \in Listed(s \o t)
  BY <1>2, <1>6 DEF Listed
<1>7. ASSUME NEW x \in Listed(t) PROVE x \in Listed(s \o t)
  BY <1>3, <1>7 DEF Listed
<1> QED
  BY <1>5, <1>6, <1>7

\* There is a first one.
LEMMA FirstExists ==
    ASSUME NEW n \in Nat, NEW T, T \subseteq 1..n, T # {}
    PROVE  \E k \in T : \A j \in 1..(k - 1) : j \notin T
<1>1. T \subseteq Nat
  OBVIOUS
<1>2. PICK k \in T : \A j \in T : <<j, k>> \notin OpToRel(<, Nat)
  BY <1>1, WFMin, NatLessThanWellFounded
<1>3. \A j \in T : ~(j < k)
  BY <1>1, <1>2 DEF OpToRel
<1> QED
  BY <1>1, <1>3

\* A list with one more entry or none.
LEMMA IfListed ==
    ASSUME NEW S, NEW trace, NEW x \in S
    PROVE  /\ If(trace, <<x>>) \in Seq(S)
           /\ Listed(If(trace, <<x>>)) = IF trace \in world THEN {x} ELSE {}
  BY DEF If, Listed

-----------------------------------------------------------------------------
(* The modules *)

\* A list behind a list is a list.
LEMMA Longer ==
    ASSUME NEW S, NEW s \in Seq(S), NEW t \in Seq(S)
    PROVE  s \o t \in Seq(S) /\ Listed(s \o t) = Listed(s) \cup Listed(t)
  BY ConcatProperties, ListedConcat

\* The first of a list that has what is looked for.
LEMMA FirstFound ==
    ASSUME NEW S, NEW s \in Seq(S), NEW T, T \subseteq DOMAIN s, T # {},
           NEW k, k = CHOOSE i \in DOMAIN s : i \in T /\ \A j \in 1..(i - 1) : j \notin T
    PROVE  k \in T
<1>1. DOMAIN s = 1..Len(s) /\ Len(s) \in Nat
  BY LenProperties
<1>2. PICK i \in T : \A j \in 1..(i - 1) : j \notin T
  BY <1>1, FirstExists
<1> QED
  BY <1>2

\* The process of an id is one that is listed, if there is one.
LEMMA ProcessFound ==
    ASSUME NEW S, NEW s \in Seq(S), NEW pid
    PROVE  \/ ProcessOf(s, pid) = NoProcess /\ \A p \in Listed(s) : p.pid # pid
           \/ ProcessOf(s, pid) \in Listed(s) /\ ProcessOf(s, pid).pid = pid
<1> DEFINE T == {i \in DOMAIN s : s[i].pid = pid}
           k == CHOOSE i \in DOMAIN s : i \in T /\ \A j \in 1..(i - 1) : j \notin T
<1>1. CASE T = {}
  BY <1>1 DEF ProcessOf, FirstOf, Listed
<1>2. CASE T # {}
  <2>1. k \in T
    BY <1>2, FirstFound
  <2>2. DOMAIN s = 1..Len(s) /\ Len(s) \in Nat
    BY LenProperties
  <2>3. k = CHOOSE i \in DOMAIN s : s[i].pid = pid /\ \A j \in 1..(i - 1) : ~(s[j].pid = pid)
    <3>1. \A i \in DOMAIN s : \A j \in 1..(i - 1) : j \in DOMAIN s
      BY <2>2
    <3> QED
      BY <3>1
  <2>4. ProcessOf(s, pid) = s[k]
    BY <1>2, <2>3 DEF ProcessOf, FirstOf
  <2> QED
    BY <2>1, <2>4 DEF Listed
<1> QED
  BY <1>1, <1>2

\* So is the module of a name.
LEMMA ModuleFound ==
    ASSUME NEW S, NEW s \in Seq(S), NEW name
    PROVE  \/ GetModuleInfo(s, name) = NoModule /\ \A m \in Listed(s) : m.name # name
           \/ GetModuleInfo(s, name) \in Listed(s) /\ GetModuleInfo(s, name).name = name
<1> DEFINE T == {i \in DOMAIN s : s[i].name = name}
           k == CHOOSE i \in DOMAIN s : i \in T /\ \A j \in 1..(i - 1) : j \notin T
<1>1. CASE T = {}
  BY <1>1 DEF GetModuleInfo, FirstOf, Listed
<1>2. CASE T # {}
  <2>1. k \in T
    BY <1>2, FirstFound
  <2>2. DOMAIN s = 1..Len(s) /\ Len(s) \in Nat
    BY LenProperties
  <2>3. k = CHOOSE i \in DOMAIN s : s[i].name = name /\ \A j \in 1..(i - 1) : ~(s[j].name = name)
    <3>1. \A i \in DOMAIN s : \A j \in 1..(i - 1) : j \in DOMAIN s
      BY <2>2
    <3> QED
      BY <3>1
  <2>4. GetModuleInfo(s, name) = s[k]
    BY <1>2, <2>3 DEF GetModuleInfo, FirstOf
  <2> QED
    BY <2>1, <2>4 DEF Listed
<1> QED
  BY <1>1, <1>2

Ntdll == Module("ntdll.dll", 1100, TRUE)
Ws2 == Module("ws2_32.dll", 1300, TRUE)
Cheat == Module("cheat.dll", 1400, FALSE)
Overlay == Module("overlay.dll", 1600, TRUE)
Loader == {Executable, Ntdll, Wintrust, Ws2}
Namesake == [Module("ws2_32.dll", 1500, FALSE) EXCEPT !.path = "other"]
Added(trace, x) == IF trace \in world THEN {x} ELSE {}

\* The modules that the loader lists.
LEMMA ModuleList ==
    /\ Listed(Modules) = Loader \cup Added("unsignedDll", Cheat)
                                \cup Added("namesakeDll", Namesake)
                                \cup Added("signedDll", Overlay)
    /\ Modules \in Seq(Listed(Modules))
<1> DEFINE s == If("unsignedDll", <<Cheat>>)
           t == If("namesakeDll", <<Namesake>>)
           u == If("signedDll", <<Overlay>>)
           S == Loader \cup {Cheat, Namesake, Overlay}
<1>1. Modules = <<Executable, Ntdll, Wintrust, Ws2>> \o s \o t \o u
  BY DEF Modules, Ntdll, Ws2, Cheat, Namesake, Overlay
<1>2. Loader = {Executable, Ntdll, Wintrust, Ws2}
  BY DEF Loader
<1>3. /\ Cheat \in S /\ Namesake \in S /\ Overlay \in S
      /\ Executable \in S /\ Ntdll \in S /\ Wintrust \in S /\ Ws2 \in S
  BY <1>2
<1> HIDE DEF S
<1>4. /\ s \in Seq(S) /\ Listed(s) = Added("unsignedDll", Cheat)
      /\ t \in Seq(S) /\ Listed(t) = Added("namesakeDll", Namesake)
      /\ u \in Seq(S) /\ Listed(u) = Added("signedDll", Overlay)
  BY <1>3, IfListed DEF Added
<1> HIDE DEF s, t, u
<1> DEFINE head == <<Executable, Ntdll, Wintrust, Ws2>>
           more == head \o s
           most == more \o t
<1>5. head \in Seq(S) /\ Listed(head) = Loader
  BY <1>2, <1>3 DEF Listed
<1>6. Modules = most \o u /\ most = more \o t /\ more = head \o s
  BY <1>1
<1> HIDE DEF head, more, most
<1>7. more \in Seq(S) /\ Listed(more) = Listed(head) \cup Listed(s)
  <2>1. head \in Seq(S) /\ s \in Seq(S) /\ more = head \o s
    BY <1>4, <1>5, <1>6
  <2> QED
    BY <2>1, Longer
<1>8. most \in Seq(S) /\ Listed(most) = Listed(more) \cup Listed(t)
  <2>1. more \in Seq(S) /\ t \in Seq(S) /\ most = more \o t
    BY <1>4, <1>6, <1>7
  <2> QED
    BY <2>1, Longer
<1>9. Modules \in Seq(S) /\ Listed(Modules) = Listed(most) \cup Listed(u)
  <2>1. most \in Seq(S) /\ u \in Seq(S) /\ Modules = most \o u
    BY <1>4, <1>6, <1>8
  <2> QED
    BY <2>1, Longer
<1>10. Modules \in Seq(Listed(Modules))
  BY <1>9, IsASeq, LenProperties DEF Listed
<1> QED
  BY <1>4, <1>5, <1>7, <1>8, <1>9, <1>10

-----------------------------------------------------------------------------
(* The processes *)

System == [NoProcess EXCEPT !.pid = 4, !.name = "System"]
OurSelf == [Program(Self, "game.exe") EXCEPT !.parent = Launcher]
Scanned == [Program(203, "harmless.exe") EXCEPT !.text = <<7, 7, 9, 7>>]

\* The processes of a snapshot.
LEMMA ProcessList ==
    /\ Listed(Processes) = {NoProcess, System, Program(60, "csrss.exe"), OurSelf}
          \cup (IF parent = "runs" THEN {Program(Launcher, "launcher.exe")} ELSE {})
          \cup Added("listedProcess", Program(200, "cheatengine.exe"))
          \cup Added("keywordProcess", Program(201, "mytrainer.exe"))
          \cup Added("cheatHandle", Program(202, "tool.exe"))
          \cup Added("scannedProcess", Scanned)
    /\ Processes \in Seq(Listed(Processes))
<1> DEFINE launcher == Program(Launcher, "launcher.exe")
           csrss == Program(60, "csrss.exe")
           listed == Program(200, "cheatengine.exe")
           keyword == Program(201, "mytrainer.exe")
           tool == Program(202, "tool.exe")
           S == {NoProcess, System, csrss, OurSelf, launcher, listed, keyword, tool, Scanned}
           p1 == <<NoProcess, System>>
           q1 == IF parent = "runs" THEN <<launcher>> ELSE <<>>
           q2 == <<csrss, OurSelf>>
           q3 == If("listedProcess", <<listed>>)
           q4 == If("keywordProcess", <<keyword>>)
           q5 == If("cheatHandle", <<tool>>)
           q6 == If("scannedProcess", <<Scanned>>)
           p2 == p1 \o q1
           p3 == p2 \o q2
           p4 == p3 \o q3
           p5 == p4 \o q4
           p6 == p5 \o q5
           p7 == p6 \o q6
<1>1. Processes = p7
  BY DEF Processes, System, OurSelf, Scanned
<1>2. /\ p2 = p1 \o q1 /\ p3 = p2 \o q2 /\ p4 = p3 \o q3
      /\ p5 = p4 \o q4 /\ p6 = p5 \o q5 /\ p7 = p6 \o q6
  OBVIOUS
<1> HIDE DEF launcher, csrss, listed, keyword, tool
<1>3. /\ NoProcess \in S /\ System \in S /\ csrss \in S /\ OurSelf \in S /\ launcher \in S
      /\ listed \in S /\ keyword \in S /\ tool \in S /\ Scanned \in S
  OBVIOUS
<1> HIDE DEF S
<1>4. /\ p1 \in Seq(S) /\ Listed(p1) = {NoProcess, System}
      /\ q2 \in Seq(S) /\ Listed(q2) = {csrss, OurSelf}
  BY <1>3 DEF Listed
<1>5. q1 \in Seq(S) /\ Listed(q1) = IF parent = "runs" THEN {launcher} ELSE {}
  BY <1>3 DEF Listed
<1>6. /\ q3 \in Seq(S) /\ Listed(q3) = Added("listedProcess", listed)
      /\ q4 \in Seq(S) /\ Listed(q4) = Added("keywordProcess", keyword)
      /\ q5 \in Seq(S) /\ Listed(q5) = Added("cheatHandle", tool)
      /\ q6 \in Seq(S) /\ Listed(q6) = Added("scannedProcess", Scanned)
  BY <1>3, IfListed DEF Added
<1> HIDE DEF p1, p2, p3, p4, p5, p6, p7, q1, q2, q3, q4, q5, q6
<1>7. p2 \in Seq(S) /\ Listed(p2) = Listed(p1) \cup Listed(q1)
  <2>1. p1 \in Seq(S) /\ q1 \in Seq(S) /\ p2 = p1 \o q1
    BY <1>2, <1>4, <1>5
  <2> QED
    BY <2>1, Longer
<1>8. p3 \in Seq(S) /\ Listed(p3) = Listed(p2) \cup Listed(q2)
  <2>1. p2 \in Seq(S) /\ q2 \in Seq(S) /\ p3 = p2 \o q2
    BY <1>2, <1>4, <1>7
  <2> QED
    BY <2>1, Longer
<1>9. p4 \in Seq(S) /\ Listed(p4) = Listed(p3) \cup Listed(q3)
  <2>1. p3 \in Seq(S) /\ q3 \in Seq(S) /\ p4 = p3 \o q3
    BY <1>2, <1>6, <1>8
  <2> QED
    BY <2>1, Longer
<1>10. p5 \in Seq(S) /\ Listed(p5) = Listed(p4) \cup Listed(q4)
  <2>1. p4 \in Seq(S) /\ q4 \in Seq(S) /\ p5 = p4 \o q4
    BY <1>2, <1>6, <1>9
  <2> QED
    BY <2>1, Longer
<1>11. p6 \in Seq(S) /\ Listed(p6) = Listed(p5) \cup Listed(q5)
  <2>1. p5 \in Seq(S) /\ q5 \in Seq(S) /\ p6 = p5 \o q5
    BY <1>2, <1>6, <1>10
  <2> QED
    BY <2>1, Longer
<1>12. p7 \in Seq(S) /\ Listed(p7) = Listed(p6) \cup Listed(q6)
  <2>1. p6 \in Seq(S) /\ q6 \in Seq(S) /\ p7 = p6 \o q6
    BY <1>2, <1>6, <1>11
  <2> QED
    BY <2>1, Longer
<1>13. Processes \in Seq(Listed(Processes))
  BY <1>1, <1>12, IsASeq, LenProperties DEF Listed
<1>14. Listed(Processes) = {NoProcess, System} \cup Listed(q1) \cup {csrss, OurSelf} \cup Listed(q3)
                          \cup Listed(q4) \cup Listed(q5) \cup Listed(q6)
  BY <1>1, <1>4, <1>7, <1>8, <1>9, <1>10, <1>11, <1>12
<1> QED
  BY <1>5, <1>6, <1>13, <1>14 DEF launcher, csrss, listed, keyword, tool

\* What programs and the other processes are.
Plain == <<1, 2, 3, 4>>

\* A program has the name it is started under, and code that nobody looks for.
LEMMA ProgramIs ==
    ASSUME NEW pid, NEW name
    PROVE  /\ Program(pid, name).pid = pid /\ Program(pid, name).name = name
           /\ Program(pid, name).open /\ Program(pid, name).text = Plain
  BY DEF Program, NoProcess, Plain

\* The first two processes of a snapshot.
LEMMA SystemIs ==
    /\ NoProcess.pid = 0 /\ NoProcess.name = "" /\ NoProcess.text = <<>>
    /\ System.pid = 4 /\ System.name = "System" /\ System.text = <<>>
  BY DEF NoProcess, System

\* The process that is protected.
LEMMA OurSelfIs ==
    /\ OurSelf.pid = 100 /\ OurSelf.name = "game.exe" /\ OurSelf.parent = 50
    /\ OurSelf.text = Plain
  BY DEF Program, NoProcess, OurSelf, Self, Launcher, Plain

\* The program whose code is looked for.
LEMMA ScannedIs == Scanned.pid = 203 /\ Scanned.name = "harmless.exe"
  BY DEF Program, NoProcess, Scanned

\* What a process that is listed can be.
LEMMA ProcessFacts ==
    ASSUME NEW p \in Listed(Processes)
    PROVE  /\ p.pid = 100 => p.parent = 50
           /\ p.pid = 60 => p.name = "csrss.exe" /\ p.open
           /\ p.name = "cheatengine.exe" => "listedProcess" \in world
           /\ p.name = "mytrainer.exe" => "keywordProcess" \in world
           /\ p.text = <<>> \/ p.text = Plain \/ "scannedProcess" \in world
<1> DEFINE listed == Program(200, "cheatengine.exe")
           keyword == Program(201, "mytrainer.exe")
           tool == Program(202, "tool.exe")
           launcher == Program(Launcher, "launcher.exe")
           csrss == Program(60, "csrss.exe")
<1>1. listed.pid = 200 /\ listed.name = "cheatengine.exe" /\ listed.text = Plain
  BY ProgramIs
<1>2. keyword.pid = 201 /\ keyword.name = "mytrainer.exe" /\ keyword.text = Plain
  BY ProgramIs
<1>3. tool.pid = 202 /\ tool.name = "tool.exe" /\ tool.text = Plain
  BY ProgramIs
<1>4. launcher.pid = 50 /\ launcher.name = "launcher.exe" /\ launcher.text = Plain
  BY ProgramIs DEF Launcher
<1>5. csrss.pid = 60 /\ csrss.name = "csrss.exe" /\ csrss.open /\ csrss.text = Plain
  BY ProgramIs
<1>6. \/ p = NoProcess \/ p = System \/ p = OurSelf \/ p = csrss \/ p = launcher
      \/ p = listed /\ "listedProcess" \in world
      \/ p = keyword /\ "keywordProcess" \in world
      \/ p = tool
      \/ p = Scanned /\ "scannedProcess" \in world
  BY ProcessList DEF Added
<1> HIDE DEF listed, keyword, tool, launcher, csrss
<1>7. CASE p = NoProcess \/ p = System
  <2>1. p.name = "" \/ p.name = "System"
    BY <1>7, SystemIs
  <2>6. p.pid = 0 \/ p.pid = 4
    BY <1>7, SystemIs
  <2>2. p.text = <<>>
    BY <1>7, SystemIs
  <2>3. p.pid # 100 /\ p.pid # 60
    BY <2>6
  <2>4. p.name # "cheatengine.exe"
    BY <2>1, Zenon
  <2>5. p.name # "mytrainer.exe"
    BY <2>1, Zenon
  <2> QED
    BY <2>2, <2>3, <2>4, <2>5, Zenon
<1>8. CASE p = OurSelf
  BY <1>8, OurSelfIs
<1>9. CASE p = csrss
  BY <1>5, <1>9
<1>10. CASE p = launcher
  BY <1>4, <1>10
<1>11. CASE p = listed /\ "listedProcess" \in world
  BY <1>1, <1>11
<1>12. CASE p = keyword /\ "keywordProcess" \in world
  BY <1>2, <1>12
<1>13. CASE p = tool
  BY <1>3, <1>13
<1>14. CASE p = Scanned /\ "scannedProcess" \in world
  BY <1>14, ScannedIs
<1> QED
  BY <1>6, <1>7, <1>8, <1>9, <1>10, <1>11, <1>12, <1>13, <1>14

\* The parent of the process and the process of Windows that has handles of everybody.
LEMMA Lookups ==
    /\ GetParentProcessId(Processes, 100) = 50
    /\ GetProcessName(Processes, 60) = "csrss.exe"
<1> DEFINE csrss == Program(60, "csrss.exe")
<1>1. Processes \in Seq(Listed(Processes))
  BY ProcessList
<1>2. OurSelf \in Listed(Processes) /\ csrss \in Listed(Processes)
  BY ProcessList
<1>3. OurSelf.pid = 100 /\ csrss.pid = 60
  BY OurSelfIs, ProgramIs
<1> HIDE DEF csrss
<1>4. ProcessOf(Processes, 100) \in Listed(Processes) /\ ProcessOf(Processes, 100).pid = 100
  BY <1>1, <1>2, <1>3, ProcessFound
<1>5. ProcessOf(Processes, 60) \in Listed(Processes) /\ ProcessOf(Processes, 60).pid = 60
  BY <1>1, <1>2, <1>3, ProcessFound
<1>6. ProcessOf(Processes, 100).parent = 50
  BY <1>4, ProcessFacts
<1>7. ProcessOf(Processes, 60).name = "csrss.exe" /\ ProcessOf(Processes, 60).open
  BY <1>5, ProcessFacts
<1> QED
  BY <1>6, <1>7 DEF GetParentProcessId, GetProcessName

-----------------------------------------------------------------------------
(* What the checks find *)

\* The check that is there for each trace.
LEMMA TellsIs ==
    /\ Tells("tlsGone") = "tls" /\ Tells("tlsMoved") = "tls"
    /\ Tells("tlsForeign") = "tls" /\ Tells("tlsExtra") = "tls"
    /\ Tells("mapped") = "mapped" /\ Tells("erased") = "mapped"
    /\ Tells("listedProcess") = "process" /\ Tells("keywordProcess") = "process"
    /\ Tells("jmpHook") = "hooks" /\ Tells("iatHook") = "iat"
    /\ Tells("unsignedDll") = "signature" /\ Tells("namesakeDll") = "signature"
    /\ Tells("cheatHandle") = "handles" /\ Tells("scannedProcess") = "scan"
    /\ Tells("key") = "registry"
    /\ Tells("testsigning") = "testsigning" /\ Tells("debugMode") = "testsigning"
    /\ Tells("hypervisor") = "hypervisor" /\ Tells("disc") = "disc"
    /\ Tells("wintrust") = "wintrust" /\ Tells("writable") = "writable"
    /\ Tells("window") = "window"
  BY DEF Tells

\* A trace that is there is a cause of its check.
LEMMA CauseIs ==
    ASSUME NEW x \in world, NEW c, Tells(x) = c,
           c \notin {"text", "self", "random", "disc", "unknown"}
    PROVE  HasCause(c)
  BY DEF HasCause, Causes

\* The thread-local storage of the program.
LEMMA TlsFound ==
    ASSUME IsTLSCallbackStructureModified(Executable, Tls) PROVE HasCause("tls")
<1>1. CASE {"tlsGone", "tlsMoved", "tlsForeign", "tlsExtra"} \cap world = {}
  <2>a. "tlsGone" \notin world /\ "tlsMoved" \notin world
    BY <1>1
  <2>b. "tlsForeign" \notin world /\ "tlsExtra" \notin world
    BY <1>1
  <2> DEFINE first == IF "tlsForeign" \in world THEN 5000 ELSE 1002
             more == If("tlsExtra", <<1003>>)
  <2>1. Tls.at = 1008
    BY <2>a DEF Tls
  <2>2. Tls.callbacks = <<first>> \o more
    BY DEF Tls
  <2>c. first = 1002 /\ more = <<>>
    BY <2>b DEF If
  <2> HIDE DEF first, more
  <2>d. /\ Len(<<first>> \o more) = 1
        /\ \A i \in DOMAIN (<<first>> \o more) : (<<first>> \o more)[i] = 1002
    BY <2>c
  <2>3. Executable.base = 1000 /\ Executable.size = 10
    BY DEF Executable, Module, NoModule
  <2> QED
    BY <2>1, <2>2, <2>3, <2>d DEF IsTLSCallbackStructureModified
<1>2. CASE {"tlsGone", "tlsMoved", "tlsForeign", "tlsExtra"} \cap world # {}
  <2>1. PICK x \in world : x \in {"tlsGone", "tlsMoved", "tlsForeign", "tlsExtra"}
    BY <1>2
  <2> QED
    BY <2>1, TellsIs, CauseIs
<1> QED
  BY <1>1, <1>2

\* The modules that are always there, and what the others are.
LEMMA ModuleFacts ==
    ASSUME NEW m \in Listed(Modules)
    PROVE  /\ m.base \in {1000, 1100, 1200, 1300, 1400, 1500, 1600} /\ m.size = 10
           /\ ~m.signed => m.name \in {"game.exe", "ws2_32.dll"} \/ "unsignedDll" \in world
           /\ m.name = "WINTRUST.dll" => m = Wintrust
<1>1. /\ Executable.base = 1000 /\ Executable.size = 10 /\ Executable.name = "game.exe"
  BY DEF Executable, Module, NoModule
<1>2. Wintrust.base = 1200 /\ Wintrust.size = 10 /\ Wintrust.signed = TRUE
  BY DEF Wintrust, Module, NoModule
<1>3. Ntdll.base = 1100 /\ Ntdll.size = 10 /\ Ntdll.signed = TRUE /\ Ntdll.name = "ntdll.dll"
  BY DEF Ntdll, Module, NoModule
<1>4. Ws2.base = 1300 /\ Ws2.size = 10 /\ Ws2.signed = TRUE /\ Ws2.name = "ws2_32.dll"
  BY DEF Ws2, Module, NoModule
<1>5. Cheat.base = 1400 /\ Cheat.size = 10 /\ Cheat.name = "cheat.dll"
  BY DEF Cheat, Module, NoModule
<1>6. /\ Overlay.base = 1600 /\ Overlay.size = 10
      /\ Overlay.signed = TRUE /\ Overlay.name = "overlay.dll"
  BY DEF Overlay, Module, NoModule
<1>7. Namesake.base = 1500 /\ Namesake.size = 10 /\ Namesake.name = "ws2_32.dll"
  BY DEF Namesake, Module, NoModule
<1>8. \/ m = Executable \/ m = Ntdll \/ m = Wintrust \/ m = Ws2
      \/ m = Cheat /\ "unsignedDll" \in world
      \/ m = Namesake \/ m = Overlay
  BY ModuleList DEF Loader, Added
<1>9. CASE m = Executable
  BY <1>1, <1>9
<1>10. CASE m = Ntdll
  BY <1>3, <1>10
<1>11. CASE m = Wintrust
  BY <1>2, <1>11
<1>12. CASE m = Ws2
  BY <1>4, <1>12
<1>13. CASE m = Cheat /\ "unsignedDll" \in world
  BY <1>5, <1>13
<1>14. CASE m = Namesake
  BY <1>7, <1>14
<1>15. CASE m = Overlay
  BY <1>6, <1>15
<1> QED
  BY <1>8, <1>9, <1>10, <1>11, <1>12, <1>13, <1>14, <1>15

\* The hash of the module that signatures are verified with.
LEMMA WintrustIs ==
    /\ GetModuleInfo(Modules, "WINTRUST.dll") = Wintrust
    /\ "wintrust" \notin world => Wintrust = CleanWintrust
    /\ \A count : GetModuleHash(Modules, "WINTRUST.dll", count) = HashOf(Wintrust, count)
<1>1. Modules \in Seq(Listed(Modules)) /\ Wintrust \in Listed(Modules)
  BY ModuleList DEF Loader
<1>2. Wintrust.name = "WINTRUST.dll"
  BY DEF Wintrust, Module, NoModule
<1>3. GetModuleInfo(Modules, "WINTRUST.dll") = Wintrust
  BY <1>1, <1>2, ModuleFound, ModuleFacts
<1>4. "wintrust" \notin world => Wintrust = CleanWintrust
  BY DEF Wintrust, CleanWintrust
<1>5. \A count : GetModuleHash(Modules, "WINTRUST.dll", count)
                    = HashOf(GetModuleInfo(Modules, "WINTRUST.dll"), count)
  BY DEF GetModuleHash, HashOf
<1> QED
  BY <1>3, <1>4, <1>5

SharedView == Region(3000, TRUE, TRUE, "code")
DataView == Region(3400, FALSE, FALSE, "pe")

\* Memory that may be executed outside of the modules.
LEMMA MappedFound ==
    ASSUME DetectManualMapping # {}, region = NoCopy PROVE HasCause("mapped")
<1>1. PICK r \in MemoryRegions :
        /\ r.execute /\ ~IsAddressInModule(Modules, r.base)
        /\ IsPEHeader(r.start) \/ (~r.shared /\ r.start = "code")
  BY DEF DetectManualMapping
<1> DEFINE A == {Region(Modules[i].base, TRUE, FALSE, "pe") : i \in DOMAIN Modules}
           B == {SharedView}
           C == {DataView}
<1>2. r \in A \/ r \in B \/ "mapped" \in world \/ "erased" \in world \/ r \in C
  <2> DEFINE D == {Region(3200, TRUE, FALSE, "pe")}
             E == {Region(3300, TRUE, FALSE, "code")}
             F == {Region(3100, TRUE, FALSE, "pe")}
  <2>1. MemoryRegions = A \cup B \cup (IF region = NoCopy THEN {} ELSE F)
                          \cup (IF "mapped" \in world THEN D ELSE {})
                          \cup (IF "erased" \in world THEN E ELSE {})
                          \cup (IF "mappedData" \in world THEN C ELSE {})
    BY DEF MemoryRegions, SharedView, DataView
  <2> HIDE DEF A, B, C, D, E, F
  <2> QED
    BY <1>1, <2>1
<1>3. r \notin A
  <2> SUFFICES ASSUME NEW i \in DOMAIN Modules, r = Region(Modules[i].base, TRUE, FALSE, "pe")
               PROVE  FALSE
    OBVIOUS
  <2>1. Modules[i] \in Listed(Modules)
    BY DEF Listed
  <2>2. r.base = Modules[i].base
    BY DEF Region
  <2>3. Modules[i].base \in Int /\ Modules[i].size = 10
    BY <2>1, ModuleFacts
  <2>4. IsAddressInModule(Modules, Modules[i].base)
    BY <2>1, <2>3 DEF IsAddressInModule
  <2> QED
    BY <1>1, <2>2, <2>4
<1>4. r \notin B
  <2> SUFFICES ASSUME r = SharedView PROVE FALSE
    OBVIOUS
  <2>1. r.shared = TRUE /\ r.start = "code"
    BY DEF Region, SharedView
  <2> QED
    BY <1>1, <2>1 DEF IsPEHeader
<1>5. r \notin C
  <2> SUFFICES ASSUME r = DataView PROVE FALSE
    OBVIOUS
  <2>1. r.execute = FALSE
    BY DEF Region, DataView
  <2> QED
    BY <1>1, <2>1
<1> HIDE DEF A, B, C
<1> QED
  BY <1>2, <1>3, <1>4, <1>5, TellsIs, CauseIs

\* A program that is on one of the lists.
LEMMA ProcessReported ==
    ASSUME IsBlacklistedProcessRunning(Processes, names, keywords, Contains),
           names \subseteq StaticNames, keywords \subseteq StaticKeywords
    PROVE  HasCause("process")
<1>1. PICK p \in Listed(Processes) :
        p.name \in names \/ \E word \in keywords : <<p.name, word>> \in Contains
  BY DEF IsBlacklistedProcessRunning
<1>2. p.name = "cheatengine.exe" \/ p.name = "mytrainer.exe"
  <2>1. CASE p.name \in names
    BY <2>1 DEF StaticNames
  <2>2. CASE \E word \in keywords : <<p.name, word>> \in Contains
    <3>1. PICK word : <<p.name, word>> \in Contains
      BY <2>2
    <3> QED
      BY <3>1 DEF Contains
  <2> QED
    BY <1>1, <2>1, <2>2
<1> QED
  BY <1>2, ProcessFacts, TellsIs, CauseIs

\* A module that nobody knows.
LEMMA UnknownFound ==
    ASSUME IsUnknownModulePresent(Modules, whitelist),
           {"game.exe", "ws2_32.dll"} \subseteq whitelist
    PROVE  "unsignedDll" \in world
<1>1. PICK m \in Listed(Modules) : m.name \notin whitelist /\ ~m.signed
  BY DEF IsUnknownModulePresent, IsUnknown
<1> QED
  BY <1>1, ModuleFacts

\* An import that leads out of the modules.
LEMMA ImportFound ==
    ASSUME DoesIATContainHooked(Modules, Imports) PROVE HasCause("iat")
<1>1. CASE "iatHook" \in world
  BY <1>1, TellsIs, CauseIs
<1>2. CASE "iatHook" \notin world
  <2>1. PICK i \in DOMAIN Imports : ~Inside(Modules, Imports[i][2])
    BY DEF DoesIATContainHooked, GetIATEntries
  <2>2. Imports[i][2] \in {1101, 1301}
    BY <1>2, <2>1 DEF Imports
  <2>3. Ntdll \in Listed(Modules) /\ Ws2 \in Listed(Modules)
    BY ModuleList DEF Loader
  <2>7. Ntdll.base = 1100 /\ Ntdll.size = 10
    BY DEF Ntdll, Module, NoModule
  <2>8. Ws2.base = 1300 /\ Ws2.size = 10
    BY DEF Ws2, Module, NoModule
  <2>5. Inside(Modules, 1101)
    BY <2>3, <2>7 DEF Inside
  <2>6. Inside(Modules, 1301)
    BY <2>3, <2>8 DEF Inside
  <2> QED
    BY <2>1, <2>2, <2>5, <2>6
<1> QED
  BY <1>1, <1>2

\* A handle of somebody else than Windows and the launcher.
LEMMA HandleFound ==
    ASSUME CheckOpenHandles(Processes, AllHandles, Self) PROVE HasCause("handles")
<1>1. CASE "cheatHandle" \in world
  BY <1>1, TellsIs, CauseIs
<1>2. CASE "cheatHandle" \notin world
  <2>1. PICK h \in AllHandles :
          /\ h.owner > 4 /\ h.target = 100 /\ h.owner # GetParentProcessId(Processes, 100)
          /\ GetProcessName(Processes, h.owner) \notin SystemOwners
    BY DEF CheckOpenHandles, DetectOpenHandlesToProcess, GetHandles, Self
  <2>2. h.owner \in {50, 60, 4}
    BY <1>2 DEF AllHandles, Launcher
  <2> QED
    BY <2>1, <2>2, Lookups DEF SystemOwners
<1> QED
  BY <1>1, <1>2

\* A program that has one of the patterns.
LEMMA ScanFound ==
    ASSUME NEW pid, patterns \subseteq {<<7, 9>>},
           "found" \in FindBlacklistedProgramsThroughByteScan(Processes, pid, patterns)
    PROVE  HasCause("scan")
<1> DEFINE text == ReadRemoteTextSection(Processes, pid)
<1>1. text # <<>> /\ \E pattern \in patterns : ByteScan(text, pattern) = "found"
  BY DEF FindBlacklistedProgramsThroughByteScan
<1>2. ByteScan(text, <<7, 9>>) = "found"
  BY <1>1
<1>3. text = ProcessOf(Processes, pid).text
  BY <1>1 DEF ReadRemoteTextSection
<1> HIDE DEF text
<1>4. text # Plain
  <2>1. Len(Plain) = 4 /\ Plain[1] = 1 /\ Plain[2] = 2 /\ Plain[3] = 3
    BY DEF Plain
  <2>2. Len(<<7, 9>>) = 2 /\ <<7, 9>>[1] = 7
    OBVIOUS
  <2>3. \A i \in 0..2 : Plain[i + 1] # 7
    BY <2>1
  <2>4. ByteScan(Plain, <<7, 9>>) # "found"
    BY <2>1, <2>2, <2>3 DEF ByteScan
  <2> QED
    BY <1>2, <2>4
<1>5. Processes \in Seq(Listed(Processes))
  BY ProcessList
<1>6. CASE ProcessOf(Processes, pid) = NoProcess
  BY <1>1, <1>3, <1>6, SystemIs DEF text
<1>7. CASE ProcessOf(Processes, pid) \in Listed(Processes)
  BY <1>1, <1>3, <1>4, <1>7, ProcessFacts, TellsIs, CauseIs DEF text
<1> QED
  BY <1>5, <1>6, <1>7, ProcessFound

\* The checks of a round.
CheckNames ==
    {"hypervisor", "tls", "text", "disc", "wintrust", "mapped", "process", "hooks", "unknown",
     "testsigning", "iat", "writable", "handles", "window", "self", "random"}

\* A step of the round is one of them.
LEMMA ChecksAre == \A i \in DOMAIN Checks : Checks[i] \in CheckNames
  BY DEF Checks, CheckNames

\* Code without a patch has the hashes that were taken of it.
LEMMA SameAsBefore ==
    ASSUME monitor # "none", BaselineInv, Patched = {}
    PROVE  /\ Check(memory[".text"], baseline.text)
           /\ "disc" \notin world => CheckFileIntegrityFromDisc(DiscText, baseline.text)
<1> DEFINE hash == GetMemoryHash({}, TextBlocks)
<1>1. baseline.text = hash /\ memory[".text"] = {}
  BY DEF BaselineInv, Patched
<1>2. Len(hash) = TextBlocks
  BY CodeAssumption DEF GetMemoryHash
<1>3. GetMemoryHash({}, Len(hash)) = hash
  BY <1>2
<1>4. SameHashes(hash, hash)
  BY DEF SameHashes
<1> HIDE DEF hash
<1>5. "disc" \notin world => DiscText = {}
  BY DEF DiscText
<1> QED
  BY <1>1, <1>3, <1>4, <1>5 DEF Check, CheckFileIntegrityFromDisc

\* Whatever a check finds has a cause.
LEMMA FoundHasCause ==
    ASSUME Inv, ReportInv, Running, NEW c \in CheckNames, Found(c)
    PROVE  HasCause(c)
<1>a. Alive /\ monitor = "round" /\ at = "done"
  BY DEF Running, Inv, MonitorInv
<1>b. ImageInv /\ KnownInv /\ BaselineInv
  BY DEF ReportInv
<1>1. CASE c = "hypervisor"
  <2>1. "hypervisor" \in world
    BY <1>1 DEF Found, IsHypervisorPresent
  <2> QED
    BY <1>1, <2>1, TellsIs, CauseIs
<1>2. CASE c = "tls"
  <2>1. IsTLSCallbackStructureModified(Executable, Tls)
    BY <1>2 DEF Found
  <2> QED
    BY <1>2, <2>1, TlsFound
<1>3. CASE c = "text"
  <2>1. ~Check(memory[".text"], baseline.text)
    BY <1>3 DEF Found
  <2> QED
    BY <1>3, <1>a, <1>b, <2>1, SameAsBefore DEF HasCause
<1>4. CASE c = "disc"
  <2>1. ~CheckFileIntegrityFromDisc(DiscText, baseline.text)
    BY <1>4 DEF Found
  <2>2. CASE "disc" \in world
    <3>1. Causes("disc") # {}
      BY <2>2, TellsIs DEF Causes
    <3> QED
      BY <1>4, <3>1 DEF HasCause
  <2>3. CASE "disc" \notin world
    <3>1. Patched # {}
      BY <1>a, <1>b, <2>1, <2>3, SameAsBefore
    <3> QED
      BY <1>4, <3>1 DEF HasCause
  <2> QED
    BY <2>2, <2>3
<1>5. CASE c = "wintrust"
  <2>1. IsModuleModified(Modules, "WINTRUST.dll", moduleHashes, numSections)
    BY <1>5 DEF Found
  <2>2. "wintrust" \in world
    <3> SUFFICES ASSUME "wintrust" \notin world PROVE FALSE
      OBVIOUS
    <3> DEFINE hash == HashOf(CleanWintrust, numSections)
    <3>1. GetModuleHash(Modules, "WINTRUST.dll", numSections) = hash
      BY WintrustIs
    <3>2. "WINTRUST.dll" \in DOMAIN moduleHashes => moduleHashes["WINTRUST.dll"] = hash
      BY <1>a, <1>b DEF KnownInv
    <3>3. SameHashes(hash, hash)
      BY DEF SameHashes
    <3> HIDE DEF hash
    <3> QED
      BY <2>1, <3>1, <3>2, <3>3 DEF IsModuleModified
  <2> QED
    BY <1>5, <2>2, TellsIs, CauseIs
<1>6. CASE c = "mapped"
  <2>1. DetectManualMapping # {}
    BY <1>6 DEF Found
  <2>2. region = NoCopy
    BY <1>a, <1>b DEF ImageInv, After
  <2> QED
    BY <1>6, <2>1, <2>2, MappedFound
<1>7. CASE c = "process"
  <2>1. IsBlacklistedProcessRunning(Processes, names, keywords, Contains)
    BY <1>7 DEF Found
  <2> QED
    BY <1>7, <1>b, <2>1, ProcessReported DEF KnownInv
<1>8. CASE c = "hooks"
  <2>1. "jmpHook" \in world
    BY <1>8 DEF Found, DoesFunctionAppearHooked, SendOpcode
  <2> QED
    BY <1>8, <2>1, TellsIs, CauseIs
<1>9. CASE c = "unknown"
  <2>1. IsUnknownModulePresent(Modules, whitelist)
    BY <1>9 DEF Found
  <2>2. {"game.exe", "ws2_32.dll"} \subseteq whitelist
    BY <1>a, <1>b DEF KnownInv
  <2>3. "unsignedDll" \in world
    BY <2>1, <2>2, UnknownFound
  <2> QED
    BY <1>9, <2>3 DEF HasCause
<1>10. CASE c = "testsigning"
  <2>1. "testsigning" \in world \/ "debugMode" \in world
    BY <1>10 DEF Found, IsTestsigningOrDebugMode
  <2> QED
    BY <1>10, <2>1, TellsIs, CauseIs
<1>11. CASE c = "iat"
  <2>1. DoesIATContainHooked(Modules, Imports)
    BY <1>11 DEF Found
  <2> QED
    BY <1>11, <2>1, ImportFound
<1>12. CASE c = "writable"
  <2>1. IsTextSectionWritable
    BY <1>12 DEF Found
  <2>2. "writable" \in world
    BY <1>a, <1>b, <2>1 DEF ImageInv, After, IsTextSectionWritable
  <2> QED
    BY <1>12, <2>2, TellsIs, CauseIs
<1>13. CASE c = "handles"
  <2>1. CheckOpenHandles(Processes, AllHandles, Self)
    BY <1>13 DEF Found
  <2> QED
    BY <1>13, <2>1, HandleFound
<1>14. CASE c = "window"
  <2>1. "window" \in world
    BY <1>14 DEF Found, IsBlacklistedWindowPresent
  <2> QED
    BY <1>14, <2>1, TellsIs, CauseIs
<1>15. CASE c = "self"
  <2>1. (MonitorBlock \in memory[".text"]) # baseline.self
    BY <1>15 DEF Found
  <2>2. Patched # {}
    <3> SUFFICES ASSUME Patched = {} PROVE FALSE
      OBVIOUS
    <3>1. baseline.self = FALSE
      BY <1>a, <1>b DEF BaselineInv
    <3>2. (MonitorBlock \in memory[".text"]) = FALSE
      BY DEF Patched
    <3> QED
      BY <2>1, <3>1, <3>2, Zenon
  <2> QED
    BY <1>15, <2>2 DEF HasCause
<1>16. CASE c = "random"
  <2>1. InRandomBlock(memory[".text"], baseline.block) # baseline.random
    BY <1>16 DEF Found
  <2>2. Patched # {}
    BY <1>a, <1>b, <2>1 DEF BaselineInv, Patched, InRandomBlock
  <2> QED
    BY <1>16, <2>2 DEF HasCause
<1> QED
  BY <1>1, <1>2, <1>3, <1>4, <1>5, <1>6, <1>7, <1>8, <1>9, <1>10, <1>11, <1>12, <1>13, <1>14,
     <1>15, <1>16 DEF CheckNames

-----------------------------------------------------------------------------
(* The steps of the checks *)

\* What was a cause is one ever after.
LEMMA CauseStays ==
    ASSUME NoReportWithoutCause, world \subseteq world', Patched # {} => Patched' # {},
           NEW c \in reports
    PROVE  HasCause(c)'
<1>1. HasCause(c)
  BY DEF NoReportWithoutCause, HasCause
<1>2. Causes(c) \subseteq Causes(c)'
  BY DEF Causes
<1> QED
  BY <1>1, <1>2 DEF HasCause

\* A step that reports what has a cause.
LEMMA CauseKept ==
    ASSUME NoReportWithoutCause, world \subseteq world', Patched # {} => Patched' # {},
           \A c \in reports' : c \in reports \/ HasCause(c)'
    PROVE  NoReportWithoutCause'
<1>1. \A c \in reports' : HasCause(c)'
  BY CauseStays
<1> QED
  BY <1>1 DEF NoReportWithoutCause, HasCause

\* A step that leaves the code mapped as it is.
LEMMA ImageKept ==
    ASSUME ImageInv, UNCHANGED <<at, access, region>>, Alive' => Alive, world \subseteq world'
    PROVE  ImageInv'
  BY DEF ImageInv

\* A step that leaves the hashes and the patterns, and adds to the whitelist at most.
LEMMA KnownKept ==
    ASSUME KnownInv, at' # "count" => at # "count",
           UNCHANGED <<numSections, moduleHashes, patterns>>,
           world \subseteq world', whitelist \subseteq whitelist',
           names' \subseteq StaticNames, keywords' \subseteq StaticKeywords
    PROVE  KnownInv'
  BY DEF KnownInv

\* A step that queues and signals nothing.
LEMMA SignalKept ==
    ASSUME SignalInv, world \subseteq world', UNCHANGED <<queue, key>>
    PROVE  SignalInv'
<1>1. {Loaded(x) : x \in Dlls \cap world} \subseteq {Loaded(x) : x \in Dlls \cap world'}
  OBVIOUS
<1>2. ASSUME NEW S, NEW T, S \subseteq T PROVE Seq(S) \subseteq Seq(T)
  BY <1>2
<1> QED
  BY <1>1, <1>2 DEF SignalInv

\* A step in which no patch goes away.
LEMMA BaselineKept ==
    ASSUME BaselineInv, UNCHANGED <<monitor, baseline>>,
           monitor # "none" /\ Patched # {} => Patched' # {},
           monitor = "none" => reports' = reports
    PROVE  BaselineInv'
  BY DEF BaselineInv

\* The program as it was loaded.
LEMMA InitReport == Init => ReportInv
<1> SUFFICES ASSUME Init PROVE ReportInv
  OBVIOUS
<1>1. ImageInv
  BY SectionFacts, CodeAssumption
  DEF Init, BarrierInit, InitialAccess, ImageInv, Untouched, UntilUnmapped, After
<1>2. KnownInv
  BY DEF Init, BarrierInit, InspectInit, KnownInv
<1>3. SignalInv
  BY DEF Init, InspectInit, SignalInv
<1>4. BaselineInv /\ NoReportWithoutCause
  BY DEF Init, InspectInit, BaselineInv, NoReportWithoutCause
<1> QED
  BY <1>1, <1>2, <1>3, <1>4 DEF ReportInv

\* The modules are there before the barrier, and what is loaded by then is known.
LEMMA ConstructReport == Inv /\ ReportInv /\ Construct => ReportInv'
<1> SUFFICES ASSUME Inv, ReportInv, Construct PROVE ReportInv'
  OBVIOUS
<1>1. /\ at = "count" /\ at' = "spoof"
      /\ UNCHANGED <<view, access, memory, region, done, end, world, monitor, baseline, queue,
                     key, reports>>
  BY DEF Construct, CountSections, imageVars, copyVars, roundVars, threadVars
<1>a. ImageInv /\ KnownInv /\ SignalInv /\ BaselineInv /\ NoReportWithoutCause
  BY DEF ReportInv
<1>2. ImageInv'
  BY <1>1, <1>a DEF ImageInv, Untouched, UntilUnmapped, After
<1>3. KnownInv'
  <2>1. {"game.exe", "ws2_32.dll"} \subseteq whitelist'
    <3>1. whitelist' = {m.name : m \in Listed(Modules)}
      BY DEF Construct
    <3>2. Executable \in Listed(Modules) /\ Ws2 \in Listed(Modules)
      BY ModuleList DEF Loader
    <3>3. Executable.name = "game.exe" /\ Ws2.name = "ws2_32.dll"
      BY DEF Executable, Ws2, Module, NoModule
    <3> QED
      BY <3>1, <3>2, <3>3
  <2>2. ASSUME "wintrust" \notin world, "WINTRUST.dll" \in DOMAIN moduleHashes'
        PROVE  moduleHashes'["WINTRUST.dll"] = HashOf(CleanWintrust, numSections')
    <3>1. moduleHashes' = [name \in {m.name : m \in Listed(Tail(Modules))}
                              |-> GetModuleHash(Modules, name, numSections')]
      BY DEF Construct, GetModuleHashes
    <3>2. moduleHashes'["WINTRUST.dll"] = GetModuleHash(Modules, "WINTRUST.dll", numSections')
      BY <2>2, <3>1
    <3> QED
      BY <2>2, <3>2, WintrustIs
  <2>3. names' \subseteq StaticNames /\ keywords' \subseteq StaticKeywords
    BY DEF Construct
  <2>4. patterns' \subseteq {<<7, 9>>}
    BY DEF Construct
  <2> QED
    BY <1>1, <2>1, <2>2, <2>3, <2>4 DEF KnownInv
<1>4. SignalInv'
  BY <1>1, <1>a, SignalKept
<1>5. BaselineInv' /\ NoReportWithoutCause'
  BY <1>1, <1>a, BaselineKept, CauseKept DEF Patched
<1> QED
  BY <1>2, <1>3, <1>4, <1>5 DEF ReportInv

\* The barrier maps the code with the access it was linked with, and frees the copy.
LEMMA DeployImage == Inv /\ Inv' /\ ImageInv /\ Deploy /\ UNCHANGED world => ImageInv'
<1> SUFFICES ASSUME Inv, Inv', ImageInv, Deploy, UNCHANGED world PROVE ImageInv'
  OBVIOUS
<1> USE DEF ImageInv, Untouched, UntilUnmapped, After
<1>1. CASE ChangeNumberOfSections
  <2>1. access'[".text"] = access[".text"]
    <3>1. /\ ".text" \in Regions /\ ".text" # "header"
          /\ access \in [Regions -> SUBSET {"r", "w", "x"}]
      BY SectionFacts DEF Inv, TypeInv
    <3> QED
      BY <1>1, <3>1 DEF ChangeNumberOfSections
  <2> QED
    BY <1>1, <2>1 DEF ChangeNumberOfSections, copyVars
<1>2. CASE VerifyHeaders
  BY <1>2 DEF VerifyHeaders, RemapFails, imageVars, copyVars
<1>3. CASE CopyToRegion
  BY <1>3 DEF CopyToRegion, imageVars
<1>4. CASE CreateSection
  BY <1>4 DEF CreateSection, RemapFails, imageVars
<1>5. CASE CopyToView
  BY <1>5 DEF CopyToView, imageVars
<1>6. CASE UnmapImage
  BY <1>6 DEF UnmapImage, RemapFails, imageVars
<1>7. CASE MapSections
  BY <1>7 DEF MapSections
<1>8. CASE MapHeader
  <2>1. CASE at' = at
    BY <1>8, <2>1 DEF MapHeader
  <2>2. CASE at' = "validate" /\ end' = end
    <3>1. Alive'
      BY <1>8, <2>2 DEF MapHeader, Alive
    <3>2. Locked'
      BY <2>2, <3>1 DEF Inv, MapInv
    <3>3. access'[".text"] = Converted({"r", "x"})
      BY <3>2, SectionFacts, CodeAssumption DEF Locked
    <3>4. Converted({"r", "x"}) = {"r", "x"}
      BY DEF Converted
    <3> QED
      BY <2>2, <3>3, <3>4
  <2> QED
    BY <1>8, <2>1, <2>2 DEF MapHeader
<1>9. CASE ValidateImage
  BY <1>9 DEF ValidateImage, RemapFails, imageVars, Alive
<1>10. CASE PreventThreads
  BY <1>10 DEF PreventThreads, imageVars, copyVars, Alive
<1>11. CASE RandomizeModuleName
  BY <1>11 DEF RandomizeModuleName, Technique, imageVars, copyVars, Alive
<1>12. CASE StopAPCInjection
  BY <1>12 DEF StopAPCInjection, Technique, imageVars, copyVars, Alive
<1>13. CASE EnableProcessMitigations
  BY <1>13 DEF EnableProcessMitigations, imageVars, copyVars, Alive
<1> QED
  BY <1>1, <1>2, <1>3, <1>4, <1>5, <1>6, <1>7, <1>8, <1>9, <1>10, <1>11, <1>12, <1>13
  DEF Deploy

\* Nothing is reported before the barrier is done, and it keeps no list of the checks.
LEMMA DeployReport == Inv /\ Inv' /\ ReportInv /\ Deploy /\ UNCHANGED inspectVars => ReportInv'
<1> SUFFICES ASSUME Inv, Inv', ReportInv, Deploy, UNCHANGED inspectVars PROVE ReportInv'
  OBVIOUS
<1>1. at \notin {"count", "done"} /\ UNCHANGED numSections
  BY DEF Deploy, ChangeNumberOfSections, VerifyHeaders, CopyToRegion, CreateSection, CopyToView,
     UnmapImage, MapSections, MapHeader, ValidateImage, PreventThreads, RandomizeModuleName,
     StopAPCInjection, EnableProcessMitigations, Technique
<1>2. UNCHANGED <<world, whitelist, moduleHashes, patterns, names, keywords, queue, monitor,
                  baseline, key, reports>>
  BY DEF inspectVars, listVars, roundVars, threadVars
<1>a. ImageInv /\ KnownInv /\ SignalInv /\ BaselineInv /\ NoReportWithoutCause
  BY DEF ReportInv
<1>3. monitor = "none" /\ reports = {}
  BY <1>1, <1>a DEF Inv, MonitorInv, BaselineInv
<1>4. ImageInv'
  BY <1>2, <1>a, DeployImage
<1>5. KnownInv'
  BY <1>1, <1>2, <1>a, KnownKept DEF KnownInv
<1>6. SignalInv'
  BY <1>2, <1>a, SignalKept
<1>7. BaselineInv' /\ NoReportWithoutCause'
  BY <1>2, <1>3 DEF BaselineInv, NoReportWithoutCause
<1> QED
  BY <1>4, <1>5, <1>6, <1>7 DEF ReportInv

\* A step beside the barrier that keeps the lists and the hashes.
LEMMA ReportBeside ==
    ASSUME ReportInv, UNCHANGED <<at, access, region, numSections, moduleHashes, patterns, monitor,
                                  baseline>>,
           Alive' => Alive, world \subseteq world', whitelist \subseteq whitelist',
           names' \subseteq StaticNames, keywords' \subseteq StaticKeywords, SignalInv',
           Patched # {} => Patched' # {}, monitor = "none" => reports' = reports,
           \A c \in reports' : c \in reports \/ HasCause(c)'
    PROVE  ReportInv'
<1>1. ImageInv' /\ KnownInv' /\ BaselineInv' /\ NoReportWithoutCause'
  BY ImageKept, KnownKept, BaselineKept, CauseKept DEF ReportInv
<1> QED
  BY <1>1 DEF ReportInv

\* A step of the other threads adds patches at most.
LEMMA OthersReport == Inv /\ ReportInv /\ Others /\ UNCHANGED inspectVars => ReportInv'
<1> SUFFICES ASSUME Inv, ReportInv, Others, UNCHANGED inspectVars PROVE ReportInv'
  OBVIOUS
<1>1. UNCHANGED <<world, whitelist, moduleHashes, patterns, names, keywords, queue, monitor,
                  baseline, key, reports>>
  BY DEF inspectVars, listVars, roundVars, threadVars
<1>2. /\ UNCHANGED <<at, access, region, numSections>> /\ (Alive' => Alive)
      /\ Patched # {} => Patched' # {}
  <2>1. CASE \E t \in Workers : Run(t)
    BY <2>1 DEF Run, imageVars, copyVars, Alive, Patched
  <2>2. CASE \E t \in Workers : Write(t)
    <3>1. memory'[".text"] = memory[".text"]
      <4>1. ".text" # ".data" /\ DOMAIN memory = Regions /\ ".text" \in Regions
        BY SectionFacts DEF Inv, TypeInv
      <4> QED
        BY <2>2, <4>1 DEF Write
    <3> QED
      BY <2>2, <3>1 DEF Write, copyVars, Alive, Patched
  <2>3. CASE \E b \in Patches : Patch(b)
    <3>1. PICK b \in Patches : Patch(b)
      BY <2>3
    <3>2. memory'[".text"] = memory[".text"] \cup {b}
      BY <3>1, SectionFacts DEF Patch, Inv, TypeInv
    <3> QED
      BY <3>1, <3>2 DEF Patch, copyVars, Alive, Patched
  <2> QED
    BY <2>1, <2>2, <2>3 DEF Others
<1>3. SignalInv'
  BY <1>1, SignalKept DEF ReportInv
<1> QED
  BY <1>1, <1>2, <1>3, ReportBeside DEF ReportInv, KnownInv

\* The hashes are taken of the code as it is.
LEMMA StartMonitorReport == Inv /\ ReportInv /\ StartMonitor => ReportInv'
<1> SUFFICES ASSUME Inv, ReportInv, StartMonitor PROVE ReportInv'
  OBVIOUS
<1>1. PICK block \in RandomBlocks :
        baseline' = [text |-> GetMemoryHash(memory[".text"], TextBlocks),
                     self |-> MonitorBlock \in memory[".text"], block |-> block,
                     random |-> InRandomBlock(memory[".text"], block)]
  BY DEF StartMonitor
<1>2. /\ monitor = "none" /\ monitor' = "round"
      /\ UNCHANGED <<at, access, region, numSections, memory, end, world, listVars, queue, key,
                     reports>>
  BY DEF StartMonitor, barrierVars, imageVars, copyVars
<1>a. ImageInv /\ KnownInv /\ SignalInv /\ BaselineInv /\ NoReportWithoutCause
  BY DEF ReportInv
<1>3. reports = {} /\ reports' = {}
  BY <1>2, <1>a DEF BaselineInv
<1>4. ImageInv' /\ KnownInv' /\ SignalInv'
  BY <1>2, <1>a, ImageKept, KnownKept, SignalKept DEF listVars, KnownInv, Alive
<1>5. BaselineInv'
  <2> SUFFICES ASSUME Patched' = {}
               PROVE  /\ baseline'.text = GetMemoryHash({}, TextBlocks)
                      /\ baseline'.self = FALSE /\ baseline'.random = FALSE
    BY <1>2 DEF BaselineInv
  <2>1. memory[".text"] = {}
    BY <1>2 DEF Patched
  <2>2. baseline'.text = GetMemoryHash({}, TextBlocks)
    BY <1>1, <2>1
  <2>3. baseline'.self = FALSE
    <3>1. baseline'.self = (MonitorBlock \in memory[".text"])
      BY <1>1
    <3>2. (MonitorBlock \in memory[".text"]) = FALSE
      BY <2>1
    <3> QED
      BY <3>1, <3>2, Zenon
  <2>4. baseline'.random = FALSE
    <3>1. baseline'.random = InRandomBlock(memory[".text"], block)
      BY <1>1
    <3>2. InRandomBlock(memory[".text"], block) = FALSE
      BY <2>1 DEF InRandomBlock
    <3> QED
      BY <3>1, <3>2
  <2> QED
    BY <2>2, <2>3, <2>4
<1> QED
  BY <1>3, <1>4, <1>5 DEF ReportInv, NoReportWithoutCause

\* A step of the threads that leaves the process alone.
LEMMA ThreadReport ==
    ASSUME Inv, ReportInv,
           UNCHANGED <<barrierVars, world, moduleHashes, patterns, monitor, baseline>>,
           whitelist \subseteq whitelist', names' \subseteq StaticNames,
           keywords' \subseteq StaticKeywords, SignalInv',
           monitor = "none" => reports' = reports,
           \A c \in reports' : c \in reports \/ HasCause(c)
    PROVE  ReportInv'
<1>1. /\ UNCHANGED <<at, access, region, numSections, memory, end, world>>
  BY DEF barrierVars, imageVars, copyVars
<1>2. \A c : HasCause(c)' <=> HasCause(c)
  BY <1>1 DEF HasCause, Causes, Patched
<1> QED
  BY <1>1, <1>2, ReportBeside DEF Alive, Patched

\* A queued module without a signature was loaded by somebody.
LEMMA QueueHasCause ==
    ASSUME SignalInv, NEW i \in DOMAIN queue, ~queue[i].signed PROVE HasCause("signature")
<1>1. queue[i] \in {Loaded(x) : x \in Dlls \cap world}
  BY DEF SignalInv
<1>2. PICK x \in Dlls \cap world : queue[i] = Loaded(x)
  BY <1>1
<1>3. x # "signedDll"
  <2>1. Overlay.signed = TRUE /\ Loaded("signedDll") = Overlay
    BY DEF Loaded, Overlay, Module, NoModule
  <2> QED
    BY <1>2, <2>1
<1> QED
  BY <1>2, <1>3, TellsIs, CauseIs DEF Dlls

\* The thread of Monitor.
LEMMA MonitorReport == Inv /\ ReportInv /\ MonitorStep => ReportInv'
<1> SUFFICES ASSUME Inv, ReportInv, MonitorStep PROVE ReportInv'
  OBVIOUS
<1>a. ImageInv /\ KnownInv /\ SignalInv /\ BaselineInv /\ NoReportWithoutCause
  BY DEF ReportInv
<1>b. names \subseteq StaticNames /\ keywords \subseteq StaticKeywords
  BY <1>a DEF KnownInv
<1>1. CASE StartMonitor
  BY <1>1, StartMonitorReport
<1>2. CASE StartRound
  <2>1. /\ monitor = "round" /\ queue' = <<>>
        /\ UNCHANGED <<barrierVars, world, moduleHashes, patterns, whitelist, names, keywords,
                       monitor, baseline, key>>
    BY <1>2 DEF StartRound, Running, listVars, threadVars
  <2>2. \A c \in reports' : c \in reports \/ HasCause(c)
    <3>1. \/ reports' = reports
          \/ /\ reports' = reports \cup {"signature"}
             /\ \E i \in DOMAIN queue : ~queue[i].signed
      BY <1>2 DEF StartRound, Report
    <3> QED
      BY <3>1, <1>a, QueueHasCause
  <2>3. SignalInv'
    BY <1>a, <2>1 DEF SignalInv
  <2> QED
    BY <1>b, <2>1, <2>2, <2>3, ThreadReport
<1>3. CASE Inspect
  <2> DEFINE c == Checks[step]
  <2>1. /\ Running /\ step \in DOMAIN Checks
        /\ UNCHANGED <<barrierVars, world, moduleHashes, patterns, names, keywords, monitor,
                       baseline, queue, key>>
    BY <1>3 DEF Inspect, threadVars
  <2>2. reports' = reports \/ (reports' = reports \cup {c} /\ Found(c))
    BY <1>3 DEF Inspect, Report
  <2>3. whitelist \subseteq whitelist'
    BY <1>3 DEF Inspect, WhitelistAfter
  <2>4. c \in CheckNames
    BY <2>1, ChecksAre
  <2> HIDE DEF c
  <2>5. \A d \in reports' : d \in reports \/ HasCause(d)
    BY <2>1, <2>2, <2>4, FoundHasCause
  <2>6. SignalInv'
    BY <1>a, <2>1, SignalKept
  <2>7. monitor # "none"
    BY <2>1 DEF Running
  <2> QED
    BY <1>b, <2>1, <2>3, <2>5, <2>6, <2>7, ThreadReport
<1>4. CASE UpdateBlacklistsFromServer
  <2>1. /\ UNCHANGED <<barrierVars, world, moduleHashes, patterns, whitelist, monitor, baseline,
                       queue, key, reports>>
        /\ names' \subseteq StaticNames /\ keywords' \subseteq StaticKeywords
    BY <1>4, <1>b DEF UpdateBlacklistsFromServer, threadVars
  <2>2. SignalInv'
    BY <1>a, <2>1, SignalKept
  <2> QED
    BY <2>1, <2>2, ThreadReport
<1> QED
  BY <1>1, <1>2, <1>3, <1>4 DEF MonitorStep

\* The threads for new processes and for the registry.
LEMMA WatchersReport == Inv /\ ReportInv /\ (CreationStep \/ RegistryStep) => ReportInv'
<1> SUFFICES ASSUME Inv, ReportInv, CreationStep \/ RegistryStep PROVE ReportInv'
  OBVIOUS
<1>a. KnownInv /\ SignalInv
  BY DEF ReportInv
<1>b. /\ names \subseteq StaticNames /\ keywords \subseteq StaticKeywords
      /\ patterns \subseteq {<<7, 9>>}
  BY <1>a DEF KnownInv
<1>1. /\ UNCHANGED <<barrierVars, world, moduleHashes, patterns, whitelist, names, keywords,
                     monitor, baseline, queue>>
      /\ monitor = "round"
  BY DEF CreationStep, RegistryStep, SetUpCreation, ScanNewProcess, SetUpRegistry, WaitForKey,
     Running, listVars, roundVars
<1>2. CASE SetUpCreation
  <2>1. SignalInv' /\ reports' = reports
    BY <1>1, <1>2, <1>a, SignalKept DEF SetUpCreation
  <2> QED
    BY <1>1, <1>b, <2>1, ThreadReport
<1>3. CASE ScanNewProcess
  <2>1. SignalInv'
    BY <1>1, <1>3, <1>a, SignalKept DEF ScanNewProcess
  <2>2. PICK pid \in spawned \ scanned :
          Report("scan", "found" \in
                     FindBlacklistedProgramsThroughByteScan(Processes, pid, patterns))
    BY <1>3 DEF ScanNewProcess
  <2>3. \A c \in reports' : c \in reports \/ HasCause(c)
    BY <2>2, <1>b, ScanFound DEF Report
  <2> QED
    BY <1>1, <1>b, <2>1, <2>3, ThreadReport
<1>4. CASE SetUpRegistry
  <2>1. reports' = reports /\ (key' = key \/ key' = [k \in Keys |-> "watched"])
    BY <1>4 DEF SetUpRegistry
  <2>2. SignalInv'
    BY <1>1, <1>a, <2>1 DEF SignalInv
  <2> QED
    BY <1>1, <1>b, <2>1, <2>2, ThreadReport
<1>5. CASE WaitForKey
  <2>1. PICK k \in Keys : /\ key[k] = "changed" /\ Report("registry", ShouldFlag)
                          /\ key' = [key EXCEPT ![k] = "watched"]
    BY <1>5 DEF WaitForKey
  <2>2. HasCause("registry")
    BY <2>1, <1>a, TellsIs, CauseIs DEF SignalInv
  <2>3. SignalInv'
    BY <1>1, <1>a, <2>1 DEF SignalInv
  <2>4. \A c \in reports' : c \in reports \/ HasCause(c)
    BY <2>1, <2>2 DEF Report
  <2> QED
    BY <1>1, <1>b, <2>3, <2>4, ThreadReport
<1> QED
  BY <1>2, <1>3, <1>4, <1>5 DEF CreationStep, RegistryStep

\* What somebody does is there afterwards.
LEMMA TamperReport ==
    ASSUME Inv, ReportInv,
           \/ \E x \in Traces \ {"writable"} : Tamper(x)
           \/ ParentExits \/ RemapWritable \/ \E k \in Keys : ChangeKey(k)
    PROVE  ReportInv'
<1>a. KnownInv /\ SignalInv /\ ImageInv /\ BaselineInv /\ NoReportWithoutCause
  BY DEF ReportInv
<1>b. names \subseteq StaticNames /\ keywords \subseteq StaticKeywords
  BY <1>a DEF KnownInv
<1>1. CASE \E x \in Traces \ {"writable"} : Tamper(x)
  <2>1. PICK x \in Traces \ {"writable"} : Tamper(x)
    BY <1>1
  <2>2. /\ world' = world \cup {x}
        /\ queue' = IF x \in Dlls THEN Append(queue, Loaded(x)) ELSE queue
        /\ UNCHANGED <<at, access, region, numSections, memory, end, listVars, monitor, baseline,
                       key, reports>>
    BY <2>1 DEF Tamper, barrierVars, imageVars, copyVars
  <2>3. SignalInv'
    <3> DEFINE S == {Loaded(d) : d \in Dlls \cap world}
               T == {Loaded(d) : d \in Dlls \cap world'}
    <3>1. S \subseteq T /\ (x \in Dlls => Loaded(x) \in T)
      BY <2>2
    <3>2. queue \in Seq(S)
      BY <1>a DEF SignalInv
    <3> HIDE DEF S, T
    <3>3. queue \in Seq(T)
      BY <3>1, <3>2
    <3>4. queue' \in Seq(T)
      BY <2>2, <3>1, <3>3
    <3>5. \A k \in Keys : key'[k] = "changed" => "key" \in world'
      BY <1>a, <2>2 DEF SignalInv
    <3> QED
      BY <3>4, <3>5 DEF SignalInv, T
  <2> QED
    BY <1>b, <2>2, <2>3, ReportBeside DEF listVars, Alive, Patched
<1>2. CASE ParentExits
  <2>1. UNCHANGED <<at, access, region, numSections, memory, end, world, listVars, monitor,
                    baseline, queue, key, reports>>
    BY <1>2 DEF ParentExits, barrierVars, imageVars, copyVars, roundVars, threadVars
  <2>2. SignalInv'
    BY <1>a, <2>1, SignalKept
  <2> QED
    BY <1>b, <2>1, <2>2, ReportBeside DEF listVars, Alive, Patched
<1>3. CASE RemapWritable
  <2>1. /\ world' = world \cup {"writable"} /\ monitor # "none"
        /\ UNCHANGED <<at, region, numSections, memory, end, listVars, monitor, baseline, queue,
                       key, reports>>
    BY <1>3 DEF RemapWritable, MayTamper, Running, copyVars, roundVars, threadVars
  <2>2. at = "done"
    BY <2>1 DEF Inv, MonitorInv
  <2>3. ImageInv'
    BY <1>a, <2>1, <2>2 DEF ImageInv, Untouched, UntilUnmapped
  <2>4. KnownInv' /\ SignalInv'
    BY <1>a, <1>b, <2>1, KnownKept, SignalKept DEF listVars
  <2>5. BaselineInv' /\ NoReportWithoutCause'
    BY <1>a, <2>1, BaselineKept, CauseKept DEF Patched
  <2> QED
    BY <2>3, <2>4, <2>5 DEF ReportInv
<1>4. CASE \E k \in Keys : ChangeKey(k)
  <2>1. PICK k \in Keys : ChangeKey(k)
    BY <1>4
  <2>2. /\ world' = world \cup {"key"} /\ key' = [key EXCEPT ![k] = "changed"]
        /\ UNCHANGED <<at, access, region, numSections, memory, end, listVars, monitor, baseline,
                       queue, reports>>
    BY <2>1 DEF ChangeKey, barrierVars, imageVars, copyVars, roundVars
  <2>3. SignalInv'
    <3>1. queue' \in Seq({Loaded(x) : x \in Dlls \cap world'})
      <4>1. {Loaded(x) : x \in Dlls \cap world} \subseteq {Loaded(x) : x \in Dlls \cap world'}
        BY <2>2
      <4>2. ASSUME NEW S, NEW T, S \subseteq T PROVE Seq(S) \subseteq Seq(T)
        BY <4>2
      <4> QED
        BY <1>a, <2>2, <4>1, <4>2 DEF SignalInv
    <3> QED
      BY <1>a, <2>2, <3>1 DEF SignalInv
  <2> QED
    BY <1>b, <2>2, <2>3, ReportBeside DEF listVars, Alive, Patched
<1> QED
  BY <1>1, <1>2, <1>3, <1>4

\* What the checks report is there, in whatever step it is done and reported.
THEOREM ReportsHaveACause == Spec => []NoReportWithoutCause
<1>1. Inv /\ Inv' /\ ReportInv /\ [Next]_vars => ReportInv'
  <2> SUFFICES ASSUME Inv, Inv', ReportInv, [Next]_vars PROVE ReportInv'
    OBVIOUS
  <2>1. CASE Construct
    BY <2>1, ConstructReport
  <2>2. CASE BarrierStep
    BY <2>2, DeployReport, OthersReport DEF BarrierStep
  <2>3. CASE MonitorStep
    BY <2>3, MonitorReport
  <2>4. CASE CreationStep \/ RegistryStep
    BY <2>4, WatchersReport
  <2>5. CASE \/ \E x \in Traces \ {"writable"} : Tamper(x)
             \/ ParentExits \/ RemapWritable \/ \E k \in Keys : ChangeKey(k)
    BY <2>5, TamperReport
  <2>6. CASE UNCHANGED vars
    <3>1. UNCHANGED <<barrierVars, world, moduleHashes, patterns, whitelist, names, keywords,
                      monitor, baseline, queue, key, reports>>
      BY <2>6 DEF vars, inspectVars, listVars, roundVars, threadVars
    <3>2. SignalInv /\ KnownInv
      BY DEF ReportInv
    <3>3. SignalInv' /\ names' \subseteq StaticNames /\ keywords' \subseteq StaticKeywords
      BY <3>1, <3>2, SignalKept DEF KnownInv
    <3> QED
      BY <3>1, <3>3, ThreadReport
  <2> QED
    BY <2>1, <2>2, <2>3, <2>4, <2>5, <2>6 DEF Next
<1>2. ReportInv => NoReportWithoutCause
  BY DEF ReportInv
<1> QED
  BY Invariance, InitReport, <1>1, <1>2, PTL DEF Spec

=============================================================================

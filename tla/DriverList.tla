------------------------------ MODULE DriverList ------------------------------
(***************************************************************************)
(* The class Services: the drivers it has found, the services, the list of *)
(* vulnerable drivers from the web, and the rounds in which the monitor    *)
(* asks for the drivers without a signature.  A driver is a record         *)
(*   name, root    the path as Windows gives it; root when it starts with  *)
(*                 \SystemRoot\                                            *)
(*   file          see Authenticode                                        *)
(* A path is [name, root]; its fixed form starts with the drive of Windows *)
(* instead of the root.                                                    *)
(***************************************************************************)
EXTENDS Authenticode, FiniteSets, SequencesExt

CONSTANTS
    Machines,           \* possible contents of the machine
    Vulnerable,         \* the names on the web page of vulnerable drivers
    MaxRounds           \* bound: rounds of the monitor

\* EnumDeviceDrivers lists the kernel at least, and no image twice.
ASSUME MachinesAssumption ==
    /\ Machines \subseteq
          [drivers : Seq([path : [name : STRING, root : BOOLEAN],
                          file : [embedded : {"SUCCESS", "OTHER"} \cup Refused,
                                  catalogue : STRING, subject : STRING, attributes : STRING]]),
           services : Seq([name : STRING, state : STRING]), devices : Seq(STRING)]
    /\ \A m \in Machines :
          /\ m.drivers # <<>>
          /\ \A k, l \in DOMAIN m.drivers :
                m.drivers[k].path.name = m.drivers[l].path.name => k = l

VARIABLES
    machine,            \* [drivers, services, devices], each a sequence of records
    DriverPaths, BlacklistedDrivers, FoundBlacklistedDrivers,
    ServiceList, HardwareDevices,
    PassedCertCheckDrivers,
    UnsignedLoadedDrivers,
    rounds,             \* rounds begun; 0 before the constructor
    excused             \* history: a failing call has let a driver pass

listVars == <<machine, DriverPaths, BlacklistedDrivers, FoundBlacklistedDrivers, ServiceList,
              HardwareDevices, PassedCertCheckDrivers, UnsignedLoadedDrivers, rounds, excused>>

ListInit ==
    /\ machine \in Machines
    /\ DriverPaths = <<>> /\ BlacklistedDrivers = {} /\ FoundBlacklistedDrivers = <<>>
    /\ ServiceList = <<>> /\ HardwareDevices = <<>>
    /\ PassedCertCheckDrivers = {} /\ UnsignedLoadedDrivers = {}
    /\ rounds = 0 /\ excused = FALSE

-----------------------------------------------------------------------------
(* The constructor.  One call of Windows may fail. *)

\* PCI devices; one whose description cannot be had is left out.
GetHardwareDevicesW(failing) ==
    IF failing = "Devices" THEN <<>>
    ELSE SelectSeq(machine.devices, LAMBDA d : ~(failing = "Description" /\ d = machine.devices[1]))

\* What was found before the driver whose name cannot be had stays in the list.
LoadedDrivers(failing) ==
    LET paths == [n \in DOMAIN machine.drivers |-> machine.drivers[n].path]
    IN CASE failing = "EnumDrivers" -> <<>>
         [] failing = "SecondName" -> SubSeq(paths, 1, 1)
         [] OTHER -> paths
GotDrivers(failing) == failing \notin {"EnumDrivers", "SecondName"}

GetLoadedDrivers(failing) ==
    /\ DriverPaths' = DriverPaths \o LoadedDrivers(failing)
    /\ FoundBlacklistedDrivers' =
        FoundBlacklistedDrivers
        \o SelectSeq(LoadedDrivers(failing), LAMBDA p : p.name \in BlacklistedDrivers)

\* In a state that the switch does not name the flag is never written.
Service(s) ==
    [name |-> s.name,
     isRunning |-> CASE s.state = "RUNNING" -> "yes"
                     [] s.state \in {"STOPPED", "PAUSED"} -> "no"
                     [] OTHER -> "unwritten"]
GetServiceModules(failing) ==
    ServiceList' = IF failing \in {"OpenSCM", "EnumServices", "Malloc", "SecondEnum"}
                   THEN ServiceList
                   ELSE ServiceList \o [n \in DOMAIN machine.services |->
                                           Service(machine.services[n])]

FetchBlacklistedDrivers(failing) ==
    BlacklistedDrivers' = IF failing = "Page" THEN BlacklistedDrivers
                          ELSE BlacklistedDrivers \cup Vulnerable

ConstructorCalls == {"none", "Devices", "Description", "EnumDrivers", "SecondName", "OpenSCM",
                     "EnumServices", "Malloc", "SecondEnum", "Page"}

ServicesConstructor(failing) ==
    /\ rounds = 0
    /\ rounds' = 1
    /\ HardwareDevices' = GetHardwareDevicesW(failing)
    /\ GetLoadedDrivers(failing)
    /\ GetServiceModules(failing)
    /\ FetchBlacklistedDrivers(failing)
    /\ UNCHANGED <<machine, PassedCertCheckDrivers, UnsignedLoadedDrivers, excused>>

-----------------------------------------------------------------------------
(* A round of the monitor *)

\* The three drivers that write a crash dump, with the root.
WhitelistedUnsignedDrivers == {[name |-> "dump", root |-> TRUE]}

\* GetWindowsDriveW answers nothing when a call fails: the path then leads nowhere.
Fixed(path, failing) ==
    [name |-> path.name,
     root |-> IF path.root /\ failing = "WindowsDrive" THEN "nowhere" ELSE "drive"]
SamePath(a, b) == Fixed(a, "none") = Fixed(b, "none")

\* The file that a fixed path leads to, as WinVerifyTrust sees it.
FileAt(path, failing) ==
    LET driver == CHOOSE d \in Range(machine.drivers) : SamePath(d.path, path)
    IN IF failing = "VerifyEmbedded" \/ Fixed(path, failing).root = "nowhere"
       THEN [driver.file EXCEPT !.embedded = "OTHER"] ELSE driver.file

\* Both lists hold paths that are compared with the path as Windows gives it; the cache
\* holds fixed paths, so that one with a root is never found in it.
Skipped(path) ==
    \/ path \in WhitelistedUnsignedDrivers
    \/ ~path.root /\ Fixed(path, "none") \in PassedCertCheckDrivers

Passes(path, failing) == Skipped(path) \/ HasSignature(FileAt(path, failing), failing)

\* Mutant: every driver that was looked at is remembered.
RememberAll(failing) == {Fixed(p, failing) : p \in Range(DriverPaths')}

Remember(failing) == {Fixed(p, failing) : p \in {q \in Range(DriverPaths') : Passes(q, failing)}}

RoundCalls == {"none", "EnumDrivers", "SecondName", "WindowsDrive", "VerifyEmbedded"}
              \cup Range(CatalogCalls)

\* An empty list is filled again; when that fails there is nothing to report this time.
GetUnsignedDrivers(failing) ==
    /\ rounds \in 1..MaxRounds
    /\ rounds' = rounds + 1
    /\ IF DriverPaths = <<>> THEN GetLoadedDrivers(failing)
       ELSE UNCHANGED <<DriverPaths, FoundBlacklistedDrivers>>
    /\ IF DriverPaths = <<>> /\ ~GotDrivers(failing)
       THEN UnsignedLoadedDrivers' = {} /\ UNCHANGED <<PassedCertCheckDrivers, excused>>
       ELSE /\ UnsignedLoadedDrivers' =
                   {Fixed(p, failing) : p \in {q \in Range(DriverPaths') : ~Passes(q, failing)}}
            /\ PassedCertCheckDrivers' = PassedCertCheckDrivers \cup Remember(failing)
            /\ excused' = (excused \/ failing \in {"WindowsDrive", "VerifyEmbedded"})
    /\ UNCHANGED <<machine, BlacklistedDrivers, ServiceList, HardwareDevices>>

\* A certificate is revoked between two rounds.
Revoke ==
    /\ \E n \in DOMAIN machine.drivers :
        /\ machine.drivers[n].file.embedded = "SUCCESS"
        /\ machine' = [machine EXCEPT !.drivers[n].file.embedded = "REVOKED"]
    /\ UNCHANGED <<DriverPaths, BlacklistedDrivers, FoundBlacklistedDrivers, ServiceList,
                   HardwareDevices, PassedCertCheckDrivers, UnsignedLoadedDrivers, rounds, excused>>

ListNext ==
    \/ \E failing \in ConstructorCalls : ServicesConstructor(failing)
    \/ \E failing \in RoundCalls : GetUnsignedDrivers(failing)
    \/ Revoke

ListSpec == ListInit /\ [][ListNext]_listVars

-----------------------------------------------------------------------------
(* A driver that never had a signature and is not left alone by name is listed after every *)
(* round that had the list of drivers (GetUnsignedDrivers, Services.cpp:223), whatever was *)
(* remembered in the rounds before, until a failing call has excused a driver.             *)
UnsignedIsListed ==
    [][\A p \in Range(DriverPaths) :
          \/ excused' \/ rounds' = rounds
          \/ HasSignature(FileAt(p, "none"), "none")
          \/ FileAt(p, "none").embedded = "REVOKED"
          \/ \E w \in WhitelistedUnsignedDrivers : SamePath(w, p)
          \/ Fixed(p, "none") \in UnsignedLoadedDrivers']_listVars

=============================================================================

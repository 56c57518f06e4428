-------------------------------- MODULE Startup --------------------------------
(***************************************************************************)
(* Several instances of the client on one machine, from the TLS callback   *)
(* to their end, as far as they meet: the shared memory that keeps a       *)
(* second one out, the service of the kernel driver, and the games each of *)
(* them starts and kills.  What one instance does alone in between is in   *)
(* ClientLifecycle.  An instance may be killed at any step; one call of    *)
(* Windows fails in a behaviour.                                           *)
(***************************************************************************)
EXTENDS Authenticode, Naturals, FiniteSets

CONSTANTS
    Instances,
    DriverFile,         \* the file of the driver, see Authenticode
    DriverSignerSubject,
    ChecksPass(_, _, _),    \* the answer of the checks before the start, see Prerequisites
    MaxStarts           \* bound: starts of an instance

VARIABLES
    stage,          \* what each instance does next
    starts,
    holders,        \* the instances with a handle of the shared memory "UAC"
    isRunning,      \* the number in it; it goes with the last handle
    service,        \* of the driver: "none", "stopped", "running"
    marked,         \* the service is to be deleted once nobody has it open
    opened,         \* the instances with a handle of the service
    game,           \* the game each instance has launched: "none", "running", "job"
                    \* (running, and ends with the client), "killed"
    outcome,        \* how each instance ended last
    failing,        \* the call that fails, or "none"
    late,           \* history: instances that came when another was through the test
    raced           \* history: two instances went through the test together

startupVars == <<stage, starts, holders, isRunning, service, marked, opened, game, outcome,
                 failing, late, raced>>

Windows ==
    {"CreateFileMapping", "MapViewOfFile", "GetFullPathName", "Signer", "OpenSCManager", "CreateService",
     "OpenService", "StartService", "ControlService", "DeleteService", "Initialize",
     "CreateProcess", "Job", "OpenProcess"}

StartupInit ==
    /\ stage = [i \in Instances |-> "off"] /\ starts = [i \in Instances |-> 0]
    /\ holders = {} /\ isRunning = 0
    /\ service = "none" /\ marked = FALSE /\ opened = {}
    /\ game = [i \in Instances |-> "none"] /\ outcome = [i \in Instances |-> "none"]
    /\ failing \in Windows \cup {"none"}
    /\ late = {} /\ raced = FALSE

\* Through the test, and not at its end.
Through(i) == stage[i] \notin {"off", "read", "write"}

Go(i, s) == stage' = [stage EXCEPT ![i] = s]

\* The process is gone: its handles are closed, and its job takes the game along.
Without(i) ==
    /\ stage' = [stage EXCEPT ![i] = "off"]
    /\ holders' = holders \ {i}
    /\ isRunning' = IF holders \subseteq {i} THEN 0 ELSE isRunning
    /\ opened' = opened \ {i}
    /\ IF marked /\ opened \subseteq {i} /\ service # "running"
       THEN service' = "none" /\ marked' = FALSE
       ELSE UNCHANGED <<service, marked>>
    /\ game' = [game EXCEPT ![i] = IF @ = "job" THEN "killed" ELSE @]
    /\ late' = late \ {i}
Ends(i, how) ==
    /\ Without(i)
    /\ outcome' = [outcome EXCEPT ![i] = how]
    /\ UNCHANGED <<starts, failing, raced>>

-----------------------------------------------------------------------------
(* TLSCallback: StopMultipleProcessInstances *)

OpenSharedMemory(i) ==
    /\ stage[i] = "off" /\ starts[i] < MaxStarts
    /\ starts' = [starts EXCEPT ![i] = @ + 1]
    /\ Go(i, "read")
    /\ holders' = IF failing = "CreateFileMapping" THEN holders ELSE holders \cup {i}
    /\ late' = IF \E j \in Instances \ {i} : Through(j) THEN late \cup {i} ELSE late
    /\ UNCHANGED <<isRunning, service, marked, opened, game, outcome, failing, raced>>

\* Whatever fails here ends the process as a second instance does.
ReadSharedMemory(i) ==
    /\ stage[i] = "read"
    /\ IF failing \in {"CreateFileMapping", "MapViewOfFile"} \/ isRunning = 1337
       THEN Ends(i, "terminate")
       ELSE /\ Go(i, "write")
            /\ raced' = (raced \/ \E j \in Instances \ {i} : stage[j] = "write")
            /\ UNCHANGED <<starts, holders, isRunning, service, marked, opened, game, outcome,
                           failing, late>>

\* Mutant: the handle is closed as it is on the other returns.
WriteAndClose(i) ==
    /\ stage[i] = "write"
    /\ isRunning' = IF holders \subseteq {i} THEN 0 ELSE 1337
    /\ holders' = holders \ {i}
    /\ Go(i, "checks")
    /\ UNCHANGED <<starts, service, marked, opened, game, outcome, failing, late, raced>>

\* The handle and the view are kept until the process ends.
WriteSharedMemory(i) ==
    /\ stage[i] = "write"
    /\ isRunning' = 1337
    /\ Go(i, "checks")
    /\ UNCHANGED <<starts, holders, service, marked, opened, game, outcome, failing, late, raced>>

-----------------------------------------------------------------------------
(* The constructor of AntiCheat *)

\* The settings of main() for both builds.
Shipped == [bRequireRunAsAdministrator |-> TRUE, bEnforceSecureBoot |-> FALSE,
            bEnforceDSE |-> TRUE, bCheckHypervisor |-> FALSE]

PreInitialize(i) ==
    /\ stage[i] = "checks"
    /\ \E member \in {"yes", "unknown"}, upper \in {0, 1} :
          IF ChecksPass(Shipped, [member |-> member, secureBoot |-> "unknown", testsigning |-> FALSE,
                                  hypervisor |-> "none"], upper)
          THEN Go(i, "signer") /\ UNCHANGED <<starts, holders, isRunning, service, marked, opened,
                                              game, outcome, failing, late, raced>>
          ELSE Ends(i, "checks")

\* A signer of the wrong name, or none, ends the start.
CheckSigner(i) ==
    /\ stage[i] = "signer"
    /\ \E call \in IF failing = "Signer" THEN SignerCalls ELSE {"none"} :
          IF failing # "GetFullPathName"
             /\ GetSignerFromFile(DriverFile, call) = DriverSignerSubject
          THEN Go(i, "create") /\ UNCHANGED <<starts, holders, isRunning, service, marked, opened,
                                              game, outcome, failing, late, raced>>
          ELSE Ends(i, "unsigned")

\* Mutant: a service that is there already is an error.
CreateOnly(i) ==
    /\ stage[i] = "create"
    /\ IF service = "none" /\ failing \notin {"OpenSCManager", "CreateService"}
       THEN /\ Go(i, "start") /\ service' = "stopped" /\ opened' = opened \cup {i}
            /\ UNCHANGED <<starts, holders, isRunning, marked, game, outcome, failing, late, raced>>
       ELSE Ends(i, "loadFail")

\* LoadDriver: a service that is there is opened; one that is to be deleted is neither.
OpenDriverService(i) ==
    /\ stage[i] = "create"
    /\ IF \/ failing \in {"OpenSCManager", "CreateService"} \/ marked
          \/ service # "none" /\ failing = "OpenService"
       THEN Ends(i, "loadFail")
       ELSE /\ Go(i, "start") /\ opened' = opened \cup {i}
            /\ service' = IF service = "none" THEN "stopped" ELSE service
            /\ UNCHANGED <<starts, holders, isRunning, marked, game, outcome, failing, late, raced>>

\* The handles are closed when the service is started, or when it could not be.
StartDriver(i) ==
    /\ stage[i] = "start"
    /\ IF service # "running" /\ (marked \/ failing = "StartService")
       THEN Ends(i, "loadFail")
       ELSE /\ Go(i, "initialize") /\ service' = "running" /\ opened' = opened \ {i}
            /\ UNCHANGED <<starts, holders, isRunning, marked, game, outcome, failing, late, raced>>

\* API::Initialize; a constructor that throws runs no destructor: the driver stays loaded.
Initialize(i) ==
    /\ stage[i] = "initialize"
    /\ IF failing = "Initialize" THEN Ends(i, "dispatchFail")
       ELSE /\ Go(i, "launch")
            /\ UNCHANGED <<starts, holders, isRunning, service, marked, opened, game, outcome,
                           failing, late, raced>>

-----------------------------------------------------------------------------
(* The game, and the way back *)

\* CreateProcess; a game that does not start leaves the client in its loop.
LaunchGame(i) ==
    /\ stage[i] = "launch"
    /\ IF failing = "CreateProcess" THEN Go(i, "watch") /\ UNCHANGED game
       ELSE Go(i, "assign") /\ game' = [game EXCEPT ![i] = "running"]
    /\ UNCHANGED <<starts, holders, isRunning, service, marked, opened, outcome, failing, late,
                   raced>>

AssignJob(i) ==
    /\ stage[i] = "assign"
    /\ Go(i, "kill")
    /\ game' = [game EXCEPT ![i] = IF @ = "running" /\ failing # "Job" THEN "job" ELSE @]
    /\ UNCHANGED <<starts, holders, isRunning, service, marked, opened, outcome, failing, late,
                   raced>>

\* Mutant: the list of processes is not walked past the own game.
KillsNone(i) ==
    /\ stage[i] \in {"kill", "watch"}
    /\ stage[i] = "watch" => game[i] # "none"
    /\ Go(i, "watch")
    /\ UNCHANGED <<starts, holders, isRunning, service, marked, opened, game, outcome, failing,
                   late, raced>>

\* Once after the launch, then every two seconds.
TerminateOtherGameInstances(i) ==
    /\ stage[i] \in {"kill", "watch"}
    /\ stage[i] = "watch" => game[i] # "none"
    /\ Go(i, "watch")
    /\ game' = [j \in Instances |->
                   IF j # i /\ game[j] \in {"running", "job"} /\ failing # "OpenProcess"
                   THEN "killed" ELSE game[j]]
    /\ UNCHANGED <<starts, holders, isRunning, service, marked, opened, outcome, failing, late,
                   raced>>

\* The game has ended by itself.
GameEnds(i) ==
    /\ game[i] \in {"running", "job"}
    /\ game' = [game EXCEPT ![i] = "killed"]
    /\ UNCHANGED <<stage, starts, holders, isRunning, service, marked, opened, outcome, failing,
                   late, raced>>

\* The loop is left when the game has ended or with a key; a thread that was found
\* suspended leaves before the launch.  The destructor of AntiCheat begins with the driver.
Stop(i) ==
    /\ stage[i] \in {"launch", "watch"}
    /\ Go(i, "unload")
    /\ UNCHANGED <<starts, holders, isRunning, service, marked, opened, game, outcome, failing,
                   late, raced>>

\* UnloadDriver: a driver that does not stop is deleted all the same.
StopDriver(i) ==
    /\ stage[i] = "unload"
    /\ IF failing \in {"OpenSCManager", "OpenService"} \/ service = "none"
       THEN Ends(i, "exit")
       ELSE /\ Go(i, "delete") /\ opened' = opened \cup {i}
            /\ service' = IF failing = "ControlService" THEN service ELSE "stopped"
            /\ UNCHANGED <<starts, holders, isRunning, marked, game, outcome, failing, late, raced>>

DeleteDriver(i) ==
    /\ stage[i] = "delete"
    /\ marked' = (marked \/ failing # "DeleteService")
    /\ Go(i, "exit")
    /\ UNCHANGED <<starts, holders, isRunning, service, opened, game, outcome, failing, late, raced>>

\* The handle is closed, CLIENT_EXIT dispatched, and the process ends.
Exit(i) ==
    /\ stage[i] = "exit"
    /\ Ends(i, "exit")

Crash(i) ==
    /\ stage[i] # "off"
    /\ Ends(i, "crash")

StartupNext ==
    \E i \in Instances :
        \/ OpenSharedMemory(i) \/ ReadSharedMemory(i) \/ WriteSharedMemory(i)
        \/ PreInitialize(i) \/ CheckSigner(i) \/ OpenDriverService(i) \/ StartDriver(i)
        \/ Initialize(i) \/ LaunchGame(i) \/ AssignJob(i) \/ TerminateOtherGameInstances(i)
        \/ GameEnds(i) \/ Stop(i) \/ StopDriver(i) \/ DeleteDriver(i) \/ Exit(i) \/ Crash(i)

\* The clients by themselves.
StartupSpec == StartupInit /\ [][StartupNext]_startupVars

-----------------------------------------------------------------------------
(* An instance that starts when another one is through the test of the shared memory never *)
(* gets through it itself, whatever becomes of the other meanwhile                         *)
(* (StopMultipleProcessInstances, Preventions.cpp:133).                                    *)
SecondIsRefused == \A i \in late : ~Through(i)

(* Unless two instances raced through the test, a client that goes on past its constructor *)
(* has the driver running, and the driver fails to load only if a call fails, whatever an  *)
(* earlier instance left behind (LoadDriver, Services.cpp:696).                            *)
DriverIsLoaded ==
    raced \/ \A i \in Instances :
                /\ stage[i] \in {"initialize", "launch", "assign", "kill", "watch"}
                      => service = "running"
                /\ outcome[i] = "loadFail" => failing # "none"

(* Unless two instances raced, a client that has begun to watch its game is the only one   *)
(* whose game runs, also when an earlier client was killed before its game was in the job  *)
(* (TerminateOtherGameInstances, main.cpp:130).                                            *)
OnlyOwnGame ==
    \A i, j \in Instances :
        stage[i] = "watch" /\ game[i] # "none" /\ i # j /\ game[j] \in {"running", "job"}
            => raced \/ failing = "OpenProcess"

=============================================================================

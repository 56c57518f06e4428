---------------------------- MODULE Startup_proofs ----------------------------
(* Proofs about Startup for any number of clients and of their starts, for *)
(* any driver file and any answer of the checks before the start, about    *)
(* DriverList for any drivers, any list of vulnerable ones and any number  *)
(* of rounds, and about the samples of Samples: the packets, ciphers and   *)
(* programs of the virtual machine for all bytes, texts, numbers and sizes *)
(* of the buffers.                                                         *)
EXTENDS Startup, DriverList, Samples, SequenceTheorems, WellFoundedInduction, TLAPS

-----------------------------------------------------------------------------
(* Types. *)

Stages == {"off", "read", "write", "checks", "signer", "create", "start", "initialize", "launch",
           "assign", "kill", "watch", "unload", "delete", "exit"}
Outcomes == {"none", "terminate", "checks", "unsigned", "loadFail", "dispatchFail", "exit", "crash"}

TypeInv ==
  /\ stage \in [Instances -> Stages] /\ starts \in [Instances -> Nat]
  /\ holders \subseteq Instances /\ isRunning \in {0, 1337}
  /\ service \in {"none", "stopped", "running"} /\ marked \in BOOLEAN
  /\ opened \subseteq Instances
  /\ game \in [Instances -> {"none", "running", "job", "killed"}]
  /\ outcome \in [Instances -> Outcomes]
  /\ failing \in Windows \cup {"none"}
  /\ late \subseteq Instances /\ raced \in BOOLEAN

\* The end of a process releases what it had.
LEMMA EndsType ==
  ASSUME TypeInv, NEW i \in Instances, NEW how \in Outcomes, Ends(i, how)
  PROVE  TypeInv'
<1>1. /\ holders' \subseteq Instances /\ opened' \subseteq Instances /\ late' \subseteq Instances
      /\ isRunning' \in {0, 1337}
  BY DEF TypeInv, Ends, Without
<1>2. /\ stage' \in [Instances -> Stages] /\ outcome' \in [Instances -> Outcomes]
      /\ starts' \in [Instances -> Nat]
  BY DEF TypeInv, Ends, Without, Go, Stages
<1>3. service' \in {"none", "stopped", "running"} /\ marked' \in BOOLEAN
  <2>1. CASE UNCHANGED <<service, marked>>
    BY <2>1 DEF TypeInv
  <2>2. CASE service' = "none" /\ marked' = FALSE
    BY <2>2
  <2> QED
    BY <2>1, <2>2 DEF Ends, Without
<1>4. game' \in [Instances -> {"none", "running", "job", "killed"}]
  BY DEF TypeInv, Ends, Without
<1>5. failing' \in Windows \cup {"none"} /\ raced' \in BOOLEAN
  BY DEF TypeInv, Ends
<1> QED
  BY <1>1, <1>2, <1>3, <1>4, <1>5 DEF TypeInv

\* Every step keeps the types.
LEMMA TypeStep == TypeInv /\ [StartupNext]_startupVars => TypeInv'
<1> SUFFICES ASSUME TypeInv, [StartupNext]_startupVars
             PROVE  TypeInv'
  OBVIOUS
<1> USE DEF Go
<1>1. ASSUME NEW i \in Instances, OpenSharedMemory(i)
      PROVE  TypeInv'
  BY <1>1 DEF OpenSharedMemory, TypeInv, Stages, Outcomes
<1>2. ASSUME NEW i \in Instances, ReadSharedMemory(i)
      PROVE  TypeInv'
  <2>1. CASE Ends(i, "terminate")
    BY <2>1, EndsType DEF Outcomes
  <2>2. CASE ~Ends(i, "terminate")
    <3>1. /\ stage' = [stage EXCEPT ![i] = "write"]
          /\ UNCHANGED <<starts, holders, isRunning, service, marked, opened, game, outcome, failing, late>>
      BY <1>2, <2>2 DEF ReadSharedMemory
    <3>2. raced' \in BOOLEAN
      <4>1. raced' = (raced \/ \E j \in Instances \ {i} : stage[j] = "write")
        BY <1>2, <2>2 DEF ReadSharedMemory
      <4> QED
        BY <4>1, Zenon
    <3> QED
      BY <3>1, <3>2 DEF TypeInv, Stages
  <2> QED
    BY <2>1, <2>2
<1>3. ASSUME NEW i \in Instances, WriteSharedMemory(i)
      PROVE  TypeInv'
  BY <1>3 DEF WriteSharedMemory, TypeInv, Stages, Outcomes
<1>4. ASSUME NEW i \in Instances, PreInitialize(i)
      PROVE  TypeInv'
  <2>1. CASE Ends(i, "checks")
    BY <2>1, EndsType DEF Outcomes
  <2>2. CASE ~Ends(i, "checks")
    BY <1>4, <2>2 DEF PreInitialize, TypeInv, Stages, Outcomes
  <2> QED
    BY <2>1, <2>2
<1>5. ASSUME NEW i \in Instances, CheckSigner(i)
      PROVE  TypeInv'
  <2>1. CASE Ends(i, "unsigned")
    BY <2>1, EndsType DEF Outcomes
  <2>2. CASE ~Ends(i, "unsigned")
    BY <1>5, <2>2 DEF CheckSigner, TypeInv, Stages, Outcomes
  <2> QED
    BY <2>1, <2>2
<1>6. ASSUME NEW i \in Instances, OpenDriverService(i)
      PROVE  TypeInv'
  <2>1. CASE Ends(i, "loadFail")
    BY <2>1, EndsType DEF Outcomes
  <2>2. CASE ~Ends(i, "loadFail")
    BY <1>6, <2>2 DEF OpenDriverService, TypeInv, Stages, Outcomes
  <2> QED
    BY <2>1, <2>2
<1>7. ASSUME NEW i \in Instances, StartDriver(i)
      PROVE  TypeInv'
  <2>1. CASE Ends(i, "loadFail")
    BY <2>1, EndsType DEF Outcomes
  <2>2. CASE ~Ends(i, "loadFail")
    BY <1>7, <2>2 DEF StartDriver, TypeInv, Stages, Outcomes
  <2> QED
    BY <2>1, <2>2
<1>8. ASSUME NEW i \in Instances, Initialize(i)
      PROVE  TypeInv'
  <2>1. CASE Ends(i, "dispatchFail")
    BY <2>1, EndsType DEF Outcomes
  <2>2. CASE ~Ends(i, "dispatchFail")
    BY <1>8, <2>2 DEF Initialize, TypeInv, Stages, Outcomes
  <2> QED
    BY <2>1, <2>2
<1>9. ASSUME NEW i \in Instances, LaunchGame(i)
      PROVE  TypeInv'
  BY <1>9 DEF LaunchGame, TypeInv, Stages, Outcomes
<1>10. ASSUME NEW i \in Instances, AssignJob(i)
      PROVE  TypeInv'
  BY <1>10 DEF AssignJob, TypeInv, Stages, Outcomes
<1>11. ASSUME NEW i \in Instances, TerminateOtherGameInstances(i)
      PROVE  TypeInv'
  BY <1>11 DEF TerminateOtherGameInstances, TypeInv, Stages, Outcomes
<1>12. ASSUME NEW i \in Instances, GameEnds(i)
      PROVE  TypeInv'
  BY <1>12 DEF GameEnds, TypeInv, Stages, Outcomes
<1>13. ASSUME NEW i \in Instances, Stop(i)
      PROVE  TypeInv'
  BY <1>13 DEF Stop, TypeInv, Stages, Outcomes
<1>14. ASSUME NEW i \in Instances, StopDriver(i)
      PROVE  TypeInv'
  <2>1. CASE Ends(i, "exit")
    BY <2>1, EndsType DEF Outcomes
  <2>2. CASE ~Ends(i, "exit")
    BY <1>14, <2>2 DEF StopDriver, TypeInv, Stages, Outcomes
  <2> QED
    BY <2>1, <2>2
<1>15. ASSUME NEW i \in Instances, DeleteDriver(i)
      PROVE  TypeInv'
  BY <1>15 DEF DeleteDriver, TypeInv, Stages, Outcomes
<1>16. ASSUME NEW i \in Instances, Exit(i)
      PROVE  TypeInv'
  BY <1>16, EndsType DEF Exit, Outcomes
<1>17. ASSUME NEW i \in Instances, Crash(i)
      PROVE  TypeInv'
  BY <1>17, EndsType DEF Crash, Outcomes
<1>18. CASE UNCHANGED startupVars
  BY <1>18 DEF startupVars, TypeInv, Stages, Outcomes
<1> HIDE DEF Go
<1> QED
  BY <1>1, <1>2, <1>3, <1>4, <1>5, <1>6, <1>7, <1>8, <1>9, <1>10, <1>11, <1>12, <1>13, <1>14, <1>15, <1>16, <1>17, <1>18 DEF StartupNext

-----------------------------------------------------------------------------
(* The shared memory.  SecondIsRefused is not inductive by itself: an        *)
(* instance that came late still reads the number because the memory, which  *)
(* goes with its last handle, is kept by the instance itself.                *)

\* Through the test, or about to write the number.
Past(i) == stage[i] \notin {"off", "read"}

MemoryInv ==
  /\ \A i \in Instances : stage[i] = "read" => i \in holders \/ failing = "CreateFileMapping"
  /\ \A i \in Instances : Past(i) => i \in holders /\ failing \notin {"CreateFileMapping", "MapViewOfFile"}
  /\ \A i \in Instances : Through(i) => isRunning = 1337
  /\ \A i \in late : stage[i] = "read" /\ (failing = "CreateFileMapping" \/ isRunning = 1337)

\* An instance that leaves takes the number along only when no other one has a handle.
LEMMA MemoryStep == MemoryInv /\ TypeInv /\ [StartupNext]_startupVars => MemoryInv'
<1> SUFFICES ASSUME MemoryInv, TypeInv, [StartupNext]_startupVars
             PROVE  MemoryInv'
  OBVIOUS
<1> USE DEF TypeInv, Stages, Ends, Without, Go, MemoryInv, Past, Through
<1>1. ASSUME NEW i \in Instances, OpenSharedMemory(i)
      PROVE  MemoryInv'
  BY <1>1 DEF OpenSharedMemory
<1>2. ASSUME NEW i \in Instances, ReadSharedMemory(i)
      PROVE  MemoryInv'
  BY <1>2 DEF ReadSharedMemory
<1>3. ASSUME NEW i \in Instances, WriteSharedMemory(i)
      PROVE  MemoryInv'
  BY <1>3 DEF WriteSharedMemory
<1>4. ASSUME NEW i \in Instances, PreInitialize(i)
      PROVE  MemoryInv'
  BY <1>4 DEF PreInitialize
<1>5. ASSUME NEW i \in Instances, CheckSigner(i)
      PROVE  MemoryInv'
  BY <1>5 DEF CheckSigner
<1>6. ASSUME NEW i \in Instances, OpenDriverService(i)
      PROVE  MemoryInv'
  BY <1>6 DEF OpenDriverService
<1>7. ASSUME NEW i \in Instances, StartDriver(i)
      PROVE  MemoryInv'
  BY <1>7 DEF StartDriver
<1>8. ASSUME NEW i \in Instances, Initialize(i)
      PROVE  MemoryInv'
  BY <1>8 DEF Initialize
<1>9. ASSUME NEW i \in Instances, LaunchGame(i)
      PROVE  MemoryInv'
  BY <1>9 DEF LaunchGame
<1>10. ASSUME NEW i \in Instances, AssignJob(i)
      PROVE  MemoryInv'
  BY <1>10 DEF AssignJob
<1>11. ASSUME NEW i \in Instances, TerminateOtherGameInstances(i)
      PROVE  MemoryInv'
  BY <1>11 DEF TerminateOtherGameInstances
<1>12. ASSUME NEW i \in Instances, GameEnds(i)
      PROVE  MemoryInv'
  BY <1>12 DEF GameEnds
<1>13. ASSUME NEW i \in Instances, Stop(i)
      PROVE  MemoryInv'
  BY <1>13 DEF Stop
<1>14. ASSUME NEW i \in Instances, StopDriver(i)
      PROVE  MemoryInv'
  BY <1>14 DEF StopDriver
<1>15. ASSUME NEW i \in Instances, DeleteDriver(i)
      PROVE  MemoryInv'
  BY <1>15 DEF DeleteDriver
<1>16. ASSUME NEW i \in Instances, Exit(i)
      PROVE  MemoryInv'
  BY <1>16 DEF Exit
<1>17. ASSUME NEW i \in Instances, Crash(i)
      PROVE  MemoryInv'
  BY <1>17 DEF Crash
<1>18. CASE UNCHANGED startupVars
  BY <1>18 DEF startupVars
<1> HIDE DEF TypeInv, Stages, Ends, Without, Go, MemoryInv, Past, Through
<1> QED
  BY <1>1, <1>2, <1>3, <1>4, <1>5, <1>6, <1>7, <1>8, <1>9, <1>10, <1>11, <1>12, <1>13, <1>14, <1>15, <1>16, <1>17, <1>18 DEF StartupNext

-----------------------------------------------------------------------------
(* One client at a time, unless two raced through the test. *)

AloneInv == raced \/ \A i, j \in Instances : Past(i) /\ Past(j) => i = j

\* An instance that reads another number than the one its rivals write is alone, or races
\* with one that has not written it yet.
LEMMA ReadAlone ==
  ASSUME AloneInv, MemoryInv, TypeInv, NEW i \in Instances, isRunning # 1337, Go(i, "write"),
         raced \/ (\E j \in Instances \ {i} : stage[j] = "write") => raced'
  PROVE  AloneInv'
<1>1. CASE raced'
  BY <1>1 DEF AloneInv
<1>2. CASE ~raced'
  <2>1. ~\E j \in Instances \ {i} : stage[j] = "write"
    BY <1>2
  <2>2. \A j \in Instances \ {i} : stage[j] # "write"
    BY <2>1
  <2>3. \A j \in Instances \ {i} : ~Past(j)
    BY <2>2 DEF MemoryInv, Past, Through
  <2>4. \A j \in Instances \ {i} : ~Past(j)'
    BY <2>3 DEF Past, Go, TypeInv
  <2> QED
    BY <2>4 DEF AloneInv
<1> QED
  BY <1>1, <1>2

\* The number keeps out whoever does not read it while another one is about to write.
LEMMA AloneStep == AloneInv /\ MemoryInv /\ TypeInv /\ [StartupNext]_startupVars => AloneInv'
<1> SUFFICES ASSUME AloneInv, MemoryInv, TypeInv, [StartupNext]_startupVars
             PROVE  AloneInv'
  OBVIOUS
<1> USE DEF TypeInv, Stages, Ends, Without, Go, AloneInv, MemoryInv, Past, Through
<1>1. ASSUME NEW i \in Instances, OpenSharedMemory(i)
      PROVE  AloneInv'
  BY <1>1 DEF OpenSharedMemory
<1>2. ASSUME NEW i \in Instances, ReadSharedMemory(i)
      PROVE  AloneInv'
  <2> HIDE DEF Ends, Without, TypeInv, MemoryInv, AloneInv
  <2>1. CASE Ends(i, "terminate")
    BY <2>1 DEF Ends, Without, TypeInv, AloneInv
  <2>2. CASE ~Ends(i, "terminate")
    <3>1. raced' = (raced \/ \E j \in Instances \ {i} : stage[j] = "write")
      BY <1>2, <2>2 DEF ReadSharedMemory
    <3>2. raced \/ (\E j \in Instances \ {i} : stage[j] = "write") => raced'
      BY <3>1, Zenon
    <3> QED
      BY <1>2, <2>2, <3>2, ReadAlone DEF ReadSharedMemory
  <2> QED
    BY <2>1, <2>2
<1>3. ASSUME NEW i \in Instances, WriteSharedMemory(i)
      PROVE  AloneInv'
  BY <1>3 DEF WriteSharedMemory
<1>4. ASSUME NEW i \in Instances, PreInitialize(i)
      PROVE  AloneInv'
  BY <1>4 DEF PreInitialize
<1>5. ASSUME NEW i \in Instances, CheckSigner(i)
      PROVE  AloneInv'
  BY <1>5 DEF CheckSigner
<1>6. ASSUME NEW i \in Instances, OpenDriverService(i)
      PROVE  AloneInv'
  BY <1>6 DEF OpenDriverService
<1>7. ASSUME NEW i \in Instances, StartDriver(i)
      PROVE  AloneInv'
  BY <1>7 DEF StartDriver
<1>8. ASSUME NEW i \in Instances, Initialize(i)
      PROVE  AloneInv'
  BY <1>8 DEF Initialize
<1>9. ASSUME NEW i \in Instances, LaunchGame(i)
      PROVE  AloneInv'
  BY <1>9 DEF LaunchGame
<1>10. ASSUME NEW i \in Instances, AssignJob(i)
      PROVE  AloneInv'
  BY <1>10 DEF AssignJob
<1>11. ASSUME NEW i \in Instances, TerminateOtherGameInstances(i)
      PROVE  AloneInv'
  BY <1>11 DEF TerminateOtherGameInstances
<1>12. ASSUME NEW i \in Instances, GameEnds(i)
      PROVE  AloneInv'
  BY <1>12 DEF GameEnds
<1>13. ASSUME NEW i \in Instances, Stop(i)
      PROVE  AloneInv'
  BY <1>13 DEF Stop
<1>14. ASSUME NEW i \in Instances, StopDriver(i)
      PROVE  AloneInv'
  BY <1>14 DEF StopDriver
<1>15. ASSUME NEW i \in Instances, DeleteDriver(i)
      PROVE  AloneInv'
  BY <1>15 DEF DeleteDriver
<1>16. ASSUME NEW i \in Instances, Exit(i)
      PROVE  AloneInv'
  BY <1>16 DEF Exit
<1>17. ASSUME NEW i \in Instances, Crash(i)
      PROVE  AloneInv'
  BY <1>17 DEF Crash
<1>18. CASE UNCHANGED startupVars
  BY <1>18 DEF startupVars
<1> HIDE DEF TypeInv, Stages, Ends, Without, Go, AloneInv, MemoryInv, Past, Through
<1> QED
  BY <1>1, <1>2, <1>3, <1>4, <1>5, <1>6, <1>7, <1>8, <1>9, <1>10, <1>11, <1>12, <1>13, <1>14, <1>15, <1>16, <1>17, <1>18 DEF StartupNext

-----------------------------------------------------------------------------
(* The driver.  A service that is to be deleted is gone before the next      *)
(* client asks for it: only a client at its very end leaves one, and its     *)
(* handle is the last.                                                       *)

DriverInv ==
  \/ raced
  \/ /\ DriverIsLoaded
     /\ failing = "none" =>
          /\ \A i \in opened : Past(i)
          /\ marked => \E i \in Instances : stage[i] = "exit"
          /\ \A i \in Instances : stage[i] \in {"delete", "exit"} => service # "running"

\* With one client at a time the service is that of this client or what an earlier one left.
LEMMA DriverStep == DriverInv /\ AloneInv /\ TypeInv /\ [StartupNext]_startupVars => DriverInv'
<1> SUFFICES ASSUME DriverInv, AloneInv, TypeInv, [StartupNext]_startupVars
             PROVE  DriverInv'
  OBVIOUS
<1> USE DEF TypeInv, Stages, Ends, Without, Go, DriverInv, DriverIsLoaded, AloneInv, Past
<1>1. ASSUME NEW i \in Instances, OpenSharedMemory(i)
      PROVE  DriverInv'
  BY <1>1 DEF OpenSharedMemory
<1>2. ASSUME NEW i \in Instances, ReadSharedMemory(i)
      PROVE  DriverInv'
  BY <1>2 DEF ReadSharedMemory
<1>3. ASSUME NEW i \in Instances, WriteSharedMemory(i)
      PROVE  DriverInv'
  BY <1>3 DEF WriteSharedMemory
<1>4. ASSUME NEW i \in Instances, PreInitialize(i)
      PROVE  DriverInv'
  BY <1>4 DEF PreInitialize
<1>5. ASSUME NEW i \in Instances, CheckSigner(i)
      PROVE  DriverInv'
  BY <1>5 DEF CheckSigner
<1>6. ASSUME NEW i \in Instances, OpenDriverService(i)
      PROVE  DriverInv'
  BY <1>6 DEF OpenDriverService
<1>7. ASSUME NEW i \in Instances, StartDriver(i)
      PROVE  DriverInv'
  BY <1>7 DEF StartDriver
<1>8. ASSUME NEW i \in Instances, Initialize(i)
      PROVE  DriverInv'
  BY <1>8 DEF Initialize
<1>9. ASSUME NEW i \in Instances, LaunchGame(i)
      PROVE  DriverInv'
  BY <1>9 DEF LaunchGame
<1>10. ASSUME NEW i \in Instances, AssignJob(i)
      PROVE  DriverInv'
  BY <1>10 DEF AssignJob
<1>11. ASSUME NEW i \in Instances, TerminateOtherGameInstances(i)
      PROVE  DriverInv'
  BY <1>11 DEF TerminateOtherGameInstances
<1>12. ASSUME NEW i \in Instances, GameEnds(i)
      PROVE  DriverInv'
  BY <1>12 DEF GameEnds
<1>13. ASSUME NEW i \in Instances, Stop(i)
      PROVE  DriverInv'
  BY <1>13 DEF Stop
<1>14. ASSUME NEW i \in Instances, StopDriver(i)
      PROVE  DriverInv'
  BY <1>14 DEF StopDriver
<1>15. ASSUME NEW i \in Instances, DeleteDriver(i)
      PROVE  DriverInv'
  BY <1>15 DEF DeleteDriver
<1>16. ASSUME NEW i \in Instances, Exit(i)
      PROVE  DriverInv'
  BY <1>16 DEF Exit
<1>17. ASSUME NEW i \in Instances, Crash(i)
      PROVE  DriverInv'
  BY <1>17 DEF Crash
<1>18. CASE UNCHANGED startupVars
  BY <1>18 DEF startupVars
<1> HIDE DEF TypeInv, Stages, Ends, Without, Go, DriverInv, DriverIsLoaded, AloneInv, Past
<1> QED
  BY <1>1, <1>2, <1>3, <1>4, <1>5, <1>6, <1>7, <1>8, <1>9, <1>10, <1>11, <1>12, <1>13, <1>14, <1>15, <1>16, <1>17, <1>18 DEF StartupNext

-----------------------------------------------------------------------------
(* The games.  No other client is there to launch one once this one watches. *)

GameInv ==
  /\ failing = "CreateProcess" => \A i \in Instances : game[i] = "none"
  /\ OnlyOwnGame

\* The game of another client runs only until this one looks for it.
LEMMA GameStep == GameInv /\ AloneInv /\ TypeInv /\ [StartupNext]_startupVars => GameInv'
<1> SUFFICES ASSUME GameInv, AloneInv, TypeInv, [StartupNext]_startupVars
             PROVE  GameInv'
  OBVIOUS
<1> USE DEF TypeInv, Stages, Ends, Without, Go, GameInv, OnlyOwnGame, AloneInv, Past
<1>1. ASSUME NEW i \in Instances, OpenSharedMemory(i)
      PROVE  GameInv'
  BY <1>1 DEF OpenSharedMemory
<1>2. ASSUME NEW i \in Instances, ReadSharedMemory(i)
      PROVE  GameInv'
  BY <1>2 DEF ReadSharedMemory
<1>3. ASSUME NEW i \in Instances, WriteSharedMemory(i)
      PROVE  GameInv'
  BY <1>3 DEF WriteSharedMemory
<1>4. ASSUME NEW i \in Instances, PreInitialize(i)
      PROVE  GameInv'
  BY <1>4 DEF PreInitialize
<1>5. ASSUME NEW i \in Instances, CheckSigner(i)
      PROVE  GameInv'
  BY <1>5 DEF CheckSigner
<1>6. ASSUME NEW i \in Instances, OpenDriverService(i)
      PROVE  GameInv'
  BY <1>6 DEF OpenDriverService
<1>7. ASSUME NEW i \in Instances, StartDriver(i)
      PROVE  GameInv'
  BY <1>7 DEF StartDriver
<1>8. ASSUME NEW i \in Instances, Initialize(i)
      PROVE  GameInv'
  BY <1>8 DEF Initialize
<1>9. ASSUME NEW i \in Instances, LaunchGame(i)
      PROVE  GameInv'
  BY <1>9 DEF LaunchGame
<1>10. ASSUME NEW i \in Instances, AssignJob(i)
      PROVE  GameInv'
  BY <1>10 DEF AssignJob
<1>11. ASSUME NEW i \in Instances, TerminateOtherGameInstances(i)
      PROVE  GameInv'
  BY <1>11 DEF TerminateOtherGameInstances
<1>12. ASSUME NEW i \in Instances, GameEnds(i)
      PROVE  GameInv'
  BY <1>12 DEF GameEnds
<1>13. ASSUME NEW i \in Instances, Stop(i)
      PROVE  GameInv'
  BY <1>13 DEF Stop
<1>14. ASSUME NEW i \in Instances, StopDriver(i)
      PROVE  GameInv'
  BY <1>14 DEF StopDriver
<1>15. ASSUME NEW i \in Instances, DeleteDriver(i)
      PROVE  GameInv'
  BY <1>15 DEF DeleteDriver
<1>16. ASSUME NEW i \in Instances, Exit(i)
      PROVE  GameInv'
  BY <1>16 DEF Exit
<1>17. ASSUME NEW i \in Instances, Crash(i)
      PROVE  GameInv'
  BY <1>17 DEF Crash
<1>18. CASE UNCHANGED startupVars
  BY <1>18 DEF startupVars
<1> HIDE DEF TypeInv, Stages, Ends, Without, Go, GameInv, OnlyOwnGame, AloneInv, Past
<1> QED
  BY <1>1, <1>2, <1>3, <1>4, <1>5, <1>6, <1>7, <1>8, <1>9, <1>10, <1>11, <1>12, <1>13, <1>14, <1>15, <1>16, <1>17, <1>18 DEF StartupNext

-----------------------------------------------------------------------------
(* The theorems. *)

Inv == TypeInv /\ MemoryInv /\ AloneInv /\ DriverInv /\ GameInv

\* At first no client runs and nothing is left of one.
LEMMA InitInv == StartupInit => Inv
<1> SUFFICES ASSUME StartupInit
             PROVE  Inv
  OBVIOUS
<1>1. TypeInv
  BY DEF StartupInit, TypeInv, Stages, Outcomes
<1>2. MemoryInv /\ AloneInv
  BY DEF StartupInit, MemoryInv, AloneInv, Past, Through
<1>3. DriverInv /\ GameInv
  BY DEF StartupInit, DriverInv, DriverIsLoaded, GameInv, OnlyOwnGame
<1> QED
  BY <1>1, <1>2, <1>3 DEF Inv

\* Every step keeps the invariant.
LEMMA StepInv == Inv /\ [StartupNext]_startupVars => Inv'
  BY TypeStep, MemoryStep, AloneStep, DriverStep, GameStep DEF Inv

\* An instance that starts when another one is through the test of the shared memory never
\* gets through it itself (StopMultipleProcessInstances).
THEOREM SecondNeverPasses == StartupSpec => []SecondIsRefused
<1>1. Inv => SecondIsRefused
  BY DEF Inv, MemoryInv, SecondIsRefused, Through
<1> QED
  BY <1>1, InitInv, StepInv, PTL DEF StartupSpec

\* Unless two instances raced through the test, a client past its constructor has the driver
\* running, and loading it fails only if a call fails (LoadDriver).
THEOREM DriverLoads == StartupSpec => []DriverIsLoaded
<1>1. Inv => DriverIsLoaded
  BY DEF Inv, DriverInv, DriverIsLoaded
<1> QED
  BY <1>1, InitInv, StepInv, PTL DEF StartupSpec

\* Unless two instances raced through the test, the game of a client that watches its own is
\* the only one that runs (TerminateOtherGameInstances).
THEOREM OtherGamesEnd == StartupSpec => []OnlyOwnGame
<1>1. Inv => OnlyOwnGame
  BY DEF Inv, GameInv
<1> QED
  BY <1>1, InitInv, StepInv, PTL DEF StartupSpec

-----------------------------------------------------------------------------
(* The list of drivers.  Only the cache of drivers that passed can hide one  *)
(* without a signature: what is in it has a signature, or had one that was   *)
(* revoked since, or is left alone by name.                                  *)

File == [embedded : {"SUCCESS", "OTHER"} \cup Refused, catalogue : STRING, subject : STRING,
         attributes : STRING]
Driver == [path : [name : STRING, root : BOOLEAN], file : File]

\* The drivers keep their paths, and a path in the list is that of a driver.
ListInv ==
  /\ machine \in [drivers : Seq(Driver), services : Seq([name : STRING, state : STRING]),
                  devices : Seq(STRING)]
  /\ machine.drivers # <<>>
  /\ \A k, l \in DOMAIN machine.drivers :
        machine.drivers[k].path.name = machine.drivers[l].path.name => k = l
  /\ \A p \in Range(DriverPaths) : \E k \in DOMAIN machine.drivers : p = machine.drivers[k].path
  /\ rounds = 0 => DriverPaths = <<>>
  /\ DriverPaths = <<>> => PassedCertCheckDrivers = {}

Cleared(p) ==
  \/ HasSignature(FileAt(p, "none"), "none")
  \/ FileAt(p, "none").embedded = "REVOKED"
  \/ \E w \in WhitelistedUnsignedDrivers : SamePath(w, p)

CacheInv ==
  excused \/ \A p \in Range(DriverPaths) : Fixed(p, "none") \in PassedCertCheckDrivers => Cleared(p)

\* A file has a signature when it has one although some call fails.
LEMMA FailingOnlyHides ==
  ASSUME NEW file, NEW call, HasSignature(file, call)
  PROVE  HasSignature(file, "none")
<1>1. CASE VerifyEmbeddedSignature(file)
  BY <1>1 DEF HasSignature
<1>2. CASE VerifyCatalogSignature(file, call)
  <2>1. file.catalogue = "SUCCESS"
    BY <1>2 DEF VerifyCatalogSignature
  <2> DEFINE stops == {n \in DOMAIN CatalogCalls :
                         \/ CatalogCalls[n] = "none"
                         \/ CatalogCalls[n] = "EnumCatalog" /\ file.catalogue = "none"
                         \/ n = Len(CatalogCalls)}
  <2>2. Len(CatalogCalls) = 6 /\ DOMAIN CatalogCalls = 1..6 /\ CatalogCalls[6] = "VerifyTrust"
        /\ \A n \in 1..6 : CatalogCalls[n] # "none"
    BY DEF CatalogCalls
  <2>3. stops = {6}
    BY <2>1, <2>2
  <2>4. Deciding(file, "none") = CHOOSE n \in stops : \A l \in stops : n <= l
    BY DEF Deciding
  <2> HIDE DEF stops
  <2>5. Deciding(file, "none") = 6
    BY <2>3, <2>4
  <2> QED
    BY <2>1, <2>2, <2>5 DEF VerifyCatalogSignature, HasSignature
<1> QED
  BY <1>1, <1>2 DEF HasSignature

\* The driver of a name is the one that CHOOSE finds.
LEMMA ChosenDriver ==
  ASSUME NEW drivers, NEW k \in DOMAIN drivers,
         \A l \in DOMAIN drivers : drivers[l].path.name = drivers[k].path.name => l = k
  PROVE  (CHOOSE d \in Range(drivers) : Fixed(d.path, "none") = Fixed(drivers[k].path, "none")) = drivers[k]
<1>1. \A d \in Range(drivers) : Fixed(d.path, "none") = Fixed(drivers[k].path, "none") => d = drivers[k]
  BY DEF Fixed, Range
<1>2. drivers[k] \in Range(drivers)
  BY DEF Range
<1> QED
  BY <1>1, <1>2

\* The file behind the path of a driver.
LEMMA FileOf ==
  ASSUME ListInv, NEW k \in DOMAIN machine.drivers
  PROVE  FileAt(machine.drivers[k].path, "none") = machine.drivers[k].file
<1>1. (CHOOSE d \in Range(machine.drivers) :
          Fixed(d.path, "none") = Fixed(machine.drivers[k].path, "none")) = machine.drivers[k]
  BY ChosenDriver DEF ListInv
<1>2. Fixed(machine.drivers[k].path, "none").root # "nowhere"
  BY DEF Fixed
<1> QED
  BY <1>1, <1>2 DEF FileAt, SamePath

\* Two paths of one name lead to one file.
LEMMA SameFile ==
  ASSUME NEW p, NEW q, p.name = q.name
  PROVE  FileAt(p, "none") = FileAt(q, "none")
<1> DEFINE At(x) == CHOOSE d \in Range(machine.drivers) : Fixed(d.path, "none") = x
<1>1. \A r : FileAt(r, "none") = At(Fixed(r, "none")).file
  BY DEF FileAt, SamePath, Fixed
<1>2. Fixed(p, "none") = Fixed(q, "none")
  BY DEF Fixed
<1> HIDE DEF At
<1> QED
  BY <1>1, <1>2

\* The paths that GetLoadedDrivers adds to an empty list are those of drivers.
LEMMA LoadedPaths ==
  ASSUME ListInv, NEW call, DriverPaths = <<>>, GetLoadedDrivers(call)
  PROVE  \A p \in Range(DriverPaths') : \E k \in DOMAIN machine.drivers : p = machine.drivers[k].path
<1> DEFINE paths == [n \in DOMAIN machine.drivers |-> machine.drivers[n].path]
           D == [name : STRING, root : BOOLEAN]
<1>1. machine.drivers \in Seq(Driver) /\ DOMAIN machine.drivers = 1..Len(machine.drivers)
      /\ Len(machine.drivers) \in Nat /\ Len(machine.drivers) # 0
  BY DEF ListInv
<1>2. paths \in Seq(D) /\ Len(paths) = Len(machine.drivers)
  <2>1. ASSUME NEW n \in 1..Len(machine.drivers)
        PROVE  machine.drivers[n].path \in D
    <3>1. machine.drivers[n] \in Driver
      BY <1>1, ElementOfSeq
    <3> QED
      BY <3>1 DEF Driver
  <2>2. paths = [n \in 1..Len(machine.drivers) |-> machine.drivers[n].path]
    BY <1>1
  <2> HIDE DEF paths, D
  <2> QED
    BY <1>1, <2>1, <2>2
<1>3. \A n \in 1..Len(paths) : \E k \in DOMAIN machine.drivers : paths[n] = machine.drivers[k].path
  BY <1>1, <1>2
<1> HIDE DEF paths
<1>4. LoadedDrivers(call) \in {<<>>, SubSeq(paths, 1, 1), paths}
  BY DEF LoadedDrivers, paths
<1>5. SubSeq(paths, 1, 1) \in Seq(D) /\ Len(SubSeq(paths, 1, 1)) = 1 /\ SubSeq(paths, 1, 1)[1] = paths[1]
  <2> HIDE DEF D
  <2>1. paths[1] \in D
    <3>1. 1 \in 1..Len(paths)
      BY <1>1, <1>2
    <3> QED
      BY <1>2, <3>1, ElementOfSeq
  <2> QED
    BY <2>1, SubSeqProperties
<1>6. /\ LoadedDrivers(call) \in Seq(D)
      /\ \A n \in 1..Len(LoadedDrivers(call)) :
            \E k \in DOMAIN machine.drivers : LoadedDrivers(call)[n] = machine.drivers[k].path
  <2>1. CASE LoadedDrivers(call) = <<>>
    BY <2>1
  <2>2. CASE LoadedDrivers(call) = SubSeq(paths, 1, 1)
    BY <1>1, <1>2, <1>3, <1>5, <2>2
  <2>3. CASE LoadedDrivers(call) = paths
    BY <1>2, <1>3, <2>3
  <2> QED
    BY <1>4, <2>1, <2>2, <2>3
<1>7. DriverPaths' = LoadedDrivers(call)
  BY <1>6, ConcatEmptySeq DEF GetLoadedDrivers
<1> QED
  BY <1>6, <1>7 DEF Range

\* A driver whose certificate is revoked stays cleared, and so does every other.
LEMMA RevokedFile ==
  ASSUME ListInv, Revoke
  PROVE  /\ ListInv'
         /\ \A p \in Range(DriverPaths) : Cleared(p) => Cleared(p)'
<1>0. PICK n \in DOMAIN machine.drivers :
         machine' = [machine EXCEPT !.drivers[n].file.embedded = "REVOKED"]
  BY DEF Revoke
<1>1. machine.drivers \in Seq(Driver) /\ machine.drivers[n] \in Driver /\ DOMAIN machine.drivers = 1..Len(machine.drivers)
  BY <1>0 DEF ListInv
<1> DEFINE f == [machine.drivers[n].file EXCEPT !.embedded = "REVOKED"]
           d == [machine.drivers[n] EXCEPT !.file = f]
<1>2. d \in Driver /\ d.path = machine.drivers[n].path /\ d.file = f /\ f.embedded = "REVOKED"
  <2>1. /\ f.embedded = "REVOKED"
        /\ f \in File
    <3>1. machine.drivers[n].file \in File
      BY <1>1 DEF Driver
    <3>2. f = [embedded |-> "REVOKED", catalogue |-> machine.drivers[n].file.catalogue,
               subject |-> machine.drivers[n].file.subject,
               attributes |-> machine.drivers[n].file.attributes]
      BY <3>1 DEF File
    <3>3. /\ machine.drivers[n].file.catalogue \in STRING
          /\ machine.drivers[n].file.subject \in STRING
          /\ machine.drivers[n].file.attributes \in STRING
      BY <3>1 DEF File
    <3> HIDE DEF f
    <3> QED
      BY <3>2, <3>3 DEF File, Refused
  <2> HIDE DEF f
  <2> QED
    BY <1>1, <2>1 DEF Driver
<1>3. machine'.drivers = [machine.drivers EXCEPT ![n] = d]
  BY <1>0, <1>1 DEF ListInv
<1> HIDE DEF d, f
<1>4. machine'.drivers \in Seq(Driver) /\ DOMAIN machine'.drivers = DOMAIN machine.drivers
      /\ machine'.drivers # <<>>
  BY <1>1, <1>2, <1>3, <1>0 DEF ListInv
<1>5. \A k \in DOMAIN machine.drivers :
         machine'.drivers[k].path = machine.drivers[k].path
         /\ (machine'.drivers[k].file = machine.drivers[k].file
             \/ machine'.drivers[k].file.embedded = "REVOKED")
  BY <1>1, <1>2, <1>3
<1>6. machine' \in [drivers : Seq(Driver), services : Seq([name : STRING, state : STRING]),
                    devices : Seq(STRING)]
  <2>1. machine' = [drivers |-> machine'.drivers, services |-> machine.services, devices |-> machine.devices]
    BY <1>0 DEF ListInv
  <2> QED
    BY <1>4, <2>1 DEF ListInv
<1>7. UNCHANGED <<DriverPaths, PassedCertCheckDrivers, rounds>>
  BY DEF Revoke
<1>8. ListInv'
  <2>1. \A k, l \in DOMAIN machine'.drivers :
           machine'.drivers[k].path.name = machine'.drivers[l].path.name => k = l
    BY <1>4, <1>5 DEF ListInv
  <2>2. \A p \in Range(DriverPaths') : \E k \in DOMAIN machine'.drivers : p = machine'.drivers[k].path
    BY <1>4, <1>5, <1>7 DEF ListInv
  <2> QED
    BY <1>4, <1>6, <1>7, <2>1, <2>2 DEF ListInv
<1>9. ASSUME NEW p \in Range(DriverPaths), Cleared(p)
      PROVE  Cleared(p)'
  <2>1. PICK k \in DOMAIN machine.drivers : p = machine.drivers[k].path
    BY DEF ListInv
  <2>2. FileAt(p, "none") = machine.drivers[k].file
    BY <2>1, FileOf
  <2>3. FileAt(p, "none")' = machine'.drivers[k].file
    <3>1. \A l \in DOMAIN machine'.drivers :
             machine'.drivers[l].path.name = machine'.drivers[k].path.name => l = k
      BY <1>4, <1>8 DEF ListInv
    <3>2. p = machine'.drivers[k].path
      BY <1>5, <2>1
    <3>3. (CHOOSE x \in Range(machine'.drivers) : Fixed(x.path, "none") = Fixed(p, "none"))
             = machine'.drivers[k]
      BY <1>4, <3>1, <3>2, ChosenDriver
    <3> QED
      BY <3>3 DEF FileAt, SamePath, Fixed
  <2> QED
    BY <1>5, <1>9, <2>2, <2>3 DEF Cleared, HasSignature
<1> QED
  BY <1>8, <1>9


\* What passes in a round with no excuse is cleared.
LEMMA PassedIsCleared ==
  ASSUME ListInv, CacheInv, ~excused, NEW p \in Range(DriverPaths), NEW call,
         call \notin {"WindowsDrive", "VerifyEmbedded"}, Passes(p, call)
  PROVE  Cleared(p)
<1>1. FileAt(p, call) = FileAt(p, "none")
  BY DEF FileAt, Fixed
<1>2. CASE p \in WhitelistedUnsignedDrivers
  BY <1>2 DEF Cleared, SamePath
<1>3. CASE Fixed(p, "none") \in PassedCertCheckDrivers
  BY <1>3 DEF CacheInv
<1>4. CASE HasSignature(FileAt(p, call), call)
  BY <1>1, <1>4, FailingOnlyHides DEF Cleared
<1> QED
  BY <1>2, <1>3, <1>4 DEF Passes, Skipped

\* The constructor finds drivers and remembers none.
LEMMA ConstructorKeeps ==
  ASSUME ListInv, NEW call, ServicesConstructor(call)
  PROVE  ListInv' /\ CacheInv'
<1>1. DriverPaths = <<>> /\ PassedCertCheckDrivers = {} /\ GetLoadedDrivers(call)
  BY DEF ListInv, ServicesConstructor
<1>2. \A p \in Range(DriverPaths') : \E k \in DOMAIN machine.drivers : p = machine.drivers[k].path
  BY <1>1, LoadedPaths
<1>3. rounds' = 1 /\ machine' = machine /\ PassedCertCheckDrivers' = PassedCertCheckDrivers
  BY DEF ServicesConstructor
<1> QED
  BY <1>1, <1>2, <1>3 DEF ListInv, CacheInv

\* A round that had no list before leaves what the first round leaves.
LEMMA RoundKeeps ==
  ASSUME ListInv, CacheInv, NEW call, GetUnsignedDrivers(call)
  PROVE  ListInv' /\ CacheInv'
<1>1. machine' = machine /\ rounds' # 0
  BY DEF GetUnsignedDrivers
<1>2. \A p \in Range(DriverPaths') : \E k \in DOMAIN machine.drivers : p = machine.drivers[k].path
  <2>1. CASE DriverPaths = <<>>
    BY <2>1, LoadedPaths DEF GetUnsignedDrivers
  <2>2. CASE DriverPaths # <<>>
    BY <2>2 DEF GetUnsignedDrivers, ListInv
  <2> QED
    BY <2>1, <2>2
<1>3. \A p : Cleared(p)' <=> Cleared(p)
  BY <1>1 DEF Cleared, FileAt, SamePath
<1>4. DriverPaths' = <<>> => PassedCertCheckDrivers' = {}
  BY DEF ListInv, GetUnsignedDrivers, Remember, Range
<1>5. CacheInv'
  <2> SUFFICES ASSUME ~excused', NEW p \in Range(DriverPaths'),
                      Fixed(p, "none") \in PassedCertCheckDrivers'
               PROVE  Cleared(p)
    BY <1>3 DEF CacheInv
  <2>1. ~excused /\ (DriverPaths # <<>> => DriverPaths' = DriverPaths)
    BY DEF GetUnsignedDrivers
  <2>2. CASE Fixed(p, "none") \in PassedCertCheckDrivers
    <3>1. DriverPaths' = DriverPaths
      BY <2>1, <2>2 DEF ListInv
    <3> QED
      BY <2>1, <2>2, <3>1 DEF CacheInv
  <2>3. CASE Fixed(p, "none") \notin PassedCertCheckDrivers
    <3>1. /\ PassedCertCheckDrivers' = PassedCertCheckDrivers \cup Remember(call)
          /\ call \notin {"WindowsDrive", "VerifyEmbedded"}
      BY <2>3 DEF GetUnsignedDrivers
    <3>2. PICK q \in Range(DriverPaths') : Passes(q, call) /\ Fixed(q, call) = Fixed(p, "none")
      BY <2>3, <3>1 DEF Remember
    <3>3. q.name = p.name
      BY <3>2 DEF Fixed
    <3>4. Cleared(q)
      <4>1. CASE DriverPaths # <<>>
        BY <2>1, <3>1, <3>2, <4>1, PassedIsCleared
      <4>2. CASE DriverPaths = <<>>
        <5>1. PassedCertCheckDrivers = {}
          BY <4>2 DEF ListInv
        <5>2. FileAt(q, call) = FileAt(q, "none")
          BY <3>1 DEF FileAt, Fixed
        <5>3. CASE q \in WhitelistedUnsignedDrivers
          BY <5>3 DEF Cleared, SamePath
        <5>4. CASE HasSignature(FileAt(q, call), call)
          BY <5>2, <5>4, FailingOnlyHides DEF Cleared
        <5> QED
          BY <3>2, <5>1, <5>3, <5>4 DEF Passes, Skipped
      <4> QED
        BY <4>1, <4>2
    <3>5. FileAt(p, "none") = FileAt(q, "none")
      BY <3>3, SameFile
    <3>6. \A w : SamePath(w, q) => SamePath(w, p)
      BY <3>3 DEF SamePath, Fixed
    <3> QED
      BY <3>4, <3>5, <3>6 DEF Cleared
  <2> QED
    BY <2>2, <2>3
<1> QED
  BY <1>1, <1>2, <1>4, <1>5 DEF ListInv

\* Every step keeps the list and the cache.
LEMMA ListStep == ListInv /\ CacheInv /\ [ListNext]_listVars => ListInv' /\ CacheInv'
<1> SUFFICES ASSUME ListInv, CacheInv, [ListNext]_listVars
             PROVE  ListInv' /\ CacheInv'
  OBVIOUS
<1>1. CASE \E call \in ConstructorCalls : ServicesConstructor(call)
  BY <1>1, ConstructorKeeps
<1>2. CASE \E call \in RoundCalls : GetUnsignedDrivers(call)
  BY <1>2, RoundKeeps
<1>3. CASE Revoke
  <2>1. ListInv' /\ \A p \in Range(DriverPaths) : Cleared(p) => Cleared(p)'
    BY <1>3, RevokedFile
  <2>2. UNCHANGED <<DriverPaths, PassedCertCheckDrivers, excused>>
    BY <1>3 DEF Revoke
  <2> QED
    BY <2>1, <2>2 DEF CacheInv
<1>4. CASE UNCHANGED listVars
  <2>1. \A p : Cleared(p)' <=> Cleared(p)
    BY <1>4 DEF listVars, Cleared, FileAt, SamePath
  <2> QED
    BY <1>4, <2>1 DEF listVars, ListInv, CacheInv
<1> QED
  BY <1>1, <1>2, <1>3, <1>4 DEF ListNext

\* Nothing is listed and nothing remembered at first.
LEMMA ListStarts == ListInit => ListInv /\ CacheInv
<1> SUFFICES ASSUME ListInit
             PROVE  ListInv /\ CacheInv
  OBVIOUS
<1>1. machine \in [drivers : Seq(Driver), services : Seq([name : STRING, state : STRING]),
                   devices : Seq(STRING)]
  BY MachinesAssumption DEF ListInit, Driver, File
<1>2. /\ machine.drivers # <<>>
      /\ \A k, l \in DOMAIN machine.drivers :
            machine.drivers[k].path.name = machine.drivers[l].path.name => k = l
  BY MachinesAssumption DEF ListInit
<1>3. Range(<<>>) = {}
  BY DEF Range
<1> QED
  BY <1>1, <1>2, <1>3 DEF ListInit, ListInv, CacheInv

\* A step lists every driver that is not cleared, or is no round, or is excused.
LEMMA RoundLists ==
  ASSUME ListInv, CacheInv, [ListNext]_listVars, NEW p \in Range(DriverPaths)
  PROVE  excused' \/ rounds' = rounds \/ Cleared(p) \/ Fixed(p, "none") \in UnsignedLoadedDrivers'
<1>0. DriverPaths # <<>>
  BY DEF Range
<1>1. ASSUME NEW call, ServicesConstructor(call)
      PROVE  FALSE
  BY <1>0, <1>1 DEF ServicesConstructor, ListInv
<1>2. ASSUME NEW call, GetUnsignedDrivers(call), ~excused', ~Cleared(p)
      PROVE  Fixed(p, "none") \in UnsignedLoadedDrivers'
  <2>1. /\ DriverPaths' = DriverPaths /\ ~excused /\ call \notin {"WindowsDrive", "VerifyEmbedded"}
        /\ UnsignedLoadedDrivers' =
              {Fixed(x, call) : x \in {q \in Range(DriverPaths') : ~Passes(q, call)}}
    BY <1>0, <1>2 DEF GetUnsignedDrivers
  <2>2. ~Passes(p, call)
    BY <1>2, <2>1, PassedIsCleared
  <2>3. Fixed(p, call) = Fixed(p, "none")
    BY <2>1 DEF Fixed
  <2> QED
    BY <2>1, <2>2, <2>3
<1>3. CASE Revoke \/ UNCHANGED listVars
  BY <1>3 DEF Revoke, listVars
<1> QED
  BY <1>1, <1>2, <1>3 DEF ListNext

\* A driver that never had a signature and is not left alone by name is listed after every
\* round of GetUnsignedDrivers (Services.cpp:223) that had the list, until a call call has
\* excused a driver: the cache of drivers that passed never hides it.
THEOREM UnsignedListed == ListSpec => UnsignedIsListed
<1>1. ListInv /\ CacheInv /\ [ListNext]_listVars =>
        [\A p \in Range(DriverPaths) :
          \/ excused' \/ rounds' = rounds
          \/ HasSignature(FileAt(p, "none"), "none")
          \/ FileAt(p, "none").embedded = "REVOKED"
          \/ \E w \in WhitelistedUnsignedDrivers : SamePath(w, p)
          \/ Fixed(p, "none") \in UnsignedLoadedDrivers']_listVars
  BY RoundLists DEF Cleared
<1> QED
  BY <1>1, ListStarts, ListStep, PTL DEF ListSpec, UnsignedIsListed

-----------------------------------------------------------------------------
(* Bytes.  Induction over the numbers as a fact about sets of them.          *)

\* Numbers have a least one.
LEMMA LeastNumber ==
    ASSUME NEW T \in SUBSET Nat, T # {}
    PROVE  \E x \in T : \A y \in T : x <= y
<1>1. PICK x \in T : \A y \in T : ~(<<y, x>> \in OpToRel(<, Nat))
  BY NatLessThanWellFounded, WFMin
<1>2. \A y \in T : ~(y < x)
  BY <1>1 DEF OpToRel
<1> QED
  BY <1>2

\* A set that holds 0 and with each number the next holds every number.
LEMMA SetInduction ==
    ASSUME NEW T, 0 \in T, \A n \in T \cap Nat : n + 1 \in T
    PROVE  Nat \subseteq T
<1> SUFFICES ASSUME Nat \ T # {} PROVE FALSE
  OBVIOUS
<1>1. PICK x \in Nat \ T : \A y \in Nat \ T : x <= y
  BY LeastNumber
<1>2. x # 0 /\ x - 1 \in Nat /\ x - 1 \in T
  BY <1>1
<1>3. (x - 1) + 1 = x
  BY <1>1
<1> QED
  BY <1>1, <1>2, <1>3

\* The exclusive or of two words undoes itself.
LEMMA XorOfWords ==
    ASSUME NEW a \in Word, NEW b \in Word
    PROVE  ExclusiveOr(a, b) \in Word /\ ExclusiveOr(ExclusiveOr(a, b), b) = a
BY XorAssumption, Zenon DEF ExclusiveOr

\* The exclusive or of two bytes is a byte and undoes itself.
LEMMA XorFacts ==
    ASSUME NEW a \in Byte, NEW b \in Byte
    PROVE  ExclusiveOr(a, b) \in Byte /\ ExclusiveOr(ExclusiveOr(a, b), b) = a
<1>1. ExclusiveOr(a, b) \in Byte
  BY XorAssumption, Zenon DEF ExclusiveOr
<1>2. a \in Word /\ b \in Word
  BY WordAssumption DEF Byte, Word
<1> QED
  BY <1>1, <1>2, XorOfWords

\* The exclusive or of a byte with another is null only if they are the same.
LEMMA XorIsNull ==
    ASSUME NEW a \in Byte, NEW b \in Byte, ExclusiveOr(a, b) = 0
    PROVE  a = b
<1>1. b \in Word
  BY WordAssumption DEF Byte, Word
<1>2. ExclusiveOr(0, b) = b
  BY <1>1, XorAssumption, Zenon DEF ExclusiveOr
<1>3. ExclusiveOr(ExclusiveOr(a, b), b) = a
  BY XorFacts
<1> QED
  BY <1>2, <1>3

\* Two parts without a bit in common, the high one n bits further up.
LEMMA OrFacts ==
    ASSUME NEW n \in 1..7, NEW high \in 0..(2^(8 - n) - 1), NEW low \in 0..(2^n - 1)
    PROVE  /\ InclusiveOr(2^n * high, low) = 2^n * high + low
           /\ InclusiveOr(low, 2^n * high) = 2^n * high + low
BY OrAssumption, Zenon DEF InclusiveOr

\* What the client enciphers the server deciphers.
LEMMA CipherIsUndone ==
    ASSUME NEW b \in Byte, NEW i \in Nat
    PROVE  CipherData(b, i) \in Byte /\ Undone(b, i)
<1> DEFINE x == ExclusiveOr(b, 144)
<1>1. x \in Byte /\ ExclusiveOr(x, 144) = b
  <2>1. 144 \in Byte
    BY DEF Byte
  <2> QED
    BY <2>1, XorFacts, Zenon
<1> HIDE DEF x
<1>2. /\ (x + 20) % 256 \in Byte /\ (((x + 20) % 256) + 236) % 256 = x
      /\ (x + 236) % 256 \in Byte /\ (((x + 236) % 256) + 20) % 256 = x
  BY <1>1 DEF Byte
<1>3. CASE i % 2 = 0
  <2>1. CipherData(b, i) = (x + 20) % 256
    BY <1>3 DEF CipherData, x
  <2> QED
    BY <1>1, <1>2, <1>3, <2>1 DEF Undone, Cipher
<1>4. CASE i % 2 # 0
  <2>1. CipherData(b, i) = (x + 236) % 256
    BY <1>4 DEF CipherData, x
  <2> QED
    BY <1>1, <1>2, <1>4, <2>1 DEF Undone, Cipher
<1> QED
  BY <1>3, <1>4

\* A byte is obfuscated and comes back.
LEMMA ObfuscationIsUndone ==
    ASSUME NEW b \in Byte, NEW added \in Int
    PROVE  obfuscate(b, added) \in Byte /\ deobfuscate(obfuscate(b, added), added) = b
<1> DEFINE x == ExclusiveOr(b, SeedByte)
<1>1. x \in Byte /\ ExclusiveOr(x, SeedByte) = b
  <2>1. SeedByte \in Byte
    BY DEF Byte, SeedByte
  <2> QED
    BY <2>1, XorFacts, Zenon
<1> HIDE DEF x
<1>2. (x + added) % 256 \in Byte /\ (((x + added) % 256) - added) % 256 = x
  BY <1>1 DEF Byte
<1>3. obfuscate(b, added) = (x + added) % 256
  BY DEF obfuscate, x
<1> QED
  BY <1>1, <1>2, <1>3 DEF deobfuscate

\* A character that was hidden at compile time comes back.
LEMMA CharsComeBack ==
    ASSUME NEW c \in 0..127, NEW i \in Nat
    PROVE  WideComesBack(c, i) /\ CharComesBack(c, i)
<1> DEFINE k == (StringKey + i) % 256
           x == ExclusiveOr(c % 256, k)
<1>1. k \in Byte /\ c \in Byte /\ c % 256 = c
  BY DEF Byte, StringKey
<1>2. x \in Byte /\ ExclusiveOr(x, k) = c
  <2> HIDE DEF k
  <2>1. ExclusiveOr(c, k) \in Byte /\ ExclusiveOr(ExclusiveOr(c, k), k) = c
    BY <1>1, XorFacts, Zenon
  <2> QED BY <1>1, <2>1
<1>3. encrypt_char(c, i) = x /\ encrypt_wchar(c, i) = Wide(x)
  BY DEF encrypt_char, encrypt_wchar
<1>4. x % 256 = x /\ Wide(x) % 256 = x
  <2> HIDE DEF x, k
  <2> QED BY <1>2 DEF Byte, Wide, IsSigned
<1>5. /\ decrypt_char(x, i) = ExclusiveOr(x % 256, k)
      /\ decrypt_wchar(Wide(x), i) = Wide(ExclusiveOr(Wide(x) % 256, k))
  BY DEF decrypt_char, decrypt_wchar
<1>6. Wide(c) = c
  BY DEF Wide, IsSigned
<1> HIDE DEF x, k
<1> QED
  BY <1>2, <1>3, <1>4, <1>5, <1>6 DEF WideComesBack, CharComesBack

-----------------------------------------------------------------------------
(* The game code. *)

\* The key of the game code has bytes.
LEMMA KeyByteType ==
    ASSUME NEW seed \in Nat, NEW i \in Nat
    PROVE  KeyByte(seed, i) \in Byte
<1> DEFINE n == i % 16
<1>1. n \in 0..15
  OBVIOUS
<1>2. 2^n \in Nat \ {0}
  <2> HIDE DEF n
  <2>1. /\ 2^0 \in Nat \ {0} /\ 2^1 \in Nat \ {0} /\ 2^2 \in Nat \ {0} /\ 2^3 \in Nat \ {0}
        /\ 2^4 \in Nat \ {0} /\ 2^5 \in Nat \ {0} /\ 2^6 \in Nat \ {0} /\ 2^7 \in Nat \ {0}
        /\ 2^8 \in Nat \ {0} /\ 2^9 \in Nat \ {0} /\ 2^10 \in Nat \ {0} /\ 2^11 \in Nat \ {0}
        /\ 2^12 \in Nat \ {0} /\ 2^13 \in Nat \ {0} /\ 2^14 \in Nat \ {0} /\ 2^15 \in Nat \ {0}
    OBVIOUS
  <2>2. \/ n = 0 \/ n = 1 \/ n = 2 \/ n = 3 \/ n = 4 \/ n = 5 \/ n = 6 \/ n = 7
        \/ n = 8 \/ n = 9 \/ n = 10 \/ n = 11 \/ n = 12 \/ n = 13 \/ n = 14 \/ n = 15
    BY <1>1
  <2> QED
    BY <2>1, <2>2, Zenon
<1>3. (seed \div 2^n) \in Int
  BY <1>2
<1> QED
  BY <1>3 DEF KeyByte, Byte

\* A character below 128 is rotated by n bits, and back.
LEMMA RotationIsUndone ==
    ASSUME NEW b \in 0..127, NEW n \in 1..3
    PROVE  LET r == InclusiveOr(ShiftLeft(b, n), ShiftRightChar(b, 8 - n))
           IN r \in Byte /\ InclusiveOr(ShiftRightByte(r, n), ShiftLeft(r, 8 - n)) = b
<1>1. CASE n = 1
  <2>1. 2^1 = 2 /\ 2^7 = 128 /\ 8 - 1 = 7 /\ 8 - 7 = 1
    OBVIOUS
  <2>2. ShiftLeft(b, 1) = 2 * b /\ ShiftRightChar(b, 7) = 0
    BY <2>1 DEF ShiftLeft, ShiftRightChar, IsSigned
  <2>3. InclusiveOr(2 * b, 0) = 2 * b
    <3>1. InclusiveOr(2^1 * b, 0) = 2^1 * b + 0
      BY <2>1, OrFacts
    <3> QED BY <2>1, <3>1
  <2>4. ShiftRightByte(2 * b, 1) = b /\ ShiftLeft(2 * b, 7) = 0
    BY <2>1 DEF ShiftRightByte, ShiftLeft
  <2>5. InclusiveOr(b, 0) = b
    <3>1. InclusiveOr(b, 2^7 * 0) = 2^7 * 0 + b
      BY <2>1, OrFacts
    <3> QED BY <2>1, <3>1
  <2> QED
    BY <1>1, <2>1, <2>2, <2>3, <2>4, <2>5 DEF Byte
<1>2. CASE n = 2
  <2>1. 2^2 = 4 /\ 2^6 = 64 /\ 8 - 2 = 6 /\ 8 - 6 = 2
    OBVIOUS
  <2> DEFINE h == b % 64
             l == b \div 64
             r == 4 * h + l
  <2>2. h \in 0..63 /\ l \in 0..1 /\ b = 64 * l + h /\ r \in 0..255
    OBVIOUS
  <2>3. ShiftLeft(b, 2) = 4 * h /\ ShiftRightChar(b, 6) = l
    BY <2>1 DEF ShiftLeft, ShiftRightChar, IsSigned
  <2> HIDE DEF h, l
  <2>4. InclusiveOr(4 * h, l) = r
    <3>1. InclusiveOr(2^2 * h, l) = 2^2 * h + l
      BY <2>1, <2>2, OrFacts
    <3> QED BY <2>1, <3>1
  <2>5. ShiftRightByte(r, 2) = h /\ ShiftLeft(r, 6) = 64 * l
    BY <2>1, <2>2 DEF ShiftRightByte, ShiftLeft
  <2>6. InclusiveOr(h, 64 * l) = b
    <3>1. InclusiveOr(h, 2^6 * l) = 2^6 * l + h
      BY <2>1, <2>2, OrFacts
    <3> QED BY <2>1, <2>2, <3>1
  <2> HIDE DEF r
  <2> QED
    BY <1>2, <2>1, <2>2, <2>3, <2>4, <2>5, <2>6 DEF Byte
<1>3. CASE n = 3
  <2>1. 2^3 = 8 /\ 2^5 = 32 /\ 8 - 3 = 5 /\ 8 - 5 = 3
    OBVIOUS
  <2> DEFINE h == b % 32
             l == b \div 32
             r == 8 * h + l
  <2>2. h \in 0..31 /\ l \in 0..3 /\ b = 32 * l + h /\ r \in 0..255
    OBVIOUS
  <2>3. ShiftLeft(b, 3) = 8 * h /\ ShiftRightChar(b, 5) = l
    BY <2>1 DEF ShiftLeft, ShiftRightChar, IsSigned
  <2> HIDE DEF h, l
  <2>4. InclusiveOr(8 * h, l) = r
    <3>1. InclusiveOr(2^3 * h, l) = 2^3 * h + l
      BY <2>1, <2>2, OrFacts
    <3> QED BY <2>1, <3>1
  <2>5. ShiftRightByte(r, 3) = h /\ ShiftLeft(r, 5) = 32 * l
    BY <2>1, <2>2 DEF ShiftRightByte, ShiftLeft
  <2>6. InclusiveOr(h, 32 * l) = b
    <3>1. InclusiveOr(h, 2^5 * l) = 2^5 * l + h
      BY <2>1, <2>2, OrFacts
    <3> QED BY <2>1, <2>2, <3>1
  <2> HIDE DEF r
  <2> QED
    BY <1>3, <2>1, <2>2, <2>3, <2>4, <2>5, <2>6 DEF Byte
<1> QED
  BY <1>1, <1>2, <1>3

\* A byte of the game code comes back if it was a character on the way.
LEMMA CodeComesBack ==
    ASSUME NEW c \in GameCodeBytes, NEW k \in Byte, NEW i \in Nat, ~IsSigned(Mixed(c, k, i))
    PROVE  CodeArrives(c, k, i)
<1> DEFINE x == ExclusiveOr(c, k)
           n == (i % 3) + 1
           b == Mixed(c, k, i)
           r == InclusiveOr(ShiftLeft(b, n), ShiftRightChar(b, 8 - n))
<1>1. c \in Byte
  BY DEF GameCodeBytes, Byte
<1>2. x \in Byte /\ ExclusiveOr(x, k) = c
  BY <1>1, XorFacts
<1>3. b \in 0..127 /\ n \in 1..3 /\ (b - (i % 7)) % 256 = x
  <2>1. b = (x + (i % 7)) % 256 /\ i % 7 \in 0..6
    BY DEF Mixed
  <2> HIDE DEF x
  <2>2. b \in Byte
    BY <2>1, <1>2 DEF Byte
  <2> QED
    BY <2>1, <2>2, <1>2 DEF Byte, IsSigned
<1>4. InclusiveOr(ShiftRightByte(r, n), ShiftLeft(r, 8 - n)) = b
  <2> HIDE DEF n, b
  <2> QED BY <1>3, RotationIsUndone
<1>5. XorEncryptAdvanced(c, k, i) = r
  BY DEF XorEncryptAdvanced
<1>6. XorDecryptAdvanced(r, k, i) = ExclusiveOr((b - (i % 7)) % 256, k)
  BY <1>4 DEF XorDecryptAdvanced
<1> HIDE DEF x, n, b, r
<1> QED
  BY <1>2, <1>3, <1>5, <1>6 DEF CodeArrives

-----------------------------------------------------------------------------
(* The writer.  Its position is the length of what is written. *)

Writers(S) == [buffer : Seq(S), length : Nat \ {0}]

\* A function over the first n numbers is a sequence of n elements.
LEMMA FunctionIsSequence ==
    ASSUME NEW n \in Nat, NEW S, NEW f \in [1..n -> S]
    PROVE  f \in Seq(S) /\ Len(f) = n
<1>1. f \in Seq(S)
  BY SeqDef
<1> QED
  BY <1>1, LenProperties

\* The recursive function of GetBuffer is defined by its equation.
LEMMA DoubledIsDefined ==
    ASSUME NEW length, NEW needed \in Nat
    PROVE  Doubled(length, needed) =
               [n \in 0..needed |->
                   IF n = 0 THEN length
                   ELSE LET l == Doubled(length, needed)[n - 1]
                        IN IF l < needed THEN 2 * l ELSE l]
<1> DEFINE Next2(l) == IF l < needed THEN 2 * l ELSE l
           P(h, k) == h = [n \in 0..k |-> IF n = 0 THEN length ELSE Next2(h[n - 1])]
           T == {k \in Nat : \E h : P(h, k)}
<1>1. 0 \in T
  <2> DEFINE h == [n \in 0..0 |-> length]
  <2>1. P(h, 0)
    OBVIOUS
  <2>2. \E g : P(g, 0)
    BY <2>1
  <2> QED BY <2>2
<1>2. ASSUME NEW k \in T \cap Nat PROVE k + 1 \in T
  <2>1. PICK h : P(h, k)
    OBVIOUS
  <2> HIDE DEF Next2
  <2> DEFINE g == [n \in 0..(k + 1) |-> IF n = k + 1 THEN Next2(h[k]) ELSE h[n]]
  <2>2. ASSUME NEW n \in 0..(k + 1)
        PROVE  g[n] = IF n = 0 THEN length ELSE Next2(g[n - 1])
    <3>1. CASE n = k + 1
      <4>1. n # 0 /\ n - 1 = k /\ k \in 0..(k + 1) /\ k # k + 1
        BY <3>1
      <4> QED BY <3>1, <4>1
    <3>2. CASE n # k + 1
      <4>1. n \in 0..k /\ (n # 0 => n - 1 \in 0..(k + 1) /\ n - 1 # k + 1)
        BY <3>2
      <4>2. h[n] = IF n = 0 THEN length ELSE Next2(h[n - 1])
        BY <4>1, <2>1
      <4> QED BY <3>2, <4>1, <4>2
    <3> QED BY <3>1, <3>2
  <2>3. P(g, k + 1)
    <3>1. g = [n \in 0..(k + 1) |-> g[n]]
      OBVIOUS
    <3> HIDE DEF g
    <3> QED BY <3>1, <2>2
  <2>4. \E gg : P(gg, k + 1)
    BY <2>3
  <2> QED BY <2>4
<1>3. needed \in T
  <2> HIDE DEF T
  <2> QED BY <1>1, <1>2, SetInduction
<1>4. Doubled(length, needed) = CHOOSE h : P(h, needed)
  BY DEF Doubled
<1>5. P(Doubled(length, needed), needed)
  <2>1. \E h : P(h, needed)
    BY <1>3
  <2> HIDE DEF P
  <2> QED BY <2>1, <1>4
<1> QED
  BY <1>5

\* The length that GetBuffer ends with is large enough.
LEMMA GrownFits ==
    ASSUME NEW length \in Nat \ {0}, NEW needed \in Nat
    PROVE  Grown(length, needed) \in Nat \ {0} /\ Grown(length, needed) >= needed
<1> DEFINE d == Doubled(length, needed)
           T == {n \in Nat : n > needed \/ (d[n] \in Nat \ {0} /\ (d[n] >= needed \/ d[n] > n))}
<1>1. d[0] = length
  BY DoubledIsDefined
<1>2. \A n \in 1..needed : d[n] = IF d[n - 1] < needed THEN 2 * d[n - 1] ELSE d[n - 1]
  BY DoubledIsDefined
<1> HIDE DEF d
<1>3. 0 \in T
  BY <1>1
<1>4. ASSUME NEW n \in T \cap Nat PROVE n + 1 \in T
  <2>1. CASE n + 1 > needed
    BY <2>1
  <2>2. CASE ~(n + 1 > needed)
    <3>1. n + 1 \in 1..needed /\ (n + 1) - 1 = n /\ ~(n > needed)
      BY <2>2
    <3>2. d[n + 1] = IF d[n] < needed THEN 2 * d[n] ELSE d[n]
      BY <1>2, <3>1
    <3>3. d[n] \in Nat \ {0} /\ (d[n] >= needed \/ d[n] > n)
      BY <3>1
    <3> QED BY <3>2, <3>3
  <2> QED BY <2>1, <2>2
<1>5. needed \in T
  <2> HIDE DEF T
  <2> QED BY <1>3, <1>4, SetInduction
<1> QED
  BY <1>5 DEF Grown, d

\* A write that fits appends, and nothing of it lies past the end.
LEMMA WriteAppends ==
    ASSUME NEW S, NEW w \in Writers(S), NEW words \in Seq(S)
    PROVE  Write(w, words) \in Writers(S) /\ Write(w, words).buffer = w.buffer \o words
<1> DEFINE all == w.buffer \o words
           m == Grown(w.length, Len(all))
<1>1. w.buffer \in Seq(S) /\ w.length \in Nat \ {0}
  BY DEF Writers
<1>2. all \in Seq(S)
  BY <1>1
<1> HIDE DEF all
<1>3. Len(all) \in Nat
  BY <1>2, LenProperties
<1>4. m \in Nat \ {0} /\ m >= Len(all)
  BY <1>1, <1>3, GrownFits
<1> HIDE DEF m
<1>5. [j \in DOMAIN all |-> IF j > m THEN Beyond ELSE all[j]] = all
  <2>1. \A j \in DOMAIN all : j \in 1..Len(all)
    BY <1>2
  <2>2. all = [j \in DOMAIN all |-> all[j]]
    BY <1>2
  <2>3. \A j \in DOMAIN all : ~(j > m)
    BY <2>1, <1>3, <1>4
  <2> QED BY <2>2, <2>3
<1>6. Write(w, words) = [buffer |-> all, length |-> m]
  BY <1>5 DEF Write, all, m
<1> QED
  BY <1>2, <1>4, <1>6 DEF Writers, all

\* A text without a null byte is not cut.
LEMMA NothingIsCut ==
    ASSUME NEW text \in Seq(Byte \ {0})
    PROVE  UpToNull(text) = text
<1>1. ~\E j \in DOMAIN text : text[j] = 0
  OBVIOUS
<1>2. UpToNull(text) = SubSeq(text, 1, Len(text))
  BY <1>1 DEF UpToNull
<1> QED
  BY <1>2

\* What is in a buffer, and a text behind its length.
WithString(buffer, text) == (buffer \o <<Len(text)>>) \o text

\* A string is written as its length and its bytes.
LEMMA WriteStringAppends ==
    ASSUME NEW S, Byte \subseteq S, NEW w \in Writers(S), NEW text \in Seq(Byte \ {0}), Len(text) \in S
    PROVE  /\ WriteString(w, text) \in Writers(S)
           /\ WriteString(w, text).buffer = WithString(w.buffer, text)
<1> DEFINE v == Write(w, <<Len(text)>>)
<1>1. v \in Writers(S) /\ v.buffer = w.buffer \o <<Len(text)>>
  <2>1. <<Len(text)>> \in Seq(S)
    OBVIOUS
  <2> QED BY <2>1, WriteAppends
<1>2. text \in Seq(S)
  OBVIOUS
<1>3. [j \in DOMAIN text |-> IF j <= Len(UpToNull(text)) THEN text[j] ELSE 0] = text
  BY NothingIsCut
<1>4. WriteString(w, text) = Write(v, text)
  BY <1>3 DEF WriteString, WriteRawString
<1> HIDE DEF v
<1> QED
  BY <1>1, <1>2, <1>4, WriteAppends DEF WithString

\* A packet starts with its opcode.
LEMMA StartedType ==
    ASSUME NEW S, NEW opcode \in S
    PROVE  Started(opcode) \in Writers(S) /\ Started(opcode).buffer = <<opcode>>
<1>1. NewWriter \in Writers(S) /\ NewWriter.buffer = <<>>
  BY WireAssumption DEF NewWriter, Writers
<1>2. <<opcode>> \in Seq(S)
  OBVIOUS
<1>3. Started(opcode) \in Writers(S) /\ Started(opcode).buffer = <<>> \o <<opcode>>
  BY <1>1, <1>2, WriteAppends DEF Started
<1> QED
  BY <1>3

-----------------------------------------------------------------------------
(* What arrives. *)

\* Every byte of a packet that fits arrives at its place.
LEMMA ByteArrives ==
    ASSUME NEW S, NEW w \in Writers(S), NEW j \in 1..Len(w.buffer), j <= ReceiveBuffer,
           w.buffer[j] \in Byte
    PROVE  Received(SendData(w))[j] = w.buffer[j]
<1> DEFINE n == Len(w.buffer)
           T == {CipherData(w.buffer[l], l - 1) : l \in 1..n}
           sent == SendData(w)
<1>1. w.buffer \in Seq(S) /\ n \in Nat /\ DOMAIN w.buffer = 1..n
  BY LenProperties DEF Writers
<1>2. sent \in [1..n -> T] /\ sent[j] = CipherData(w.buffer[j], j - 1)
  BY <1>1 DEF SendData
<1>3. Len(sent) = n
  <2> HIDE DEF sent, T, n
  <2> QED BY <1>1, <1>2, FunctionIsSequence
<1>4. j \in 1..ReceiveBuffer /\ j - 1 \in Nat /\ j <= Len(sent)
  BY <1>1, <1>3, WireAssumption
<1>5. Received(sent)[j] = Cipher(sent[j], j - 1)
  <2> HIDE DEF sent
  <2> QED BY <1>4 DEF Received
<1>6. Cipher(CipherData(w.buffer[j], j - 1), j - 1) = w.buffer[j]
  BY <1>4, CipherIsUndone DEF Undone
<1> QED
  BY <1>2, <1>5, <1>6

\* The reader sees its whole buffer.
LEMMA ReceivedLength ==
    ASSUME NEW sent
    PROVE  Len(Received(sent)) = ReceiveBuffer
<1> DEFINE T == {Received(sent)[j] : j \in 1..ReceiveBuffer}
<1>1. Received(sent) \in [1..ReceiveBuffer -> T]
  BY DEF Received
<1> HIDE DEF T
<1> QED
  BY <1>1, FunctionIsSequence, WireAssumption

\* The words at the start of a packet.
LEMMA WordsOfPacketArrive ==
    ASSUME NEW w \in Writers(Byte), Fits(w)
    PROVE  WordsArrive(w, w.buffer)
<1> DEFINE B == Received(SendData(w))
           n == Len(w.buffer)
<1>1. w.buffer \in Seq(Byte) /\ n \in Nat /\ n <= ReceiveBuffer /\ ReceiveBuffer \in Nat
  BY LenProperties, WireAssumption DEF Writers, Fits
<1>2. \A j \in 1..n : B[j] = w.buffer[j] /\ B[j] \in Byte
  <2> SUFFICES ASSUME NEW j \in 1..n PROVE B[j] = w.buffer[j] /\ B[j] \in Byte
    OBVIOUS
  <2>1. w.buffer[j] \in Byte /\ j <= ReceiveBuffer
    BY <1>1, ElementOfSeq
  <2> QED BY <2>1, ByteArrives
<1> HIDE DEF B
<1>3. /\ SubSeq(B, 1, n) \in Seq(Byte) /\ Len(SubSeq(B, 1, n)) = n
      /\ \A i \in 1..n : SubSeq(B, 1, n)[i] = B[i]
  <2>1. \A i \in 1..n : B[i] \in Byte
    BY <1>2
  <2>2. \A i \in 1..n : 1 + i - 1 = i
    BY <1>1
  <2>3. n - 1 + 1 = n /\ (IF 1 <= n THEN n - 1 + 1 ELSE 0) = n
    BY <1>1
  <2> QED BY <2>1, <2>2, <2>3, <1>1, SubSeqProperties
<1>4. SubSeq(B, 1, n) = w.buffer
  BY <1>1, <1>2, <1>3, SeqEqual
<1> QED
  BY <1>4 DEF WordsArrive, B

\* The same for one text in the middle.
LEMMA TextIsRead ==
    ASSUME NEW B, NEW p \in Nat, NEW t \in Seq(Byte),
           \A j \in 1..Len(t) : B[p + j] = t[j],
           Len(B) \in Nat, p + Len(t) <= Len(B)
    PROVE  readString(B, p, Len(t)) = t
<1>1. Len(t) \in Nat
  BY LenProperties
<1>2. readString(B, p, Len(t)) = SubSeq(B, p + 1, p + Len(t))
  BY <1>1 DEF readString
<1> DEFINE s == SubSeq(B, p + 1, p + Len(t))
<1>3. ASSUME NEW i \in (p + 1)..(p + Len(t)) PROVE B[i] = t[i - p] /\ B[i] \in Byte
  <2>1. i - p \in 1..Len(t) /\ p + (i - p) = i
    BY <1>1
  <2> QED BY <2>1, ElementOfSeq
<1>4. /\ s \in Seq(Byte) /\ Len(s) = Len(t)
      /\ \A i \in 1..Len(t) : s[i] = B[p + i]
  <2>1. \A i \in (p + 1)..(p + Len(t)) : B[i] \in Byte
    BY <1>3
  <2>2. (p + Len(t)) - (p + 1) + 1 = Len(t)
    BY <1>1
  <2>3. \A i \in 1..Len(t) : (p + 1) + i - 1 = p + i
    BY <1>1
  <2>4. (IF p + 1 <= p + Len(t) THEN (p + Len(t)) - (p + 1) + 1 ELSE 0) = Len(t)
    BY <1>1
  <2>5. p + 1 \in Int /\ p + Len(t) \in Int
    BY <1>1
  <2>6. /\ s \in Seq(Byte)
        /\ Len(s) = IF p + 1 <= p + Len(t) THEN (p + Len(t)) - (p + 1) + 1 ELSE 0
        /\ \A i \in 1..((p + Len(t)) - (p + 1) + 1) : s[i] = B[(p + 1) + i - 1]
    BY <2>1, <2>5, SubSeqProperties
  <2> HIDE DEF s
  <2> QED BY <2>2, <2>3, <2>4, <2>6
<1> HIDE DEF s
<1>5. s = t
  BY <1>4, SeqEqual
<1> QED
  BY <1>2, <1>5 DEF s

-----------------------------------------------------------------------------
(* Packets of several texts, each behind its length. *)

\* The recursive function of the builders is defined by its equation.
LEMMA WrittenIsDefined ==
    ASSUME NEW w, NEW texts, Len(texts) \in Nat
    PROVE  Written(w, texts) =
               [n \in 0..Len(texts) |->
                   IF n = 0 THEN w ELSE WriteString(Written(w, texts)[n - 1], texts[n])]
<1> DEFINE P(h, k) == h = [n \in 0..k |-> IF n = 0 THEN w ELSE WriteString(h[n - 1], texts[n])]
           T == {k \in Nat : \E h : P(h, k)}
<1>1. 0 \in T
  <2> DEFINE h == [n \in 0..0 |-> w]
  <2>1. P(h, 0)
    OBVIOUS
  <2>2. \E g : P(g, 0)
    BY <2>1
  <2> QED BY <2>2
<1>2. ASSUME NEW k \in T \cap Nat PROVE k + 1 \in T
  <2>1. PICK h : P(h, k)
    OBVIOUS
  <2> DEFINE g == [n \in 0..(k + 1) |->
                      IF n = k + 1 THEN WriteString(h[k], texts[k + 1]) ELSE h[n]]
  <2>2. ASSUME NEW n \in 0..(k + 1)
        PROVE  g[n] = IF n = 0 THEN w ELSE WriteString(g[n - 1], texts[n])
    <3>1. CASE n = k + 1
      <4>1. n # 0 /\ n - 1 = k /\ k \in 0..(k + 1) /\ k # k + 1
        BY <3>1
      <4> QED BY <3>1, <4>1
    <3>2. CASE n # k + 1
      <4>1. n \in 0..k /\ (n # 0 => n - 1 \in 0..(k + 1) /\ n - 1 # k + 1)
        BY <3>2
      <4>2. h[n] = IF n = 0 THEN w ELSE WriteString(h[n - 1], texts[n])
        BY <4>1, <2>1
      <4> QED BY <3>2, <4>1, <4>2
    <3> QED BY <3>1, <3>2
  <2>3. P(g, k + 1)
    <3>1. g = [n \in 0..(k + 1) |-> g[n]]
      OBVIOUS
    <3> HIDE DEF g
    <3> QED BY <3>1, <2>2
  <2>4. k + 1 \in Nat
    OBVIOUS
  <2> HIDE DEF P, g
  <2> QED BY <2>3, <2>4
<1>3. Len(texts) \in T
  <2> HIDE DEF T
  <2> QED BY <1>1, <1>2, SetInduction
<1>4. Written(w, texts) = CHOOSE h : P(h, Len(texts))
  BY DEF Written
<1>5. P(Written(w, texts), Len(texts))
  <2>1. \E h : P(h, Len(texts))
    BY <1>3
  <2> HIDE DEF P
  <2> QED BY <2>1, <1>4
<1> QED
  BY <1>5

\* The recursive function of the readers is defined by its equation.
LEMMA ReadsAreDefined ==
    ASSUME NEW buffer, NEW start, NEW count \in Nat
    PROVE  Reads(buffer, start, count) =
               [n \in 0..count |->
                   IF n = 0 THEN [texts |-> <<>>, position |-> start]
                   ELSE LET r == Reads(buffer, start, count)[n - 1]
                            length == ReadWord(buffer, r.position)
                        IN [texts |-> Append(r.texts, readString(buffer, r.position + 1, length)),
                            position |-> r.position + 1 + length]]
<1> DEFINE First == [texts |-> <<>>, position |-> start]
           More(r) == LET length == ReadWord(buffer, r.position)
                      IN [texts |-> Append(r.texts, readString(buffer, r.position + 1, length)),
                          position |-> r.position + 1 + length]
           P(h, k) == h = [n \in 0..k |-> IF n = 0 THEN First ELSE More(h[n - 1])]
           T == {k \in Nat : \E h : P(h, k)}
<1>1. Reads(buffer, start, count) = CHOOSE h : P(h, count)
  BY DEF Reads
<1>2. P(Reads(buffer, start, count), count) <=>
         Reads(buffer, start, count) =
               [n \in 0..count |->
                   IF n = 0 THEN [texts |-> <<>>, position |-> start]
                   ELSE LET r == Reads(buffer, start, count)[n - 1]
                            length == ReadWord(buffer, r.position)
                        IN [texts |-> Append(r.texts, readString(buffer, r.position + 1, length)),
                            position |-> r.position + 1 + length]]
  OBVIOUS
<1> HIDE DEF First, More
<1>3. 0 \in T
  <2> DEFINE h == [n \in 0..0 |-> First]
  <2>1. P(h, 0)
    OBVIOUS
  <2>2. \E g : P(g, 0)
    BY <2>1
  <2> QED BY <2>2
<1>4. ASSUME NEW k \in T \cap Nat PROVE k + 1 \in T
  <2>1. PICK h : P(h, k)
    OBVIOUS
  <2> DEFINE g == [n \in 0..(k + 1) |-> IF n = k + 1 THEN More(h[k]) ELSE h[n]]
  <2>2. ASSUME NEW n \in 0..(k + 1)
        PROVE  g[n] = IF n = 0 THEN First ELSE More(g[n - 1])
    <3>1. CASE n = k + 1
      <4>1. n # 0 /\ n - 1 = k /\ k \in 0..(k + 1) /\ k # k + 1
        BY <3>1
      <4> QED BY <3>1, <4>1
    <3>2. CASE n # k + 1
      <4>1. n \in 0..k /\ (n # 0 => n - 1 \in 0..(k + 1) /\ n - 1 # k + 1)
        BY <3>2
      <4>2. h[n] = IF n = 0 THEN First ELSE More(h[n - 1])
        BY <4>1, <2>1
      <4> QED BY <3>2, <4>1, <4>2
    <3> QED BY <3>1, <3>2
  <2>3. P(g, k + 1)
    <3>1. g = [n \in 0..(k + 1) |-> g[n]]
      OBVIOUS
    <3> HIDE DEF g
    <3> QED BY <3>1, <2>2
  <2>4. k + 1 \in Nat
    OBVIOUS
  <2> HIDE DEF P, g
  <2> QED BY <2>3, <2>4
<1>5. count \in T
  <2> HIDE DEF T
  <2> QED BY <1>3, <1>4, SetInduction
<1>6. P(Reads(buffer, start, count), count)
  <2>1. \E h : P(h, count)
    BY <1>5
  <2> HIDE DEF P
  <2> QED BY <2>1, <1>1
<1> QED
  BY <1>6, <1>2

\* A text has no null byte, and its length is a word.
LEMMA TextFacts ==
    ASSUME NEW t \in Text
    PROVE  t \in Seq(Byte \ {0}) /\ t \in Seq(Byte) /\ Len(t) \in Byte
<1>1. t \in Seq(Byte \ {0}) /\ Len(t) < 256
  BY DEF Text
<1>2. Len(t) \in Nat
  BY <1>1, LenProperties
<1>3. t \in Seq(Byte)
  BY <1>1, SeqMonotonic
<1>4. Len(t) \in Byte
  <2>1. \A n \in Nat : n < 256 => n \in Byte
    BY DEF Byte
  <2> QED BY <1>1, <1>2, <2>1
<1> QED
  BY <1>1, <1>3, <1>4

\* a is the start of b.
Starts(a, b) == Len(a) <= Len(b) /\ \A j \in 1..Len(a) : b[j] = a[j]

\* What is appended leaves what was there.
LEMMA StartsConcat ==
    ASSUME NEW S, NEW a \in Seq(S), NEW b \in Seq(S)
    PROVE  Starts(a, a \o b)
<1>1. Len(a) \in Nat /\ Len(b) \in Nat
  BY LenProperties
<1>2. /\ Len(a \o b) = Len(a) + Len(b)
      /\ \A i \in 1..(Len(a) + Len(b)) : (a \o b)[i] = IF i <= Len(a) THEN a[i] ELSE b[i - Len(a)]
  BY ConcatProperties
<1>3. \A i \in 1..Len(a) : i \in 1..(Len(a) + Len(b)) /\ i <= Len(a)
  BY <1>1
<1> QED
  BY <1>1, <1>2, <1>3 DEF Starts

\* What a start starts with, the whole starts with.
LEMMA StartsTransitive ==
    ASSUME NEW a, NEW b, NEW c, Len(a) \in Nat, Len(b) \in Nat, Len(c) \in Nat,
           Starts(a, b), Starts(b, c)
    PROVE  Starts(a, c)
<1>1. \A j \in 1..Len(a) : j \in 1..Len(b)
  BY DEF Starts
<1> QED
  BY <1>1 DEF Starts

\* What is written behind n texts stays in front of what is written later.
LEMMA WrittenGrows ==
    ASSUME NEW w \in Writers(Byte), NEW texts \in Seq(Text)
    PROVE  LET f == Written(w, texts)
           IN /\ f[0] = w
              /\ \A n \in 0..Len(texts) : f[n] \in Writers(Byte)
              /\ \A n \in 1..Len(texts) :
                    f[n].buffer = (f[n - 1].buffer \o <<Len(texts[n])>>) \o texts[n]
<1> DEFINE f == Written(w, texts)
           T == {n \in Nat : n > Len(texts) \/ f[n] \in Writers(Byte)}
<1>1. Len(texts) \in Nat
  BY LenProperties
<1>2. f[0] = w /\ \A n \in 1..Len(texts) : f[n] = WriteString(f[n - 1], texts[n])
  BY <1>1, WrittenIsDefined
<1> HIDE DEF f
<1>3. ASSUME NEW n \in 1..Len(texts), f[n - 1] \in Writers(Byte)
      PROVE  /\ f[n] \in Writers(Byte)
             /\ f[n].buffer = (f[n - 1].buffer \o <<Len(texts[n])>>) \o texts[n]
  <2>1. texts[n] \in Text
    BY ElementOfSeq
  <2>2. texts[n] \in Seq(Byte \ {0}) /\ Len(texts[n]) \in Byte
    BY <2>1, TextFacts
  <2>3. /\ WriteString(f[n - 1], texts[n]) \in Writers(Byte)
        /\ WriteString(f[n - 1], texts[n]).buffer = WithString(f[n - 1].buffer, texts[n])
    BY <1>3, <2>2, WriteStringAppends
  <2> QED BY <1>2, <2>3 DEF WithString
<1>4. 0 \in T
  BY <1>2
<1>5. ASSUME NEW n \in T \cap Nat PROVE n + 1 \in T
  <2>1. CASE n + 1 > Len(texts)
    BY <2>1
  <2>2. CASE ~(n + 1 > Len(texts))
    <3>1. n + 1 \in 1..Len(texts) /\ (n + 1) - 1 = n /\ ~(n > Len(texts))
      BY <2>2, <1>1
    <3>2. f[n] \in Writers(Byte)
      BY <3>1
    <3>3. f[n + 1] \in Writers(Byte)
      BY <1>3, <3>1, <3>2
    <3> QED BY <3>3
  <2> QED BY <2>1, <2>2
<1>6. \A n \in 0..Len(texts) : f[n] \in Writers(Byte)
  <2>1. Nat \subseteq T
    <3> HIDE DEF T
    <3> QED BY <1>4, <1>5, SetInduction
  <2> QED BY <2>1, <1>1
<1>7. \A n \in 1..Len(texts) : f[n].buffer = (f[n - 1].buffer \o <<Len(texts[n])>>) \o texts[n]
  <2> SUFFICES ASSUME NEW n \in 1..Len(texts)
               PROVE  f[n].buffer = (f[n - 1].buffer \o <<Len(texts[n])>>) \o texts[n]
    OBVIOUS
  <2>1. n - 1 \in 0..Len(texts)
    BY <1>1
  <2> QED BY <1>3, <1>6, <2>1
<1> QED
  BY <1>2, <1>6, <1>7 DEF f

\* What has been written after n texts stays at the start of the packet.
LEMMA StartsWritten ==
    ASSUME NEW w \in Writers(Byte), NEW texts \in Seq(Text)
    PROVE  \A n \in 0..Len(texts) :
               Starts(Written(w, texts)[n].buffer, Written(w, texts)[Len(texts)].buffer)
<1> DEFINE f == Written(w, texts)
           N == Len(texts)
           T == {d \in Nat : d > N \/ Starts(f[N - d].buffer, f[N].buffer)}
<1>1. N \in Nat
  BY LenProperties
<1>2. /\ \A n \in 0..N : f[n] \in Writers(Byte)
      /\ \A n \in 1..N : f[n].buffer = (f[n - 1].buffer \o <<Len(texts[n])>>) \o texts[n]
  BY WrittenGrows
<1> HIDE DEF f, N
<1>3. \A n \in 0..N : f[n].buffer \in Seq(Byte) /\ Len(f[n].buffer) \in Nat
  BY <1>2, LenProperties DEF Writers
<1>4. 0 \in T
  <2>1. N - 0 = N /\ N \in 0..N
    BY <1>1
  <2> QED BY <2>1, <1>3 DEF Starts
<1>5. ASSUME NEW n \in 1..N PROVE Starts(f[n - 1].buffer, f[n].buffer)
  <2> DEFINE a == f[n - 1].buffer
             l == <<Len(texts[n])>>
  <2>1. n - 1 \in 0..N
    BY <1>1
  <2>2. a \in Seq(Byte)
    BY <1>3, <2>1
  <2>3. texts[n] \in Text
    BY ElementOfSeq DEF N
  <2>4. texts[n] \in Seq(Byte) /\ Len(texts[n]) \in Byte
    BY <2>3, TextFacts
  <2>5. l \in Seq(Byte)
    BY <2>4
  <2>6. f[n].buffer = (a \o l) \o texts[n]
    BY <1>2
  <2> HIDE DEF a, l
  <2>7. Starts(a, a \o l) /\ a \o l \in Seq(Byte)
    BY <2>2, <2>5, StartsConcat, ConcatProperties
  <2>8. Starts(a \o l, (a \o l) \o texts[n]) /\ (a \o l) \o texts[n] \in Seq(Byte)
    BY <2>4, <2>7, StartsConcat, ConcatProperties
  <2>9. Starts(a, (a \o l) \o texts[n])
    BY <2>2, <2>7, <2>8, LenProperties, StartsTransitive
  <2> QED BY <2>6, <2>9 DEF a
<1>6. ASSUME NEW d \in T \cap Nat PROVE d + 1 \in T
  <2>1. CASE d + 1 > N
    BY <2>1
  <2>2. CASE ~(d + 1 > N)
    <3>1. /\ N - d \in 1..N /\ (N - d) - 1 = N - (d + 1) /\ ~(d > N)
          /\ N - d \in 0..N /\ N - (d + 1) \in 0..N /\ N \in 0..N
      BY <2>2, <1>1
    <3>2. Starts(f[N - d].buffer, f[N].buffer)
      BY <3>1
    <3>3. Starts(f[N - (d + 1)].buffer, f[N - d].buffer)
      BY <3>1, <1>5
    <3>4. /\ Len(f[N - d].buffer) \in Nat /\ Len(f[N].buffer) \in Nat
          /\ Len(f[N - (d + 1)].buffer) \in Nat
      BY <3>1, <1>3
    <3>5. Starts(f[N - (d + 1)].buffer, f[N].buffer)
      BY <3>2, <3>3, <3>4, StartsTransitive
    <3> QED BY <3>5
  <2> QED BY <2>1, <2>2
<1>7. Nat \subseteq T
  <2> HIDE DEF T
  <2> QED BY <1>4, <1>6, SetInduction
<1>8. ASSUME NEW n \in 0..N PROVE Starts(f[n].buffer, f[N].buffer)
  <2>1. N - n \in Nat /\ ~(N - n > N) /\ N - (N - n) = n
    BY <1>1
  <2>2. N - n \in T
    BY <2>1, <1>7
  <2> QED BY <2>1, <2>2
<1> QED
  BY <1>8 DEF f, N


\* The reads of the server go from text to text, as they were written.
LEMMA TextsAreRead ==
    ASSUME NEW w \in Writers(Byte), NEW texts \in Seq(Text), Len(w.buffer) = 1,
           Fits(Strings(w, texts))
    PROVE  LET B == Received(SendData(Strings(w, texts)))
           IN /\ Opcode(B) = w.buffer[1]
              /\ ReadStrings(B, 1, Len(texts)).texts = texts
<1> DEFINE f == Written(w, texts)
           N == Len(texts)
           final == Strings(w, texts)
           B == Received(SendData(final))
           rd == Reads(B, 1, N)
           T == {n \in Nat : n > N \/ (/\ rd[n].texts \in Seq(Text)
                                       /\ Len(rd[n].texts) = n
                                       /\ \A j \in 1..n : rd[n].texts[j] = texts[j]
                                       /\ rd[n].position = Len(f[n].buffer))}
<1>1. N \in Nat
  BY LenProperties
<1>2. /\ f[0] = w
      /\ \A n \in 0..N : f[n] \in Writers(Byte)
      /\ \A n \in 1..N : f[n].buffer = (f[n - 1].buffer \o <<Len(texts[n])>>) \o texts[n]
      /\ \A n \in 0..N : Starts(f[n].buffer, f[N].buffer)
  BY WrittenGrows, StartsWritten
<1>3. final = f[N]
  BY DEF Strings
<1>4. /\ rd[0] = [texts |-> <<>>, position |-> 1]
      /\ \A n \in 1..N :
            LET length == ReadWord(B, rd[n - 1].position)
            IN rd[n] = [texts |-> Append(rd[n - 1].texts,
                                         readString(B, rd[n - 1].position + 1, length)),
                        position |-> rd[n - 1].position + 1 + length]
  <2> HIDE DEF B
  <2>1. rd = [n \in 0..N |->
                   IF n = 0 THEN [texts |-> <<>>, position |-> 1]
                   ELSE LET r == rd[n - 1]
                            length == ReadWord(B, r.position)
                        IN [texts |-> Append(r.texts, readString(B, r.position + 1, length)),
                            position |-> r.position + 1 + length]]
    BY <1>1, ReadsAreDefined
  <2> HIDE DEF rd
  <2>2. rd[0] = [texts |-> <<>>, position |-> 1]
    <3>1. 0 \in 0..N
      BY <1>1
    <3> QED BY <2>1, <3>1, Zenon
  <2>3. ASSUME NEW n \in 1..N
        PROVE  LET length == ReadWord(B, rd[n - 1].position)
               IN rd[n] = [texts |-> Append(rd[n - 1].texts,
                                            readString(B, rd[n - 1].position + 1, length)),
                           position |-> rd[n - 1].position + 1 + length]
    <3>1. n \in 0..N /\ n # 0
      BY <1>1
    <3> QED BY <2>1, <3>1, Zenon
  <2> QED BY <2>2, <2>3, Zenon
<1>5. Len(B) = ReceiveBuffer /\ ReceiveBuffer \in Nat
  BY ReceivedLength, WireAssumption
<1> HIDE DEF f, N, final, rd
<1>6. \A n \in 0..N : f[n].buffer \in Seq(Byte) /\ Len(f[n].buffer) \in Nat
  BY <1>2, LenProperties DEF Writers
<1>7. /\ final \in Writers(Byte) /\ final.buffer \in Seq(Byte) /\ Len(final.buffer) \in Nat
      /\ Len(final.buffer) <= ReceiveBuffer
  <2>1. N \in 0..N
    BY <1>1
  <2>2. Fits(final)
    BY DEF final
  <2> QED BY <1>2, <1>3, <1>6, <2>1, <2>2 DEF Fits
<1>8. ASSUME NEW j \in 1..Len(final.buffer) PROVE B[j] = final.buffer[j]
  <2>1. final.buffer[j] \in Byte
    BY <1>7, ElementOfSeq
  <2>2. j <= ReceiveBuffer
    BY <1>5, <1>7
  <2> QED BY <1>7, <2>1, <2>2, ByteArrives DEF B
<1> HIDE DEF B
<1>9. ASSUME NEW n \in 0..N, NEW j \in 1..Len(f[n].buffer) PROVE B[j] = f[n].buffer[j]
  <2>1. Starts(f[n].buffer, final.buffer)
    BY <1>2, <1>3
  <2>2. j \in 1..Len(final.buffer) /\ final.buffer[j] = f[n].buffer[j]
    BY <2>1, <1>6, <1>7 DEF Starts
  <2> QED BY <2>2, <1>8
<1>10. ASSUME NEW n \in 0..N PROVE Len(f[n].buffer) <= Len(B)
  <2>1. Starts(f[n].buffer, final.buffer)
    BY <1>2, <1>3
  <2> QED BY <2>1, <1>5, <1>6, <1>7 DEF Starts
<1>11. ASSUME NEW n \in 1..N, rd[n - 1].position = Len(f[n - 1].buffer)
       PROVE  rd[n] = [texts |-> Append(rd[n - 1].texts, texts[n]), position |-> Len(f[n].buffer)]
  <2> DEFINE a == f[n - 1].buffer
             t == texts[n]
             p == Len(a)
  <2>1. n - 1 \in 0..N /\ n \in 0..N
    BY <1>1
  <2>2. t \in Seq(Byte) /\ Len(t) \in Byte /\ Len(t) \in Nat
    <3>1. t \in Text
      BY ElementOfSeq DEF N
    <3> QED BY <3>1, TextFacts, LenProperties
  <2>3. a \in Seq(Byte) /\ p \in Nat
    BY <1>6, <2>1
  <2>4. f[n].buffer = (a \o <<Len(t)>>) \o t
    BY <1>2
  <2> HIDE DEF a, t, p
  <2>5. /\ Len(f[n].buffer) = p + 1 + Len(t)
        /\ f[n].buffer[p + 1] = Len(t)
        /\ \A j \in 1..Len(t) : f[n].buffer[p + 1 + j] = t[j]
    <3>1. <<Len(t)>> \in Seq(Byte) /\ Len(<<Len(t)>>) = 1 /\ <<Len(t)>>[1] = Len(t)
      BY <2>2
    <3>2. a \o <<Len(t)>> \in Seq(Byte) /\ Len(a \o <<Len(t)>>) = p + 1
          /\ (a \o <<Len(t)>>)[p + 1] = Len(t)
      <4>1. p + 1 \in 1..(p + 1) /\ ~(p + 1 <= p) /\ p + 1 - p = 1
        BY <2>3
      <4>2. /\ a \o <<Len(t)>> \in Seq(Byte)
            /\ Len(a \o <<Len(t)>>) = Len(a) + Len(<<Len(t)>>)
            /\ \A i \in 1..(Len(a) + Len(<<Len(t)>>)) :
                  (a \o <<Len(t)>>)[i] = IF i <= Len(a) THEN a[i] ELSE <<Len(t)>>[i - Len(a)]
        BY <2>3, <3>1, ConcatProperties
      <4> QED BY <3>1, <4>1, <4>2 DEF p
    <3> DEFINE c == a \o <<Len(t)>>
    <3> HIDE DEF c
    <3>3. /\ Len(c \o t) = Len(c) + Len(t)
          /\ \A i \in 1..(Len(c) + Len(t)) : (c \o t)[i] = IF i <= Len(c) THEN c[i] ELSE t[i - Len(c)]
      BY <3>2, <2>2, ConcatProperties DEF c
    <3>4. Len(c) = p + 1 /\ c[p + 1] = Len(t) /\ f[n].buffer = c \o t
      BY <3>2, <2>4 DEF c
    <3>5. p + 1 \in 1..(p + 1 + Len(t)) /\ \A j \in 1..Len(t) : /\ p + 1 + j \in 1..(p + 1 + Len(t))
                                                               /\ ~(p + 1 + j <= p + 1)
                                                               /\ p + 1 + j - (p + 1) = j
      BY <2>2, <2>3
    <3> QED BY <3>3, <3>4, <3>5
  <2>6. ReadWord(B, p) = Len(t)
    <3>1. p + 1 \in 1..Len(f[n].buffer) /\ ~(p >= Len(B))
      BY <2>1, <2>2, <2>3, <2>5, <1>10, <1>5
    <3>2. B[p + 1] = Len(t)
      BY <3>1, <2>1, <2>5, <1>9
    <3> QED BY <3>1, <3>2 DEF ReadWord
  <2>7. readString(B, p + 1, Len(t)) = t
    <3>1. \A j \in 1..Len(t) : B[p + 1 + j] = t[j]
      <4> SUFFICES ASSUME NEW j \in 1..Len(t) PROVE B[p + 1 + j] = t[j]
        OBVIOUS
      <4>1. Len(f[n].buffer) = p + 1 + Len(t) /\ f[n].buffer[p + 1 + j] = t[j]
        BY <2>5
      <4>2. p + 1 + j \in 1..(p + 1 + Len(t))
        BY <2>2, <2>3
      <4> QED BY <4>1, <4>2, <2>1, <1>9
    <3>2. p + 1 \in Nat /\ p + 1 + Len(t) <= Len(B) /\ Len(B) \in Nat
      <4>1. Len(f[n].buffer) = p + 1 + Len(t)
        BY <2>5
      <4>2. Len(f[n].buffer) <= Len(B)
        BY <2>1, <1>10
      <4> QED BY <4>1, <4>2, <2>3, <1>5
    <3> QED BY <2>2, <3>1, <3>2, TextIsRead
  <2>8. rd[n - 1].position = p
    BY <1>11 DEF p, a
  <2>9. rd[n] = [texts |-> Append(rd[n - 1].texts, readString(B, p + 1, ReadWord(B, p))),
                 position |-> p + 1 + ReadWord(B, p)]
    BY <1>4, <2>8
  <2> QED BY <2>5, <2>6, <2>7, <2>9 DEF t
<1>12. 0 \in T
  <2>1. rd[0].texts = <<>> /\ rd[0].position = 1
    BY <1>4
  <2>2. Len(f[0].buffer) = 1
    BY <1>2
  <2>3. \A j \in 1..0 : rd[0].texts[j] = texts[j]
    OBVIOUS
  <2>4. <<>> \in Seq(Text) /\ Len(<<>>) = 0
    OBVIOUS
  <2>5. rd[0].texts \in Seq(Text) /\ Len(rd[0].texts) = 0
    BY <2>1, <2>4
  <2>6. rd[0].position = Len(f[0].buffer)
    BY <2>1, <2>2
  <2> QED BY <2>3, <2>5, <2>6
<1>13. ASSUME NEW n \in T \cap Nat PROVE n + 1 \in T
  <2>1. CASE n + 1 > N
    BY <2>1
  <2>2. CASE ~(n + 1 > N)
    <3>1. n + 1 \in 1..N /\ (n + 1) - 1 = n /\ ~(n > N)
      BY <2>2, <1>1
    <3>2. /\ rd[n].texts \in Seq(Text) /\ Len(rd[n].texts) = n
          /\ \A j \in 1..n : rd[n].texts[j] = texts[j]
          /\ rd[n].position = Len(f[n].buffer)
      BY <3>1
    <3>3. rd[n + 1] = [texts |-> Append(rd[n].texts, texts[n + 1]), position |-> Len(f[n + 1].buffer)]
      BY <3>1, <3>2, <1>11
    <3>4. texts[n + 1] \in Text
      BY <3>1, ElementOfSeq DEF N
    <3> DEFINE s == rd[n].texts
               e == texts[n + 1]
    <3>5. s \in Seq(Text) /\ e \in Text
      BY <3>2, <3>4
    <3> HIDE DEF s, e
    <3>6. /\ Append(s, e) \in Seq(Text) /\ Len(Append(s, e)) = Len(s) + 1
          /\ \A j \in 1..Len(s) : Append(s, e)[j] = s[j]
          /\ Append(s, e)[Len(s) + 1] = e
      BY <3>5
    <3>7. /\ rd[n + 1].texts = Append(s, e)
          /\ rd[n + 1].position = Len(f[n + 1].buffer)
      BY <3>3 DEF s, e
    <3>8. \A j \in 1..(n + 1) : Append(s, e)[j] = texts[j]
      <4>1. \A j \in 1..(n + 1) : j \in 1..n \/ j = n + 1
        OBVIOUS
      <4> QED BY <4>1, <3>2, <3>6 DEF s, e
    <3>9. Len(s) = n
      BY <3>2 DEF s
    <3>10. rd[n + 1].texts \in Seq(Text) /\ Len(rd[n + 1].texts) = n + 1
      BY <3>6, <3>7, <3>9
    <3>11. \A j \in 1..(n + 1) : rd[n + 1].texts[j] = texts[j]
      BY <3>7, <3>8
    <3>12. rd[n + 1].position = Len(f[n + 1].buffer)
      BY <3>7
    <3> HIDE DEF s, e
    <3>13. n + 1 \in Nat
      OBVIOUS
    <3> QED BY <3>10, <3>11, <3>12, <3>13
  <2> QED BY <2>1, <2>2
<1>14. N \in T
  <2> HIDE DEF T
  <2> QED BY <1>1, <1>12, <1>13, SetInduction
<1>15. rd[N].texts = texts
  <2>1. rd[N].texts \in Seq(Text) /\ Len(rd[N].texts) = N /\ \A j \in 1..N : rd[N].texts[j] = texts[j]
    BY <1>14, <1>1
  <2> QED BY <2>1, SeqEqual DEF N
<1>16. Opcode(B) = w.buffer[1]
  <2>1. Len(f[0].buffer) = 1
    BY <1>2
  <2>2. 0 \in 0..N /\ 1 \in 1..Len(f[0].buffer)
    BY <1>1, <2>1
  <2>3. B[1] = w.buffer[1]
    BY <2>2, <1>2, <1>9
  <2>4. 1 <= Len(B)
    BY <2>1, <2>2, <1>10
  <2> QED BY <2>3, <2>4, <1>5 DEF Opcode, ReadWord
<1> QED
  BY <1>15, <1>16 DEF ReadStrings, rd, N, B, final

-----------------------------------------------------------------------------
(* Packets of strings. *)

\* The fields of a sample as a sequence of texts.
LEMMA FieldsAreTexts ==
    ASSUME NEW n \in Nat, NEW fields \in [1..n -> Text]
    PROVE  fields \in Seq(Text) /\ Len(fields) = n
BY FunctionIsSequence

\* The handler of a packet reads its opcode and its texts.
LEMMA PacketIsRead ==
    ASSUME NEW opcode \in Byte, NEW n \in Nat, NEW fields \in [1..n -> Text],
           Fits(Strings(Started(opcode), fields))
    PROVE  LET B == Received(SendData(Strings(Started(opcode), fields)))
           IN Opcode(B) = opcode /\ ReadStrings(B, 1, n).texts = fields
<1> DEFINE w == Started(opcode)
<1>1. w \in Writers(Byte) /\ w.buffer = <<opcode>>
  BY StartedType
<1>2. fields \in Seq(Text) /\ Len(fields) = n
  BY FieldsAreTexts
<1>3. Len(w.buffer) = 1 /\ w.buffer[1] = opcode
  BY <1>1
<1>4. Fits(Strings(w, fields))
  OBVIOUS
<1> HIDE DEF w
<1>5. LET B == Received(SendData(Strings(w, fields)))
      IN /\ Opcode(B) = w.buffer[1]
         /\ ReadStrings(B, 1, Len(fields)).texts = fields
  BY <1>1, <1>2, <1>3, <1>4, TextsAreRead, Zenon
<1> QED
  BY <1>2, <1>3, <1>5 DEF w

\* The packets of strings arrive.
LEMMA StringsOfPacketsArrive ==
    /\ \A s \in HelloSample : StringsArrive(ClientHello(s.fields), s.fields)
    /\ \A s \in HashSample : StringsArrive(ClientHashCheck(s.fields), s.fields)
    /\ \A s \in InfoSample : StringsArrive(ClientInfoPeriodic(s.fields), s.fields)
<1>1. CS_HELLO \in Byte /\ CS_HASH_CHECK \in Byte /\ CS_CLIENTINFO_PERIODIC \in Byte
  BY DEF CS_HELLO, CS_HASH_CHECK, CS_CLIENTINFO_PERIODIC, Byte
<1>2. ASSUME NEW s \in HelloSample
      PROVE  StringsArrive(ClientHello(s.fields), s.fields)
  <2> DEFINE fields == s.fields
             B == Received(SendData(ClientHello(fields)))
  <2>1. fields \in [1..8 -> Text] /\ Fits(ClientHello(fields))
    BY DEF HelloSample
  <2>2. Opcode(B) = CS_HELLO /\ ReadStrings(B, 1, 8).texts = fields
    <3> HIDE DEF fields
    <3> QED BY <2>1, <1>1, PacketIsRead DEF ClientHello
  <2> HIDE DEF B
  <2>3. HandlerStrings(B) = ReadStrings(B, 1, 8)
    BY <2>2 DEF HandlerStrings, CS_HELLO, CS_HASH_CHECK, CS_CLIENTINFO_PERIODIC
  <2> QED BY <2>2, <2>3 DEF StringsArrive, B
<1>3. ASSUME NEW s \in HashSample
      PROVE  StringsArrive(ClientHashCheck(s.fields), s.fields)
  <2> DEFINE fields == s.fields
             B == Received(SendData(ClientHashCheck(fields)))
  <2>1. fields \in [1..4 -> Text] /\ Fits(ClientHashCheck(fields))
    BY DEF HashSample
  <2>2. Opcode(B) = CS_HASH_CHECK /\ ReadStrings(B, 1, 4).texts = fields
    <3> HIDE DEF fields
    <3> QED BY <2>1, <1>1, PacketIsRead DEF ClientHashCheck
  <2> HIDE DEF B
  <2>3. HandlerStrings(B) = ReadStrings(B, 1, 4)
    BY <2>2 DEF HandlerStrings, CS_HELLO, CS_HASH_CHECK, CS_CLIENTINFO_PERIODIC
  <2> QED BY <2>2, <2>3 DEF StringsArrive, B
<1>4. ASSUME NEW s \in InfoSample
      PROVE  StringsArrive(ClientInfoPeriodic(s.fields), s.fields)
  <2> DEFINE fields == s.fields
             B == Received(SendData(ClientInfoPeriodic(fields)))
  <2>1. fields \in [1..4 -> Text] /\ Fits(ClientInfoPeriodic(fields))
    BY DEF InfoSample
  <2>2. Opcode(B) = CS_CLIENTINFO_PERIODIC /\ ReadStrings(B, 1, 4).texts = fields
    <3> HIDE DEF fields
    <3> QED BY <2>1, <1>1, PacketIsRead DEF ClientInfoPeriodic
  <2> HIDE DEF B
  <2>3. HandlerStrings(B) = ReadStrings(B, 1, 4)
    BY <2>2 DEF HandlerStrings, CS_HELLO, CS_HASH_CHECK, CS_CLIENTINFO_PERIODIC
  <2> QED BY <2>2, <2>3 DEF StringsArrive, B
<1> QED
  BY <1>2, <1>3, <1>4

-----------------------------------------------------------------------------
(* Packets of words. *)

\* Two sequences and the one that has both.
LEMMA Joined ==
    ASSUME NEW S, NEW x \in Seq(S), NEW y \in Seq(S), NEW z \in Seq(S),
           Len(z) = Len(x) + Len(y),
           \A j \in 1..Len(x) : z[j] = x[j], \A j \in 1..Len(y) : z[Len(x) + j] = y[j]
    PROVE  x \o y = z
<1>1. Len(x) \in Nat /\ Len(y) \in Nat
  BY LenProperties
<1>2. /\ x \o y \in Seq(S)
      /\ Len(x \o y) = Len(x) + Len(y)
      /\ \A i \in 1..(Len(x) + Len(y)) : (x \o y)[i] = IF i <= Len(x) THEN x[i] ELSE y[i - Len(x)]
  BY ConcatProperties
<1>3. ASSUME NEW i \in 1..Len(z) PROVE (x \o y)[i] = z[i]
  <2>1. CASE i <= Len(x)
    <3>1. i \in 1..Len(x)
      BY <1>1, <2>1
    <3> QED BY <1>2, <2>1, <3>1
  <2>2. CASE ~(i <= Len(x))
    <3>1. i - Len(x) \in 1..Len(y) /\ Len(x) + (i - Len(x)) = i
      BY <1>1, <2>2
    <3>2. z[i] = y[i - Len(x)]
      BY <3>1
    <3> QED BY <1>2, <2>2, <3>2
  <2> QED BY <2>1, <2>2
<1> QED
  BY <1>2, <1>3, SeqEqual

\* The words in front of a text.
LEMMA TwoWords ==
    ASSUME NEW a \in Byte, NEW b \in Byte
    PROVE  <<a>> \o <<b>> = <<a, b>>
<1> DEFINE x == <<a>>
           y == <<b>>
           z == <<a, b>>
<1>1. x \in Seq(Byte) /\ y \in Seq(Byte) /\ z \in Seq(Byte)
  OBVIOUS
<1>2. Len(x) = 1 /\ Len(y) = 1 /\ Len(z) = 2 /\ z[1] = x[1] /\ z[2] = y[1]
  OBVIOUS
<1> HIDE DEF x, y, z
<1>3. \A j \in 1..Len(x) : z[j] = x[j]
  BY <1>2
<1>4. \A j \in 1..Len(y) : z[Len(x) + j] = y[j]
  BY <1>2
<1>5. Len(z) = Len(x) + Len(y)
  BY <1>2
<1>6. x \o y = z
  BY <1>1, <1>3, <1>4, <1>5, Joined
<1> QED
  BY <1>6 DEF x, y, z

\* The fixed part of a goodbye.
LEMMA ThreeWords ==
    ASSUME NEW a \in Byte, NEW b \in Byte, NEW c \in Byte
    PROVE  <<a>> \o <<b, c>> = <<a, b, c>>
<1> DEFINE x == <<a>>
           y == <<b, c>>
           z == <<a, b, c>>
<1>1. x \in Seq(Byte) /\ y \in Seq(Byte) /\ z \in Seq(Byte)
  OBVIOUS
<1>2. Len(x) = 1 /\ Len(y) = 2 /\ Len(z) = 3 /\ z[1] = x[1] /\ z[2] = y[1] /\ z[3] = y[2]
  OBVIOUS
<1> HIDE DEF x, y, z
<1>3. \A j \in 1..Len(x) : z[j] = x[j]
  BY <1>2
<1>4. \A j \in 1..Len(y) : z[Len(x) + j] = y[j]
  BY <1>2
<1>5. Len(z) = Len(x) + Len(y)
  BY <1>2
<1>6. x \o y = z
  BY <1>1, <1>3, <1>4, <1>5, Joined
<1> QED
  BY <1>6 DEF x, y, z

\* The fixed part of a flagged cheater, and the length of the string behind it.
LEMMA SixWords ==
    ASSUME NEW a \in Byte, NEW b \in Byte, NEW c \in Byte, NEW d \in Byte, NEW e \in Byte,
           NEW f \in Byte
    PROVE  (<<a>> \o <<b, c, d, e>>) \o <<f>> = <<a, b, c, d, e, f>>
<1> DEFINE x == <<a>>
           y == <<b, c, d, e>>
           z == <<a, b, c, d, e>>
           l == <<f>>
           r == <<a, b, c, d, e, f>>
<1>1. /\ x \in Seq(Byte) /\ y \in Seq(Byte) /\ z \in Seq(Byte)
      /\ l \in Seq(Byte) /\ r \in Seq(Byte)
  OBVIOUS
<1>2. /\ Len(x) = 1 /\ Len(y) = 4 /\ Len(z) = 5 /\ z[1] = x[1]
      /\ z[2] = y[1] /\ z[3] = y[2] /\ z[4] = y[3] /\ z[5] = y[4]
  OBVIOUS
<1>3. /\ Len(l) = 1 /\ Len(r) = 6 /\ r[1] = z[1] /\ r[2] = z[2]
      /\ r[3] = z[3] /\ r[4] = z[4] /\ r[5] = z[5] /\ r[6] = l[1]
  OBVIOUS
<1> HIDE DEF x, y, z, l, r
<1>4. x \o y = z
  <2>1. \A j \in 1..Len(x) : z[j] = x[j]
    BY <1>2
  <2>2. \A j \in 1..Len(y) : z[Len(x) + j] = y[j]
    BY <1>2
  <2>3. Len(z) = Len(x) + Len(y)
    BY <1>2
  <2> QED BY <1>1, <2>1, <2>2, <2>3, Joined
<1>5. z \o l = r
  <2>1. \A j \in 1..Len(z) : r[j] = z[j]
    BY <1>2, <1>3
  <2>2. \A j \in 1..Len(l) : r[Len(z) + j] = l[j]
    BY <1>2, <1>3
  <2>3. Len(r) = Len(z) + Len(l)
    BY <1>2, <1>3
  <2> QED BY <1>1, <2>1, <2>2, <2>3, Joined
<1>6. (x \o y) \o l = r
  BY <1>4, <1>5
<1> QED
  BY <1>6 DEF x, y, l, r

\* The packets with a fixed part arrive as they were written.
LEMMA WordsOfPacketsArrive ==
    /\ \A s \in FlaggedSample :
          WordsArrive(DetectedCheater(s.n, s.bytes, 7),
                      <<CS_FLAGGED_CHEATER, s.n, 0, 7, 0, Len(s.bytes)>> \o s.bytes)
    /\ \A s \in MemorySample :
          WordsArrive(QueryMemory(s.bytes), <<CS_QUERY_MEMORY, Len(s.bytes)>> \o s.bytes)
    /\ \A s \in GoodbyeSample : WordsArrive(ClientGoodbye(s.n), <<CS_GOODBYE, s.n, 0>>)
<1>1. /\ CS_FLAGGED_CHEATER \in Byte /\ CS_QUERY_MEMORY \in Byte /\ CS_GOODBYE \in Byte
      /\ 0 \in Byte /\ 7 \in Byte
  BY DEF CS_FLAGGED_CHEATER, CS_QUERY_MEMORY, CS_GOODBYE, Byte
<1>2. ASSUME NEW s \in FlaggedSample
      PROVE  WordsArrive(DetectedCheater(s.n, s.bytes, 7),
                         <<CS_FLAGGED_CHEATER, s.n, 0, 7, 0, Len(s.bytes)>> \o s.bytes)
  <2> DEFINE n == s.n
             t == s.bytes
             w == Started(CS_FLAGGED_CHEATER)
             v == Write(w, <<n, 0, 7, 0>>)
             whole == DetectedCheater(n, t, 7)
  <2>1. n \in Byte /\ t \in Text /\ Fits(whole)
    BY DEF FlaggedSample
  <2>2. w \in Writers(Byte) /\ w.buffer = <<CS_FLAGGED_CHEATER>>
    BY <1>1, StartedType
  <2> HIDE DEF w
  <2>3. <<n, 0, 7, 0>> \in Seq(Byte)
    BY <1>1, <2>1
  <2>4. v \in Writers(Byte) /\ v.buffer = <<CS_FLAGGED_CHEATER>> \o <<n, 0, 7, 0>>
    BY <2>2, <2>3, WriteAppends
  <2>5. t \in Seq(Byte \ {0}) /\ t \in Seq(Byte) /\ Len(t) \in Byte
    BY <2>1, TextFacts
  <2>6. whole = WriteString(v, t)
    BY DEF DetectedCheater, w
  <2> HIDE DEF v, whole, n, t
  <2>7. whole \in Writers(Byte) /\ whole.buffer = (v.buffer \o <<Len(t)>>) \o t
    <3>1. whole \in Writers(Byte) /\ whole.buffer = WithString(v.buffer, t)
      BY <2>4, <2>5, <2>6, WriteStringAppends
    <3> QED BY <3>1 DEF WithString
  <2>8. (<<CS_FLAGGED_CHEATER>> \o <<n, 0, 7, 0>>) \o <<Len(t)>>
            = <<CS_FLAGGED_CHEATER, n, 0, 7, 0, Len(t)>>
    BY <1>1, <2>1, <2>5, SixWords
  <2>9. WordsArrive(whole, whole.buffer)
    BY <2>1, <2>7, WordsOfPacketArrive
  <2>10. whole.buffer = <<CS_FLAGGED_CHEATER, n, 0, 7, 0, Len(t)>> \o t
    BY <2>4, <2>7, <2>8, Zenon
  <2>11. WordsArrive(whole, <<CS_FLAGGED_CHEATER, n, 0, 7, 0, Len(t)>> \o t)
    BY <2>9, <2>10, Zenon
  <2> QED BY <2>11, Zenon DEF whole, n, t
<1>3. ASSUME NEW s \in MemorySample
      PROVE  WordsArrive(QueryMemory(s.bytes), <<CS_QUERY_MEMORY, Len(s.bytes)>> \o s.bytes)
  <2> DEFINE t == s.bytes
             w == Started(CS_QUERY_MEMORY)
             v == Write(w, <<Len(t)>>)
             whole == QueryMemory(t)
  <2>1. t \in Seq(Byte) /\ Len(t) < 256 /\ Fits(whole)
    BY DEF MemorySample
  <2>2. w \in Writers(Byte) /\ w.buffer = <<CS_QUERY_MEMORY>>
    BY <1>1, StartedType
  <2> HIDE DEF w
  <2>3. Len(t) \in Byte
    <3>1. \A n \in Nat : n < 256 => n \in Byte
      BY DEF Byte
    <3> QED BY <2>1, <3>1, LenProperties
  <2>4. v \in Writers(Byte) /\ v.buffer = <<CS_QUERY_MEMORY>> \o <<Len(t)>>
    <3>1. <<Len(t)>> \in Seq(Byte)
      BY <2>3
    <3> QED BY <2>2, <3>1, WriteAppends
  <2>5. whole = Write(v, t)
    BY DEF QueryMemory, WriteByteStringWithLength, w
  <2> HIDE DEF v, whole, t
  <2>6. whole \in Writers(Byte) /\ whole.buffer = v.buffer \o t
    BY <2>1, <2>4, <2>5, WriteAppends
  <2>7. <<CS_QUERY_MEMORY>> \o <<Len(t)>> = <<CS_QUERY_MEMORY, Len(t)>>
    BY <1>1, <2>3, TwoWords
  <2>8. WordsArrive(whole, whole.buffer)
    BY <2>1, <2>6, WordsOfPacketArrive
  <2>9. whole.buffer = <<CS_QUERY_MEMORY, Len(t)>> \o t
    BY <2>4, <2>6, <2>7, Zenon
  <2>10. WordsArrive(whole, <<CS_QUERY_MEMORY, Len(t)>> \o t)
    BY <2>8, <2>9, Zenon
  <2> QED BY <2>10, Zenon DEF whole, t
<1>4. ASSUME NEW s \in GoodbyeSample
      PROVE  WordsArrive(ClientGoodbye(s.n), <<CS_GOODBYE, s.n, 0>>)
  <2> DEFINE n == s.n
             w == Started(CS_GOODBYE)
             whole == Write(w, <<n, 0>>)
  <2>1. ClientGoodbye(n) = whole
    BY DEF ClientGoodbye
  <2>2. n \in Byte /\ Fits(whole)
    BY <2>1 DEF GoodbyeSample
  <2>3. w \in Writers(Byte) /\ w.buffer = <<CS_GOODBYE>>
    BY <1>1, StartedType
  <2>4. <<n, 0>> \in Seq(Byte)
    BY <1>1, <2>2
  <2> HIDE DEF w
  <2>5. whole \in Writers(Byte) /\ whole.buffer = <<CS_GOODBYE>> \o <<n, 0>>
    BY <2>3, <2>4, WriteAppends
  <2> HIDE DEF n, whole
  <2>6. <<CS_GOODBYE>> \o <<n, 0>> = <<CS_GOODBYE, n, 0>>
    BY <1>1, <2>2, ThreeWords
  <2>7. WordsArrive(whole, whole.buffer)
    BY <2>2, <2>5, WordsOfPacketArrive
  <2>8. WordsArrive(whole, <<CS_GOODBYE, n, 0>>)
    BY <2>5, <2>6, <2>7, Zenon
  <2> QED BY <2>1, <2>8 DEF n
<1> QED
  BY <1>2, <1>3, <1>4

-----------------------------------------------------------------------------
(* Texts that end at a null byte. *)

\* The part of a text before its first null byte.
LEMMA UpToNullFacts ==
    ASSUME NEW text \in Seq(Byte)
    PROVE  LET u == UpToNull(text)
           IN /\ u \in Seq(Byte \ {0}) /\ Len(u) <= Len(text)
              /\ \A j \in 1..Len(u) : u[j] = text[j]
              /\ \A n \in 0..Len(text) : (\A j \in 1..n : text[j] # 0) => n <= Len(u)
<1> DEFINE N == Len(text)
           Z == {j \in 1..N : text[j] = 0}
<1>1. N \in Nat /\ DOMAIN text = 1..N
  BY LenProperties
<1>2. CASE Z = {}
  <2>1. \A j \in 1..N : text[j] # 0
    BY <1>2
  <2>2. text \in Seq(Byte \ {0})
    <3>1. \A j \in 1..N : text[j] \in Byte \ {0}
      BY <2>1, ElementOfSeq
    <3>2. text \in [1..N -> Byte \ {0}]
      BY <3>1, <1>1, LenProperties
    <3> QED BY <3>2, <1>1, FunctionIsSequence
  <2>3. UpToNull(text) = text
    BY <2>2, NothingIsCut
  <2> QED BY <1>1, <2>2, <2>3
<1>3. CASE Z # {}
  <2> DEFINE P(j) == j \in DOMAIN text /\ text[j] = 0 /\ \A l \in 1..(j - 1) : text[l] # 0
             m == CHOOSE j \in DOMAIN text : text[j] = 0 /\ \A l \in 1..(j - 1) : text[l] # 0
  <2>1. PICK x \in Z : \A y \in Z : x <= y
    <3>1. Z \in SUBSET Nat
      BY <1>1
    <3> HIDE DEF Z
    <3> QED BY <1>3, <3>1, LeastNumber
  <2>2. \A l \in 1..(x - 1) : text[l] # 0
    <3> SUFFICES ASSUME NEW l \in 1..(x - 1), text[l] = 0 PROVE FALSE
      OBVIOUS
    <3>1. l \in Z /\ ~(x <= l)
      BY <1>1, <2>1
    <3> QED BY <2>1, <3>1
  <2>3. m \in 1..N /\ text[m] = 0 /\ \A l \in 1..(m - 1) : text[l] # 0
    BY <1>1, <2>1, <2>2
  <2>4. UpToNull(text) = SubSeq(text, 1, m - 1)
    <3>1. \E j \in DOMAIN text : text[j] = 0
      BY <1>1, <2>3
    <3> QED BY <3>1 DEF UpToNull
  <2> HIDE DEF m
  <2> DEFINE u == SubSeq(text, 1, m - 1)
  <2>5. /\ u \in Seq(Byte \ {0}) /\ Len(u) = m - 1
        /\ \A j \in 1..(m - 1) : u[j] = text[j]
    <3>1. \A i \in 1..(m - 1) : text[i] \in Byte \ {0}
      <4> SUFFICES ASSUME NEW i \in 1..(m - 1) PROVE text[i] \in Byte \ {0}
        OBVIOUS
      <4>1. i \in 1..N
        BY <1>1, <2>3
      <4> QED BY <2>3, <4>1, ElementOfSeq
    <3>2. 1 \in Int /\ m - 1 \in Int /\ m - 1 - 1 + 1 = m - 1
          /\ (IF 1 <= m - 1 THEN m - 1 - 1 + 1 ELSE 0) = m - 1
          /\ \A i \in 1..(m - 1) : 1 + i - 1 = i
      BY <2>3, <1>1
    <3>3. /\ u \in Seq(Byte \ {0})
          /\ Len(u) = IF 1 <= m - 1 THEN m - 1 - 1 + 1 ELSE 0
          /\ \A i \in 1..(m - 1 - 1 + 1) : u[i] = text[1 + i - 1]
      BY <3>1, <3>2, SubSeqProperties
    <3> HIDE DEF u
    <3> QED BY <3>2, <3>3
  <2> HIDE DEF u
  <2>6. \A n \in 0..N : (\A j \in 1..n : text[j] # 0) => n <= m - 1
    <3> SUFFICES ASSUME NEW n \in 0..N, \A j \in 1..n : text[j] # 0 PROVE n <= m - 1
      OBVIOUS
    <3>1. ~(m \in 1..n)
      BY <2>3
    <3> QED BY <2>3, <3>1, <1>1
  <2>7. UpToNull(text) = u
    BY <2>4 DEF u
  <2>8. m - 1 <= N
    BY <1>1, <2>3
  <2> QED BY <2>5, <2>6, <2>7, <2>8
<1> QED
  BY <1>2, <1>3

\* An obfuscated text comes back up to its first null byte.
LEMMA TextsComeBack ==
    ASSUME NEW text \in Seq(Byte)
    PROVE  TextComesBack(text)
<1> DEFINE h == obfuscate_string(text)
           u == UpToNull(h)
           N == Len(text)
           back == get_deobfuscated_string(h)
           s == SubSeq(text, 1, Len(u))
<1>1. N \in Nat /\ DOMAIN text = 1..N /\ \A j \in 1..N : text[j] \in Byte
  BY LenProperties, ElementOfSeq
<1>2. ASSUME NEW j \in 1..N
      PROVE  /\ h[j] = obfuscate(text[j], OperationAt(j - 1)) /\ h[j] \in Byte
             /\ deobfuscate(h[j], OperationAt(j - 1)) = text[j]
  <2>1. OperationAt(j - 1) \in Int
    BY DEF OperationAt, ConstByte
  <2>2. h[j] = obfuscate(text[j], OperationAt(j - 1))
    BY <1>1 DEF obfuscate_string
  <2> QED BY <1>1, <2>1, <2>2, ObfuscationIsUndone
<1>3. h \in Seq(Byte) /\ Len(h) = N
  <2>1. h \in [1..N -> Byte]
    <3>1. h = [j \in 1..N |-> obfuscate(text[j], OperationAt(j - 1))]
      BY <1>1 DEF obfuscate_string
    <3>2. \A j \in 1..N : obfuscate(text[j], OperationAt(j - 1)) \in Byte
      BY <1>2
    <3> QED BY <3>1, <3>2
  <2> HIDE DEF h
  <2> QED BY <1>1, <2>1, FunctionIsSequence
<1> HIDE DEF h
<1>4. u \in Seq(Byte \ {0}) /\ Len(u) <= N /\ \A j \in 1..Len(u) : u[j] = h[j]
  BY <1>3, UpToNullFacts
<1>5. back = [j \in DOMAIN u |-> deobfuscate(u[j], OperationAt(j - 1))]
  BY DEF get_deobfuscated_string
<1> HIDE DEF u
<1>6. Len(u) \in Nat /\ DOMAIN u = 1..Len(u)
  BY <1>4, LenProperties
<1>7. \A j \in 1..Len(u) : back[j] = text[j] /\ back[j] \in Byte
  <2> SUFFICES ASSUME NEW j \in 1..Len(u) PROVE back[j] = text[j] /\ back[j] \in Byte
    OBVIOUS
  <2>1. j \in 1..N
    BY <1>1, <1>4, <1>6
  <2>2. back[j] = deobfuscate(u[j], OperationAt(j - 1))
    BY <1>5, <1>6
  <2> QED BY <1>1, <1>2, <1>4, <2>1, <2>2
<1>8. back \in Seq(Byte) /\ Len(back) = Len(u)
  <2>1. back \in [1..Len(u) -> Byte]
    <3>1. back = [j \in 1..Len(u) |-> back[j]]
      BY <1>5, <1>6
    <3> HIDE DEF back
    <3> QED BY <1>7, <3>1
  <2> HIDE DEF back
  <2> QED BY <1>6, <2>1, FunctionIsSequence
<1>9. s \in Seq(Byte) /\ Len(s) = Len(u) /\ \A j \in 1..Len(u) : s[j] = text[j]
  <2> DEFINE n == Len(u)
  <2>1. n \in Nat /\ n <= N
    BY <1>4, <1>6
  <2> HIDE DEF n
  <2>2. \A i \in 1..n : text[i] \in Byte
    BY <1>1, <2>1
  <2>3. \A i \in 1..n : 1 + i - 1 = i
    BY <2>1
  <2>4. n - 1 + 1 = n /\ (IF 1 <= n THEN n - 1 + 1 ELSE 0) = n
    BY <2>1
  <2>5. 1 \in Int /\ n \in Int
    BY <2>1
  <2>6. /\ SubSeq(text, 1, n) \in Seq(Byte)
        /\ Len(SubSeq(text, 1, n)) = IF 1 <= n THEN n - 1 + 1 ELSE 0
        /\ \A i \in 1..(n - 1 + 1) : SubSeq(text, 1, n)[i] = text[1 + i - 1]
    BY <2>2, <2>5, SubSeqProperties
  <2>7. SubSeq(text, 1, n) = s
    BY DEF n
  <2> HIDE DEF s
  <2> QED BY <2>3, <2>4, <2>6, <2>7 DEF n
<1> HIDE DEF back, s
<1>10. back = s
  BY <1>7, <1>8, <1>9, SeqEqual
<1> QED
  BY <1>10 DEF TextComesBack, back, s, u, h

-----------------------------------------------------------------------------
(* The cookie of a heartbeat. *)

\* The length of two parts.
LEMMA TwoParts ==
    ASSUME NEW S, NEW x \in Seq(S), NEW y \in Seq(S)
    PROVE  x \o y \in Seq(S) /\ Len(x \o y) = Len(x) + Len(y)
BY ConcatProperties

\* A packet of one string: its opcode, the length of the string and the string.
LEMMA OneStringIsWritten ==
    ASSUME NEW S, Byte \subseteq S, NEW opcode \in S, NEW text \in Seq(Byte \ {0}), Len(text) \in S
    PROVE  LET whole == WriteString(Started(opcode), text)
           IN /\ whole \in Writers(S) /\ Len(whole.buffer) = 2 + Len(text)
              /\ \A j \in 1..Len(text) : whole.buffer[2 + j] = text[j]
<1> DEFINE w == Started(opcode)
           whole == WriteString(w, text)
           x == <<opcode>>
           y == <<Len(text)>>
           head == x \o y
<1>1. w \in Writers(S) /\ w.buffer = x
  BY StartedType
<1> HIDE DEF w
<1>2. whole \in Writers(S) /\ whole.buffer = WithString(w.buffer, text)
  BY <1>1, WriteStringAppends
<1> HIDE DEF whole
<1>3. whole.buffer = head \o text
  BY <1>1, <1>2 DEF WithString
<1>4. x \in Seq(S) /\ y \in Seq(S) /\ Len(x) = 1 /\ Len(y) = 1
  OBVIOUS
<1> HIDE DEF x, y
<1>5. head \in Seq(S) /\ Len(head) = 2
  <2>1. x \o y \in Seq(S) /\ Len(x \o y) = Len(x) + Len(y)
    BY <1>4, TwoParts
  <2> HIDE DEF head
  <2> QED BY <1>4, <2>1 DEF head
<1>6. text \in Seq(S) /\ Len(text) \in Nat
  BY SeqMonotonic, LenProperties
<1> HIDE DEF head
<1>7. /\ Len(head \o text) = Len(head) + Len(text)
      /\ \A i \in 1..(Len(head) + Len(text)) :
            (head \o text)[i] = IF i <= Len(head) THEN head[i] ELSE text[i - Len(head)]
  BY <1>5, <1>6, ConcatProperties
<1>8. \A j \in 1..Len(text) : 2 + j \in 1..(2 + Len(text)) /\ ~(2 + j <= 2) /\ 2 + j - 2 = j
  BY <1>6
<1> QED
  BY <1>2, <1>3, <1>5, <1>7, <1>8 DEF whole, w

\* The text of an answer without a null byte goes on with what lies behind it.
LEMMA AnswerIsWhole ==
    ASSUME NEW answer \in Seq(Byte), NEW behind \in Seq(Byte),
           \A j \in 1..Len(answer) : answer[j] # 0
    PROVE  LET u == UpToNull(answer \o behind)
           IN /\ u \in Seq(Byte \ {0}) /\ Len(u) \in Nat /\ Len(answer) <= Len(u)
              /\ \A j \in 1..Len(answer) : u[j] = answer[j]
<1> DEFINE n == Len(answer)
           all == answer \o behind
           u == UpToNull(all)
<1>1. n \in Nat /\ Len(behind) \in Nat
  BY LenProperties
<1>2. /\ all \in Seq(Byte)
      /\ Len(all) = Len(answer) + Len(behind)
      /\ \A i \in 1..(Len(answer) + Len(behind)) :
            all[i] = IF i <= Len(answer) THEN answer[i] ELSE behind[i - Len(answer)]
  BY ConcatProperties
<1> HIDE DEF all
<1>3. \A j \in 1..n : all[j] = answer[j]
  <2>1. \A j \in 1..n : j \in 1..(n + Len(behind)) /\ j <= n
    BY <1>1
  <2> QED BY <1>2, <2>1
<1>4. /\ u \in Seq(Byte \ {0}) /\ Len(u) <= Len(all)
      /\ \A j \in 1..Len(u) : u[j] = all[j]
      /\ \A m \in 0..Len(all) : (\A j \in 1..m : all[j] # 0) => m <= Len(u)
  BY <1>2, UpToNullFacts
<1> HIDE DEF u
<1>5. Len(u) \in Nat
  BY <1>4, LenProperties
<1>6. n <= Len(u)
  <2>1. n \in 0..Len(all)
    BY <1>1, <1>2
  <2>2. \A j \in 1..n : all[j] # 0
    BY <1>3
  <2> QED BY <1>4, <2>1, <2>2
<1>7. \A j \in 1..n : j \in 1..Len(u)
  BY <1>1, <1>5, <1>6
<1> QED
  BY <1>3, <1>4, <1>5, <1>6, <1>7 DEF u, all

\* An answer without a null byte arrives, whatever lies behind it.
LEMMA AnswerArrives ==
    ASSUME NEW answer \in Seq(Byte), NEW behind \in Seq(Byte),
           \A j \in 1..Len(answer) : answer[j] # 0, 2 + Len(answer) <= ReceiveBuffer
    PROVE  readString(Received(SendData(Heartbeat(answer, behind))), 2, Len(answer)) = answer
<1> DEFINE n == Len(answer)
           u == UpToNull(answer \o behind)
           whole == Heartbeat(answer, behind)
           B == Received(SendData(whole))
           S == Nat
<1>1. Byte \subseteq S /\ CS_HEARTBEAT \in S /\ Nat \subseteq S
  BY DEF Byte, CS_HEARTBEAT
<1> HIDE DEF S
<1>2. n \in Nat /\ ReceiveBuffer \in Nat
  BY LenProperties, WireAssumption
<1>3. /\ u \in Seq(Byte \ {0}) /\ Len(u) \in Nat /\ n <= Len(u)
      /\ \A j \in 1..n : u[j] = answer[j]
  BY AnswerIsWhole
<1>4. whole = WriteString(Started(CS_HEARTBEAT), u)
  BY DEF Heartbeat
<1> HIDE DEF u, whole
<1>5. /\ whole \in Writers(S) /\ Len(whole.buffer) = 2 + Len(u)
      /\ \A j \in 1..Len(u) : whole.buffer[2 + j] = u[j]
  <2>1. Len(u) \in S /\ u \in Seq(Byte \ {0})
    BY <1>1, <1>3
  <2> QED BY <1>1, <1>4, <2>1, OneStringIsWritten
<1>6. ASSUME NEW j \in 1..n PROVE B[2 + j] = answer[j]
  <2>1. 2 + j \in 1..Len(whole.buffer) /\ 2 + j <= ReceiveBuffer /\ j \in 1..Len(u)
    BY <1>2, <1>3, <1>5
  <2>2. whole.buffer[2 + j] = answer[j]
    BY <1>3, <1>5, <2>1
  <2>3. answer[j] \in Byte
    BY ElementOfSeq
  <2> QED BY <1>5, <2>1, <2>2, <2>3, ByteArrives DEF B
<1>7. Len(B) \in Nat /\ 2 + n <= Len(B) /\ 2 \in Nat
  BY <1>2, ReceivedLength
<1> HIDE DEF B
<1> QED
  BY <1>6, <1>7, TextIsRead DEF B, whole

\* What the client answers with has as many characters as the cookie, and none is null.
LEMMA AnswerType ==
    ASSUME NEW cookie \in [1..CookieSize -> Byte \ {24}]
    PROVE  LET answer == MakeHeartbeat(cookie)
           IN /\ answer \in Seq(Byte) /\ Len(answer) = CookieSize
              /\ \A j \in 1..CookieSize :
                    answer[j] \in Byte \ {0} /\ ExclusiveOr(answer[j], 24) = cookie[j]
<1> DEFINE n == CookieSize
           answer == MakeHeartbeat(cookie)
<1>1. ASSUME NEW j \in 1..n
      PROVE  answer[j] \in Byte \ {0} /\ ExclusiveOr(answer[j], 24) = cookie[j]
  <2>1. cookie[j] \in Byte /\ cookie[j] # 24 /\ DOMAIN cookie = 1..n
    OBVIOUS
  <2>2. 24 \in Byte
    BY DEF Byte
  <2>3. answer[j] = ExclusiveOr(cookie[j], 24)
    BY <2>1 DEF MakeHeartbeat
  <2> HIDE DEF answer
  <2> QED BY <2>1, <2>2, <2>3, XorFacts, XorIsNull
<1>2. answer = [j \in 1..n |-> answer[j]]
  BY DEF MakeHeartbeat
<1>3. n \in Nat
  BY WireAssumption
<1> HIDE DEF answer, n
<1>4. answer \in [1..n -> Byte]
  BY <1>1, <1>2
<1>5. answer \in Seq(Byte) /\ Len(answer) = n
  BY <1>3, <1>4, FunctionIsSequence
<1> QED
  BY <1>1, <1>5 DEF answer, n

\* The cookie of a heartbeat comes back, whatever lies behind the answer.
LEMMA CookieComesBack ==
    ASSUME NEW cookie \in [1..CookieSize -> Byte \ {24}], NEW behind \in Seq(Byte)
    PROVE  CookieArrives(cookie, behind)
<1> DEFINE n == CookieSize
           answer == MakeHeartbeat(cookie)
           B == Received(SendData(Heartbeat(answer, behind)))
<1>1. /\ answer \in Seq(Byte) /\ Len(answer) = n
      /\ \A j \in 1..n : answer[j] \in Byte \ {0} /\ ExclusiveOr(answer[j], 24) = cookie[j]
  BY AnswerType
<1>2. n \in Nat /\ 2 + n <= ReceiveBuffer
  BY WireAssumption
<1> HIDE DEF answer, n
<1>3. readString(B, 2, n) = answer
  <2>1. \A j \in 1..Len(answer) : answer[j] # 0
    BY <1>1
  <2>2. 2 + Len(answer) <= ReceiveBuffer
    BY <1>1, <1>2
  <2> QED BY <1>1, <2>1, <2>2, AnswerArrives
<1> HIDE DEF B
<1>4. answer # Exhausted
  <2> SUFFICES ASSUME answer = Exhausted PROVE FALSE
    OBVIOUS
  <2>1. Len(Exhausted) = 1 /\ Exhausted[1] = NoWord
    BY DEF Exhausted
  <2>2. n = 1 /\ answer[1] = NoWord
    BY <1>1, <2>1
  <2>3. answer[1] \in Byte
    BY <1>1, <2>2
  <2> QED BY <2>2, <2>3 DEF NoWord, Byte
<1>5. CookieOf(B) = [j \in DOMAIN answer |-> ExclusiveOr(answer[j], 24)]
  BY <1>3, <1>4 DEF CookieOf, n
<1>6. DOMAIN answer = 1..n
  BY <1>1, LenProperties
<1>7. CookieOf(B) = [j \in 1..n |-> cookie[j]]
  BY <1>1, <1>5, <1>6
<1>8. cookie = [j \in 1..n |-> cookie[j]]
  BY DEF n
<1> QED
  BY <1>7, <1>8 DEF CookieArrives, B, answer

-----------------------------------------------------------------------------
(* The samples of the ciphers and the packets. *)

\* A number of the client comes back for every number its key draws.
LEMMA DataComesBackAlways ==
    ASSUME NEW b \in Byte, NEW added \in Int
    PROVE  DataComesBack(b, added)
BY ObfuscationIsUndone DEF DataComesBack, ObfuscatedData

\* Every sample comes back.
LEMMA SamplesComeBack ==
    ASSUME IsSample(sample)
    PROVE  CiphersAreUndone
<1>1. CASE sample \in ByteSample
  <2>1. sample.kind = "byte" /\ sample.b \in Byte /\ sample.i \in Nat
    BY <1>1 DEF ByteSample
  <2>2. Undone(sample.b, sample.i)
    BY <2>1, CipherIsUndone
  <2> QED BY <2>1, <2>2 DEF CiphersAreUndone
<1>2. CASE sample \in DataSample
  <2>1. sample.kind = "data" /\ sample.value \in Byte /\ sample.added \in Int
    BY <1>2 DEF DataSample
  <2>2. DataComesBack(sample.value, sample.added)
    BY <2>1, DataComesBackAlways
  <2> QED BY <2>1, <2>2 DEF CiphersAreUndone
<1>3. CASE sample \in CharSample
  <2>1. sample.kind = "char" /\ sample.c \in 0..127 /\ sample.i \in Nat
    BY <1>3 DEF CharSample
  <2>2. WideComesBack(sample.c, sample.i) /\ CharComesBack(sample.c, sample.i)
    BY <2>1, CharsComeBack
  <2> QED BY <2>1, <2>2 DEF CiphersAreUndone
<1>4. CASE sample \in TextSample
  <2>1. sample.kind = "text" /\ sample.text \in Seq(Byte)
    BY <1>4 DEF TextSample
  <2>2. TextComesBack(sample.text)
    BY <2>1, TextsComeBack
  <2> QED BY <2>1, <2>2 DEF CiphersAreUndone
<1>5. CASE sample \in CodeSample
  <2> DEFINE k == KeyByte(sample.seed, sample.i)
  <2>1. /\ sample.kind = "code" /\ sample.c \in GameCodeBytes
        /\ sample.seed \in Nat /\ sample.i \in Nat
    BY <1>5 DEF CodeSample
  <2>2. k \in Byte
    BY <2>1, KeyByteType
  <2>3. ~IsSigned(Mixed(sample.c, k, sample.i)) => CodeArrives(sample.c, k, sample.i)
    <3> HIDE DEF k
    <3> QED BY <2>1, <2>2, CodeComesBack
  <2> QED BY <2>1, <2>3 DEF CiphersAreUndone
<1>6. CASE sample \in HelloSample
  <2>1. sample.kind = "hello"
    BY <1>6 DEF HelloSample
  <2>2. StringsArrive(ClientHello(sample.fields), sample.fields)
    BY <1>6, StringsOfPacketsArrive
  <2> QED BY <2>1, <2>2 DEF CiphersAreUndone
<1>7. CASE sample \in HashSample
  <2>1. sample.kind = "hashes"
    BY <1>7 DEF HashSample
  <2>2. StringsArrive(ClientHashCheck(sample.fields), sample.fields)
    BY <1>7, StringsOfPacketsArrive
  <2> QED BY <2>1, <2>2 DEF CiphersAreUndone
<1>8. CASE sample \in InfoSample
  <2>1. sample.kind = "info"
    BY <1>8 DEF InfoSample
  <2>2. StringsArrive(ClientInfoPeriodic(sample.fields), sample.fields)
    BY <1>8, StringsOfPacketsArrive
  <2> QED BY <2>1, <2>2 DEF CiphersAreUndone
<1>9. CASE sample \in CookieSample
  <2>1. /\ sample.kind = "cookie" /\ sample.cookie \in [1..CookieSize -> Byte \ {24}]
        /\ sample.behind \in Seq(Byte)
    BY <1>9 DEF CookieSample
  <2>2. CookieArrives(sample.cookie, sample.behind)
    BY <2>1, CookieComesBack
  <2> QED BY <2>1, <2>2 DEF CiphersAreUndone
<1>10. CASE sample \in FlaggedSample
  <2>1. sample.kind = "flagged"
    BY <1>10 DEF FlaggedSample
  <2>2. WordsArrive(DetectedCheater(sample.n, sample.bytes, 7),
                    <<CS_FLAGGED_CHEATER, sample.n, 0, 7, 0, Len(sample.bytes)>> \o sample.bytes)
    BY <1>10, WordsOfPacketsArrive
  <2> QED BY <2>1, <2>2 DEF CiphersAreUndone
<1>11. CASE sample \in MemorySample
  <2>1. sample.kind = "memory"
    BY <1>11 DEF MemorySample
  <2>2. WordsArrive(QueryMemory(sample.bytes),
                    <<CS_QUERY_MEMORY, Len(sample.bytes)>> \o sample.bytes)
    BY <1>11, WordsOfPacketsArrive
  <2> QED BY <2>1, <2>2 DEF CiphersAreUndone
<1>12. CASE sample \in GoodbyeSample
  <2>1. sample.kind = "goodbye"
    BY <1>12 DEF GoodbyeSample
  <2>2. WordsArrive(ClientGoodbye(sample.n), <<CS_GOODBYE, sample.n, 0>>)
    BY <1>12, WordsOfPacketsArrive
  <2> QED BY <2>1, <2>2 DEF CiphersAreUndone
<1>13. CASE \/ sample \in OperationSample \/ sample \in MovesSample \/ sample \in CallSample
            \/ sample \in ChecksSample
  <2>1. sample.kind \in {"operation", "moves", "call", "checks"}
    BY <1>13 DEF OperationSample, MovesSample, CallSample, ChecksSample
  <2> QED BY <2>1 DEF CiphersAreUndone
<1> QED
  BY <1>1, <1>2, <1>3, <1>4, <1>5, <1>6, <1>7, <1>8, <1>9, <1>10, <1>11, <1>12, <1>13
     DEF IsSample

(* What one end writes the other reads, for every byte and position, every number, every   *)
(* text, every packet whose words fit in the buffer of the reader, however small the       *)
(* buffer of the writer was at first, every cookie, and every game code whose bytes stay   *)
(* characters on the way (NetClient.cpp:500, Server.cs:449, PacketWriter.hpp:118,          *)
(* Handlers.cs:63).                                                                        *)
THEOREM WhatIsWrittenIsRead == SampleSpec => []CiphersAreUndone
<1>1. IsSample(sample) => CiphersAreUndone
  BY SamplesComeBack
<1>2. IsSample(sample) /\ [UNCHANGED sample]_sample => IsSample(sample)'
  BY DEF IsSample
<1> QED
  BY <1>1, <1>2, PTL DEF SampleSpec

-----------------------------------------------------------------------------
(* The virtual machine: one turn of the loop for each opcode. *)

\* The recursive function of the loop of the machine is defined by its equation.
LEMMA TurnsAreDefined ==
    ASSUME NEW vm, NEW code, NEW rax, Len(code) \in Nat
    PROVE  Turns(vm, code, rax) =
               [n \in 0..Len(code) |->
                   IF n = 0 THEN vm
                   ELSE LET m == Turns(vm, code, rax)[n - 1]
                        IN IF m.status = "run" THEN Step(m, code, rax) ELSE m]
<1> DEFINE More(m) == IF m.status = "run" THEN Step(m, code, rax) ELSE m
           P(h, k) == h = [n \in 0..k |-> IF n = 0 THEN vm ELSE More(h[n - 1])]
           T == {k \in Nat : \E h : P(h, k)}
           N == Len(code)
<1>1. Turns(vm, code, rax) = CHOOSE h : P(h, N)
  BY DEF Turns
<1>2. P(Turns(vm, code, rax), N) =>
          Turns(vm, code, rax) =
               [n \in 0..Len(code) |->
                   IF n = 0 THEN vm
                   ELSE LET m == Turns(vm, code, rax)[n - 1]
                        IN IF m.status = "run" THEN Step(m, code, rax) ELSE m]
  OBVIOUS
<1> HIDE DEF More
<1>3. 0 \in T
  <2> DEFINE h == [n \in 0..0 |-> vm]
  <2>1. P(h, 0)
    OBVIOUS
  <2>2. \E g : P(g, 0)
    BY <2>1
  <2> QED BY <2>2
<1>4. ASSUME NEW k \in T \cap Nat PROVE k + 1 \in T
  <2>1. PICK h : P(h, k)
    OBVIOUS
  <2> DEFINE g == [n \in 0..(k + 1) |-> IF n = k + 1 THEN More(h[k]) ELSE h[n]]
  <2>2. ASSUME NEW n \in 0..(k + 1)
        PROVE  g[n] = IF n = 0 THEN vm ELSE More(g[n - 1])
    <3>1. CASE n = k + 1
      <4>1. n # 0 /\ n - 1 = k /\ k \in 0..(k + 1) /\ k # k + 1
        BY <3>1
      <4> QED BY <3>1, <4>1
    <3>2. CASE n # k + 1
      <4>1. n \in 0..k /\ (n # 0 => n - 1 \in 0..(k + 1) /\ n - 1 # k + 1)
        BY <3>2
      <4>2. h[n] = IF n = 0 THEN vm ELSE More(h[n - 1])
        BY <4>1, <2>1
      <4> QED BY <3>2, <4>1, <4>2
    <3> QED BY <3>1, <3>2
  <2>3. P(g, k + 1)
    <3>1. g = [n \in 0..(k + 1) |-> g[n]]
      OBVIOUS
    <3> HIDE DEF g
    <3> QED BY <3>1, <2>2
  <2>4. k + 1 \in Nat
    OBVIOUS
  <2> HIDE DEF P, g
  <2> QED BY <2>3, <2>4
<1>5. N \in T
  <2> HIDE DEF T
  <2> QED BY <1>3, <1>4, SetInduction
<1>6. P(Turns(vm, code, rax), N)
  <2>1. \E h : P(h, N)
    BY <1>5
  <2> HIDE DEF P
  <2> QED BY <2>1, <1>1
<1> QED
  BY <1>6, <1>2

\* A turn is a step of a machine that runs, and one that has stopped stays as it is.
LEMMA TurnByTurn ==
    ASSUME NEW vm, NEW code, NEW rax, Len(code) \in Nat
    PROVE  LET f == Turns(vm, code, rax)
           IN /\ f[0] = vm
              /\ \A n \in 0..(Len(code) - 1) : f[n].status = "run" => f[n + 1] = Step(f[n], code, rax)
              /\ \A n \in 0..Len(code) : f[n].status # "run" => f[Len(code)] = f[n]
<1> DEFINE f == Turns(vm, code, rax)
           N == Len(code)
<1>1. f = [n \in 0..N |->
               IF n = 0 THEN vm
               ELSE LET m == f[n - 1]
                    IN IF m.status = "run" THEN Step(m, code, rax) ELSE m]
  BY TurnsAreDefined
<1> HIDE DEF f
<1>2. f[0] = vm
  <2>1. 0 \in 0..N
    OBVIOUS
  <2> QED BY <1>1, <2>1, Zenon
<1>3. ASSUME NEW n \in 0..(N - 1)
      PROVE  f[n + 1] = IF f[n].status = "run" THEN Step(f[n], code, rax) ELSE f[n]
  <2>1. n + 1 \in 0..N /\ n + 1 # 0 /\ (n + 1) - 1 = n
    OBVIOUS
  <2>2. f[n + 1] = LET m == f[(n + 1) - 1]
                   IN IF m.status = "run" THEN Step(m, code, rax) ELSE m
    BY <1>1, <2>1, Zenon
  <2> QED BY <2>1, <2>2
<1>4. ASSUME NEW n \in 0..N, f[n].status # "run"
      PROVE  f[N] = f[n]
  <2> DEFINE T == {d \in Nat : n + d > N \/ f[n + d] = f[n]}
  <2>1. 0 \in T
    OBVIOUS
  <2>2. ASSUME NEW d \in T \cap Nat PROVE d + 1 \in T
    <3>1. CASE n + (d + 1) > N
      BY <3>1
    <3>2. CASE ~(n + (d + 1) > N)
      <4>1. n + d \in 0..(N - 1) /\ n + (d + 1) = (n + d) + 1 /\ ~(n + d > N) /\ d + 1 \in Nat
        BY <3>2
      <4>2. f[n + d] = f[n]
        BY <4>1
      <4>3. f[(n + d) + 1] = f[n + d]
        BY <1>3, <1>4, <4>1, <4>2
      <4>4. f[n + (d + 1)] = f[n]
        BY <4>1, <4>2, <4>3
      <4> QED BY <4>1, <4>4
    <3> QED BY <3>1, <3>2
  <2>3. N - n \in T
    <3> HIDE DEF T
    <3>1. N - n \in Nat
      OBVIOUS
    <3> QED BY <2>1, <2>2, <3>1, SetInduction
  <2>4. n + (N - n) = N /\ ~(n + (N - n) > N)
    OBVIOUS
  <2> QED BY <2>3, <2>4
<1> QED
  BY <1>2, <1>3, <1>4 DEF f

\* An operand that was obfuscated as a word comes back.
LEMMA KeysFit ==
    ASSUME NEW w \in Word
    PROVE  OBFUSCATE(w) \in Word /\ OBFUSCATE(OBFUSCATE(w)) = w
<1>1. XorKey \in Word
  BY VirtualMachineAssumption
<1> QED
  BY <1>1, XorOfWords DEF OBFUSCATE

\* The opcode at each place of the table is decoded.
LEMMA OpcodesAreDecoded ==
    ASSUME NEW k \in 1..28
    PROVE  Decoded(Encoded(VM_Opcode[k])) = VM_Opcode[k]
<1> DEFINE O == VM_Opcode
           name == VM_Opcode[k]
           n == CHOOSE m \in DOMAIN VM_Opcode : VM_Opcode[m] = name
<1>1. DOMAIN O = 1..28
  BY DEF VM_Opcode
<1>2. n \in 1..28 /\ O[n] = name
  <2> HIDE DEF O
  <2>1. \E m \in DOMAIN VM_Opcode : VM_Opcode[m] = name
    BY <1>1 DEF O
  <2> QED BY <1>1, <2>1 DEF O
<1>3. Encoded(name) = OBFUSCATE(n - 1)
  BY DEF Encoded
<1> HIDE DEF n, name
<1>4. n - 1 \in Word
  BY <1>2, WordAssumption DEF Word
<1>5. OBFUSCATE(Encoded(name)) = n - 1
  BY <1>3, <1>4, KeysFit
<1>6. (n - 1) + 1 = n /\ n \in DOMAIN VM_Opcode
  BY <1>1, <1>2
<1>7. Decoded(Encoded(name)) = VM_Opcode[n]
  BY <1>5, <1>6 DEF Decoded
<1> QED
  BY <1>2, <1>7 DEF name

\* The opcodes that programs use are in the table.
LEMMA NamesAreDecoded ==
    \A name \in {"PUSH", "ADD", "SUB", "MUL", "DIV", "FL_ADD", "FL_SUB", "FL_MUL", "FL_DIV",
                 "MOV_REGISTER_TO_REGISTER", "MOV_IMMEDIATE_TO_REGISTER", "GET_TOP_STACK", "CALL",
                 "JMP_OFFSET", "CMP", "NOP", "END_FUNC"} :
        Decoded(Encoded(name)) = name
<1>1. /\ VM_Opcode[1] = "PUSH" /\ VM_Opcode[3] = "ADD" /\ VM_Opcode[4] = "SUB" /\ VM_Opcode[5] = "MUL"
      /\ VM_Opcode[6] = "DIV" /\ VM_Opcode[7] = "FL_ADD" /\ VM_Opcode[8] = "FL_SUB"
      /\ VM_Opcode[9] = "FL_MUL" /\ VM_Opcode[10] = "FL_DIV"
      /\ VM_Opcode[12] = "MOV_REGISTER_TO_REGISTER" /\ VM_Opcode[13] = "MOV_IMMEDIATE_TO_REGISTER"
      /\ VM_Opcode[14] = "GET_TOP_STACK" /\ VM_Opcode[15] = "CALL" /\ VM_Opcode[22] = "JMP_OFFSET"
      /\ VM_Opcode[24] = "CMP" /\ VM_Opcode[27] = "NOP" /\ VM_Opcode[28] = "END_FUNC"
  BY DEF VM_Opcode
<1>2. /\ 1 \in 1..28 /\ 3 \in 1..28 /\ 4 \in 1..28 /\ 5 \in 1..28 /\ 6 \in 1..28 /\ 7 \in 1..28
      /\ 8 \in 1..28 /\ 9 \in 1..28 /\ 10 \in 1..28 /\ 12 \in 1..28 /\ 13 \in 1..28 /\ 14 \in 1..28
      /\ 15 \in 1..28 /\ 22 \in 1..28 /\ 24 \in 1..28 /\ 27 \in 1..28 /\ 28 \in 1..28
  OBVIOUS
<1> QED
  BY <1>1, <1>2, OpcodesAreDecoded

VmFields ==
    {"ip", "sp", "stack", "registers", "flag", "written", "calls", "retVal", "status"}


\* What a machine that meets no boundary does in a turn.
LEMMA StepIsEffect ==
    ASSUME NEW vm, NEW code, NEW rax, NEW name, vm.ip \in Nat,
           Decoded(code[vm.ip + 1]) = name, ~IsWild(vm, code, name)
    PROVE  Step(vm, code, rax) =
               Effect(vm, [vm EXCEPT !.ip = vm.ip + 1 + Operands(name)], name,
                      code[vm.ip + 2], code[vm.ip + 3], rax)
<1>1. Operand(vm, code, 1) = code[vm.ip + 2] /\ Operand(vm, code, 2) = code[vm.ip + 3]
  <2>1. vm.ip + 1 + 1 = vm.ip + 2 /\ vm.ip + 1 + 2 = vm.ip + 3
    OBVIOUS
  <2> QED BY <2>1, Zenon DEF Operand
<1>2. [vm EXCEPT !.ip = @ + 1 + Operands(name)] = [vm EXCEPT !.ip = vm.ip + 1 + Operands(name)]
  BY Zenon
<1> QED
  BY <1>1, <1>2, Zenon DEF Step

\* When a turn pushes a number, and what it leaves.
CanPush(vm, code) ==
    /\ DOMAIN vm = VmFields /\ Len(code) \in Nat /\ vm.ip \in Nat /\ vm.sp \in Nat
    /\ vm.ip + 2 <= Len(code)
    /\ Decoded(code[vm.ip + 1]) = "PUSH"
    /\ vm.sp \in DOMAIN vm.stack
Pushes(vm, code, rax) ==
    LET r == Step(vm, code, rax)
    IN /\ DOMAIN r = VmFields /\ r.ip = vm.ip + 2 /\ r.sp = vm.sp + 1
       /\ r.stack = [vm.stack EXCEPT ![vm.sp] = code[vm.ip + 2]]
       /\ r.registers = vm.registers /\ r.flag = vm.flag /\ r.written = vm.written
       /\ r.calls = vm.calls /\ r.retVal = vm.retVal /\ r.status = vm.status

\* A turn at a push pushes.
LEMMA PushStep ==
    ASSUME NEW vm, NEW code, NEW rax, CanPush(vm, code)
    PROVE  Pushes(vm, code, rax)
<1> USE DEF CanPush, Pushes
<1> DEFINE next == [vm EXCEPT !.ip = vm.ip + 2]
           first == code[vm.ip + 2]
           second == code[vm.ip + 3]
<1>1. Operands("PUSH") = 1 /\ Popped("PUSH") = 0
  BY DEF Operands, Popped
<1>2. vm.ip + 1 + 1 = vm.ip + 2
  OBVIOUS
<1>3. ~IsWild(vm, code, "PUSH")
  BY <1>1, <1>2 DEF IsWild
<1>4. [vm EXCEPT !.ip = vm.ip + 1 + Operands("PUSH")] = next
  BY <1>1, <1>2
<1>5. Step(vm, code, rax) = Effect(vm, next, "PUSH", first, second, rax)
  BY <1>3, <1>4, StepIsEffect
<1> HIDE DEF next
<1>6. Effect(vm, next, "PUSH", first, second, rax) = [next EXCEPT !.stack[vm.sp] = first, !.sp = @ + 1]
  BY <1>1 DEF Effect, Unimplemented
<1>7. /\ DOMAIN next = VmFields
      /\ next.ip = vm.ip + 2 /\ next.sp = vm.sp /\ next.stack = vm.stack
      /\ next.registers = vm.registers /\ next.flag = vm.flag /\ next.written = vm.written
      /\ next.calls = vm.calls /\ next.retVal = vm.retVal /\ next.status = vm.status
  BY DEF next, VmFields
<1> DEFINE r == [next EXCEPT !.stack[vm.sp] = first, !.sp = @ + 1]
<1>8. /\ DOMAIN r = VmFields /\ r.ip = next.ip /\ r.sp = next.sp + 1
      /\ r.stack = [next.stack EXCEPT ![vm.sp] = first]
      /\ r.registers = next.registers /\ r.flag = next.flag /\ r.written = next.written
      /\ r.calls = next.calls /\ r.retVal = next.retVal /\ r.status = next.status
  BY <1>7 DEF VmFields
<1>9. Step(vm, code, rax) = r
  BY <1>5, <1>6
<1> HIDE DEF r
<1> QED
  BY <1>7, <1>8, <1>9

\* A turn that moves a number to a register.
LEMMA ImmediateStep ==
    ASSUME NEW vm, DOMAIN vm = VmFields, NEW code, NEW rax, Len(code) \in Nat,
           vm.ip \in Nat, vm.sp \in Nat, vm.ip + 3 <= Len(code),
           Decoded(code[vm.ip + 1]) = "MOV_IMMEDIATE_TO_REGISTER",
           code[vm.ip + 2] < MAX_REGISTERS
    PROVE  LET r == Step(vm, code, rax)
           IN /\ DOMAIN r = VmFields /\ r.ip = vm.ip + 3 /\ r.sp = vm.sp
              /\ r.stack = vm.stack
              /\ r.flag = vm.flag /\ r.written = vm.written /\ r.calls = vm.calls
              /\ r.retVal = vm.retVal /\ r.status = vm.status
<1> DEFINE next == [vm EXCEPT !.ip = vm.ip + 3]
           first == code[vm.ip + 2]
           second == code[vm.ip + 3]
<1>1. Operands("MOV_IMMEDIATE_TO_REGISTER") = 2 /\ Popped("MOV_IMMEDIATE_TO_REGISTER") = 0
  BY DEF Operands, Popped
<1>2. vm.ip + 1 + 2 = vm.ip + 3
  OBVIOUS
<1>3. ~IsWild(vm, code, "MOV_IMMEDIATE_TO_REGISTER")
  BY <1>1, <1>2 DEF IsWild
<1>4. [vm EXCEPT !.ip = vm.ip + 1 + Operands("MOV_IMMEDIATE_TO_REGISTER")] = next
  BY <1>1, <1>2
<1>5. Step(vm, code, rax) = Effect(vm, next, "MOV_IMMEDIATE_TO_REGISTER", first, second, rax)
  BY <1>3, <1>4, StepIsEffect
<1> HIDE DEF next
<1>6. Effect(vm, next, "MOV_IMMEDIATE_TO_REGISTER", first, second, rax) =
          [next EXCEPT !.registers[first] = second]
  BY <1>1 DEF Effect, Unimplemented
<1>7. /\ DOMAIN next = VmFields
      /\ next.ip = vm.ip + 3 /\ next.sp = vm.sp /\ next.stack = vm.stack
      /\ next.registers = vm.registers /\ next.flag = vm.flag /\ next.written = vm.written
      /\ next.calls = vm.calls /\ next.retVal = vm.retVal /\ next.status = vm.status
  BY DEF next, VmFields
<1> QED
  BY <1>5, <1>6, <1>7 DEF VmFields

\* A turn that moves a register to another.
LEMMA RegisterStep ==
    ASSUME NEW vm, DOMAIN vm = VmFields, NEW code, NEW rax, Len(code) \in Nat,
           vm.ip \in Nat, vm.sp \in Nat, vm.ip + 3 <= Len(code),
           Decoded(code[vm.ip + 1]) = "MOV_REGISTER_TO_REGISTER",
           code[vm.ip + 2] < MAX_REGISTERS, code[vm.ip + 3] < MAX_REGISTERS
    PROVE  LET r == Step(vm, code, rax)
           IN /\ DOMAIN r = VmFields /\ r.ip = vm.ip + 3 /\ r.sp = vm.sp
              /\ r.stack = vm.stack
              /\ r.flag = vm.flag /\ r.written = vm.written /\ r.calls = vm.calls
              /\ r.retVal = vm.retVal /\ r.status = vm.status
<1> DEFINE next == [vm EXCEPT !.ip = vm.ip + 3]
           first == code[vm.ip + 2]
           second == code[vm.ip + 3]
<1>1. Operands("MOV_REGISTER_TO_REGISTER") = 2 /\ Popped("MOV_REGISTER_TO_REGISTER") = 0
  BY DEF Operands, Popped
<1>2. vm.ip + 1 + 2 = vm.ip + 3
  OBVIOUS
<1>3. ~IsWild(vm, code, "MOV_REGISTER_TO_REGISTER")
  BY <1>1, <1>2 DEF IsWild
<1>4. [vm EXCEPT !.ip = vm.ip + 1 + Operands("MOV_REGISTER_TO_REGISTER")] = next
  BY <1>1, <1>2
<1>5. Step(vm, code, rax) = Effect(vm, next, "MOV_REGISTER_TO_REGISTER", first, second, rax)
  BY <1>3, <1>4, StepIsEffect
<1> HIDE DEF next
<1>6. Effect(vm, next, "MOV_REGISTER_TO_REGISTER", first, second, rax) =
          [next EXCEPT !.registers[first] = vm.registers[second]]
  BY <1>1 DEF Effect, Unimplemented
<1>7. /\ DOMAIN next = VmFields
      /\ next.ip = vm.ip + 3 /\ next.sp = vm.sp /\ next.stack = vm.stack
      /\ next.registers = vm.registers /\ next.flag = vm.flag /\ next.written = vm.written
      /\ next.calls = vm.calls /\ next.retVal = vm.retVal /\ next.status = vm.status
  BY DEF next, VmFields
<1> QED
  BY <1>5, <1>6, <1>7 DEF VmFields

\* When a turn stores the top of the stack, and what it leaves.
CanStore(vm, code) ==
    /\ DOMAIN vm = VmFields /\ Len(code) \in Nat /\ vm.ip \in Nat /\ vm.sp \in Nat
    /\ vm.ip + 2 <= Len(code)
    /\ Decoded(code[vm.ip + 1]) = "GET_TOP_STACK"
    /\ vm.sp \in DOMAIN vm.stack
Stores(vm, code, rax) ==
    LET r == Step(vm, code, rax)
    IN /\ DOMAIN r = VmFields /\ r.ip = vm.ip + 2 /\ r.sp = vm.sp
       /\ r.stack = vm.stack /\ r.registers = vm.registers /\ r.flag = vm.flag
       /\ r.written = vm.stack[vm.sp] /\ r.calls = vm.calls /\ r.retVal = vm.retVal
       /\ r.status = vm.status

\* A turn at a store stores.
LEMMA StoreStep ==
    ASSUME NEW vm, NEW code, NEW rax, CanStore(vm, code)
    PROVE  Stores(vm, code, rax)
<1> USE DEF CanStore, Stores
<1> DEFINE next == [vm EXCEPT !.ip = vm.ip + 2]
           first == code[vm.ip + 2]
           second == code[vm.ip + 3]
<1>1. Operands("GET_TOP_STACK") = 1 /\ Popped("GET_TOP_STACK") = 0
  BY DEF Operands, Popped
<1>2. vm.ip + 1 + 1 = vm.ip + 2
  OBVIOUS
<1>3. ~IsWild(vm, code, "GET_TOP_STACK")
  BY <1>1, <1>2 DEF IsWild
<1>4. [vm EXCEPT !.ip = vm.ip + 1 + Operands("GET_TOP_STACK")] = next
  BY <1>1, <1>2
<1>5. Step(vm, code, rax) = Effect(vm, next, "GET_TOP_STACK", first, second, rax)
  BY <1>3, <1>4, StepIsEffect
<1> HIDE DEF next
<1>6. Effect(vm, next, "GET_TOP_STACK", first, second, rax) = [next EXCEPT !.written = vm.stack[vm.sp]]
  BY <1>1 DEF Effect, Unimplemented
<1>7. /\ DOMAIN next = VmFields
      /\ next.ip = vm.ip + 2 /\ next.sp = vm.sp /\ next.stack = vm.stack
      /\ next.registers = vm.registers /\ next.flag = vm.flag /\ next.written = vm.written
      /\ next.calls = vm.calls /\ next.retVal = vm.retVal /\ next.status = vm.status
  BY DEF next, VmFields
<1> QED
  BY <1>5, <1>6, <1>7 DEF VmFields

\* A turn that jumps.
LEMMA JumpStep ==
    ASSUME NEW vm, DOMAIN vm = VmFields, NEW code, NEW rax, Len(code) \in Nat,
           vm.ip \in Nat, vm.sp \in Nat, vm.ip + 2 <= Len(code),
           Decoded(code[vm.ip + 1]) = "JMP_OFFSET",
           code[vm.ip + 2] \in Nat
    PROVE  LET r == Step(vm, code, rax)
           IN /\ DOMAIN r = VmFields /\ r.ip = vm.ip + 2 + code[vm.ip + 2] /\ r.sp = vm.sp
              /\ r.stack = vm.stack /\ r.registers = vm.registers /\ r.flag = vm.flag
              /\ r.written = vm.written /\ r.calls = vm.calls /\ r.retVal = vm.retVal
              /\ r.status = vm.status
<1> DEFINE next == [vm EXCEPT !.ip = vm.ip + 2]
           first == code[vm.ip + 2]
           second == code[vm.ip + 3]
<1>1. Operands("JMP_OFFSET") = 1 /\ Popped("JMP_OFFSET") = 0
  BY DEF Operands, Popped
<1>2. vm.ip + 1 + 1 = vm.ip + 2
  OBVIOUS
<1>3. ~IsWild(vm, code, "JMP_OFFSET")
  BY <1>1, <1>2 DEF IsWild
<1>4. [vm EXCEPT !.ip = vm.ip + 1 + Operands("JMP_OFFSET")] = next
  BY <1>1, <1>2
<1>5. Step(vm, code, rax) = Effect(vm, next, "JMP_OFFSET", first, second, rax)
  BY <1>3, <1>4, StepIsEffect
<1> HIDE DEF next
<1>6. Effect(vm, next, "JMP_OFFSET", first, second, rax) = [next EXCEPT !.ip = @ + first]
  BY <1>1 DEF Effect, Unimplemented
<1>7. /\ DOMAIN next = VmFields
      /\ next.ip = vm.ip + 2 /\ next.sp = vm.sp /\ next.stack = vm.stack
      /\ next.registers = vm.registers /\ next.flag = vm.flag /\ next.written = vm.written
      /\ next.calls = vm.calls /\ next.retVal = vm.retVal /\ next.status = vm.status
  BY DEF next, VmFields
<1> QED
  BY <1>5, <1>6, <1>7 DEF VmFields

\* The turn that ends the program.
LEMMA EndStep ==
    ASSUME NEW vm, DOMAIN vm = VmFields, NEW code, NEW rax, Len(code) \in Nat,
           vm.ip \in Nat, vm.sp \in Nat, vm.ip + 1 <= Len(code),
           Decoded(code[vm.ip + 1]) = "END_FUNC"
    PROVE  LET r == Step(vm, code, rax)
           IN /\ DOMAIN r = VmFields /\ r.ip = vm.ip + 1 /\ r.sp = vm.sp
              /\ r.stack = vm.stack /\ r.registers = vm.registers /\ r.flag = vm.flag
              /\ r.written = vm.written /\ r.calls = vm.calls /\ r.retVal = vm.retVal
              /\ r.status = "over"
<1> DEFINE next == [vm EXCEPT !.ip = vm.ip + 1]
           first == code[vm.ip + 2]
           second == code[vm.ip + 3]
<1>1. Operands("END_FUNC") = 0 /\ Popped("END_FUNC") = 0
  BY DEF Operands, Popped
<1>2. vm.ip + 1 + 0 = vm.ip + 1
  OBVIOUS
<1>3. ~IsWild(vm, code, "END_FUNC")
  BY <1>1, <1>2 DEF IsWild
<1>4. [vm EXCEPT !.ip = vm.ip + 1 + Operands("END_FUNC")] = next
  BY <1>1, <1>2
<1>5. Step(vm, code, rax) = Effect(vm, next, "END_FUNC", first, second, rax)
  BY <1>3, <1>4, StepIsEffect
<1> HIDE DEF next
<1>6. Effect(vm, next, "END_FUNC", first, second, rax) = [next EXCEPT !.status = "over"]
  BY <1>1 DEF Effect, Unimplemented
<1>7. /\ DOMAIN next = VmFields
      /\ next.ip = vm.ip + 1 /\ next.sp = vm.sp /\ next.stack = vm.stack
      /\ next.registers = vm.registers /\ next.flag = vm.flag /\ next.written = vm.written
      /\ next.calls = vm.calls /\ next.retVal = vm.retVal /\ next.status = vm.status
  BY DEF next, VmFields
<1> QED
  BY <1>5, <1>6, <1>7 DEF VmFields

\* A turn that does nothing.
LEMMA NopStep ==
    ASSUME NEW vm, DOMAIN vm = VmFields, NEW code, NEW rax, Len(code) \in Nat,
           vm.ip \in Nat, vm.sp \in Nat, vm.ip + 1 <= Len(code),
           Decoded(code[vm.ip + 1]) = "NOP"
    PROVE  LET r == Step(vm, code, rax)
           IN /\ DOMAIN r = VmFields /\ r.ip = vm.ip + 1 /\ r.sp = vm.sp
              /\ r.stack = vm.stack /\ r.registers = vm.registers /\ r.flag = vm.flag
              /\ r.written = vm.written /\ r.calls = vm.calls /\ r.retVal = vm.retVal
              /\ r.status = vm.status
<1> DEFINE next == [vm EXCEPT !.ip = vm.ip + 1]
           first == code[vm.ip + 2]
           second == code[vm.ip + 3]
<1>1. Operands("NOP") = 0 /\ Popped("NOP") = 0
  BY DEF Operands, Popped
<1>2. vm.ip + 1 + 0 = vm.ip + 1
  OBVIOUS
<1>3. ~IsWild(vm, code, "NOP")
  BY <1>1, <1>2 DEF IsWild
<1>4. [vm EXCEPT !.ip = vm.ip + 1 + Operands("NOP")] = next
  BY <1>1, <1>2
<1>5. Step(vm, code, rax) = Effect(vm, next, "NOP", first, second, rax)
  BY <1>3, <1>4, StepIsEffect
<1> HIDE DEF next
<1>6. Effect(vm, next, "NOP", first, second, rax) = next
  BY <1>1 DEF Effect, Unimplemented
<1>7. /\ DOMAIN next = VmFields
      /\ next.ip = vm.ip + 1 /\ next.sp = vm.sp /\ next.stack = vm.stack
      /\ next.registers = vm.registers /\ next.flag = vm.flag /\ next.written = vm.written
      /\ next.calls = vm.calls /\ next.retVal = vm.retVal /\ next.status = vm.status
  BY DEF next, VmFields
<1> QED
  BY <1>5, <1>6, <1>7 DEF VmFields

\* When a turn calls a member function with its object, and what it leaves.
CanCall(vm, code) ==
    /\ DOMAIN vm = VmFields /\ Len(code) \in Nat /\ vm.ip \in Nat /\ vm.sp \in Nat
    /\ vm.ip + 3 <= Len(code)
    /\ Decoded(code[vm.ip + 1]) = "CALL"
    /\ OBFUSCATE(code[vm.ip + 2]) = 1
    /\ vm.sp >= 1
Calls(vm, code, rax) ==
    LET r == Step(vm, code, rax)
    IN /\ DOMAIN r = VmFields /\ r.ip = vm.ip + 3 /\ r.sp = vm.sp
       /\ r.stack = vm.stack /\ r.registers = vm.registers /\ r.flag = vm.flag
       /\ r.written = vm.written
       /\ r.calls =
             Append(vm.calls,
                    [address |-> OBFUSCATE(code[vm.ip + 3]),
                     parameters |-> [j \in 1..1 |->
                                        OBFUSCATE(vm.stack[vm.sp - 1 + j - 1])]])
       /\ r.retVal = rax /\ r.status = vm.status

\* A turn at a call calls.
LEMMA CallStep ==
    ASSUME NEW vm, NEW code, NEW rax, CanCall(vm, code)
    PROVE  Calls(vm, code, rax)
<1> USE DEF CanCall, Calls
<1> DEFINE next == [vm EXCEPT !.ip = vm.ip + 3]
           first == code[vm.ip + 2]
           second == code[vm.ip + 3]
<1>1. Operands("CALL") = 2 /\ Popped("CALL") = 0
  BY DEF Operands, Popped
<1>2. vm.ip + 1 + 2 = vm.ip + 3
  OBVIOUS
<1>3. ~IsWild(vm, code, "CALL")
  BY <1>1, <1>2 DEF IsWild, Operand
<1>4. [vm EXCEPT !.ip = vm.ip + 1 + Operands("CALL")] = next
  BY <1>1, <1>2
<1>5. Step(vm, code, rax) = Effect(vm, next, "CALL", first, second, rax)
  BY <1>3, <1>4, StepIsEffect
<1> HIDE DEF next
<1>6. Effect(vm, next, "CALL", first, second, rax) =
          Call(next, OBFUSCATE(first), OBFUSCATE(second), rax)
  BY <1>1 DEF Effect, Unimplemented
<1>7. /\ DOMAIN next = VmFields
      /\ next.ip = vm.ip + 3 /\ next.sp = vm.sp /\ next.stack = vm.stack
      /\ next.registers = vm.registers /\ next.flag = vm.flag /\ next.written = vm.written
      /\ next.calls = vm.calls /\ next.retVal = vm.retVal /\ next.status = vm.status
  BY DEF next, VmFields
<1> DEFINE number == OBFUSCATE(first)
           address == OBFUSCATE(second)
           call == [address |-> address,
                    parameters |-> [j \in 1..1 |-> OBFUSCATE(vm.stack[vm.sp - 1 + j - 1])]]
           r == [next EXCEPT !.calls = Append(@, call), !.retVal = rax]
<1>8. Call(next, number, address, rax) = r
  BY <1>7 DEF Call
<1> HIDE DEF call
<1>9. /\ DOMAIN r = VmFields /\ r.ip = next.ip /\ r.sp = next.sp /\ r.stack = next.stack
      /\ r.registers = next.registers /\ r.flag = next.flag /\ r.written = next.written
      /\ r.calls = Append(next.calls, call) /\ r.retVal = rax /\ r.status = next.status
  BY <1>7 DEF VmFields
<1>10. Step(vm, code, rax) = r
  BY <1>5, <1>6, <1>8
<1> HIDE DEF r
<1>11. /\ DOMAIN Step(vm, code, rax) = VmFields
       /\ Step(vm, code, rax).calls = Append(vm.calls, call)
  BY <1>7, <1>9, <1>10
<1> QED
  BY <1>7, <1>9, <1>10, <1>11 DEF call

\* A turn that compares the two numbers on top of the stack.
LEMMA CompareStep ==
    ASSUME NEW vm, DOMAIN vm = VmFields, NEW code, NEW rax, Len(code) \in Nat,
           vm.ip \in Nat, vm.sp \in Nat, vm.ip + 1 <= Len(code),
           Decoded(code[vm.ip + 1]) = "CMP",
           vm.sp >= 2
    PROVE  LET r == Step(vm, code, rax)
           IN /\ DOMAIN r = VmFields /\ r.ip = vm.ip + 1 /\ r.sp = vm.sp - 2
              /\ r.stack = vm.stack /\ r.registers = vm.registers
              /\ r.flag = Compared(vm.stack[vm.sp - 2], vm.stack[vm.sp - 1])
              /\ r.written = vm.written /\ r.calls = vm.calls /\ r.retVal = vm.retVal
              /\ r.status = vm.status
<1> DEFINE next == [vm EXCEPT !.ip = vm.ip + 1]
           first == code[vm.ip + 2]
           second == code[vm.ip + 3]
<1>1. Operands("CMP") = 0 /\ Popped("CMP") = 2
  BY DEF Operands, Popped
<1>2. vm.ip + 1 + 0 = vm.ip + 1
  OBVIOUS
<1>3. ~IsWild(vm, code, "CMP")
  BY <1>1, <1>2 DEF IsWild
<1>4. [vm EXCEPT !.ip = vm.ip + 1 + Operands("CMP")] = next
  BY <1>1, <1>2
<1>5. Step(vm, code, rax) = Effect(vm, next, "CMP", first, second, rax)
  BY <1>3, <1>4, StepIsEffect
<1> HIDE DEF next
<1>6. Effect(vm, next, "CMP", first, second, rax) = Calculate(next, "CMP")
  BY <1>1 DEF Effect, Unimplemented
<1>7. /\ DOMAIN next = VmFields
      /\ next.ip = vm.ip + 1 /\ next.sp = vm.sp /\ next.stack = vm.stack
      /\ next.registers = vm.registers /\ next.flag = vm.flag /\ next.written = vm.written
      /\ next.calls = vm.calls /\ next.retVal = vm.retVal /\ next.status = vm.status
  BY DEF next, VmFields
<1> DEFINE flag == Compared(vm.stack[vm.sp - 2], vm.stack[vm.sp - 1])
           r == [next EXCEPT !.sp = vm.sp - 2, !.flag = flag]
<1>8. Calculate(next, "CMP") = r
  BY <1>7 DEF Calculate
<1> HIDE DEF flag
<1>9. /\ DOMAIN r = VmFields /\ r.ip = next.ip /\ r.sp = vm.sp - 2 /\ r.stack = next.stack
      /\ r.registers = next.registers /\ r.flag = flag /\ r.written = next.written
      /\ r.calls = next.calls /\ r.retVal = next.retVal /\ r.status = next.status
  BY <1>7 DEF VmFields
<1>10. Step(vm, code, rax) = r
  BY <1>5, <1>6, <1>8
<1> HIDE DEF r
<1> QED
  BY <1>7, <1>9, <1>10 DEF flag


\* The operations of two operands, where the processor has a result.
ArithmeticNames == {"ADD", "SUB", "MUL", "DIV", "FL_ADD", "FL_SUB", "FL_MUL", "FL_DIV"}

\* When a turn computes with the two numbers on top of the stack, and what it leaves.
CanCompute(vm, code, name) ==
    /\ DOMAIN vm = VmFields /\ Len(code) \in Nat /\ vm.ip \in Nat /\ vm.sp \in Nat
    /\ vm.ip + 1 <= Len(code)
    /\ vm.sp >= 2
    /\ Decoded(code[vm.ip + 1]) = name
    /\ (name \in {"DIV", "FL_DIV"} => vm.stack[vm.sp - 1] # 0)
Computes(vm, code, rax, name) ==
    LET r == Step(vm, code, rax)
    IN /\ DOMAIN r = VmFields /\ r.ip = vm.ip + 1 /\ r.sp = vm.sp - 2
       /\ r.stack = [vm.stack EXCEPT ![vm.sp - 2] =
                        Arithmetic(name, vm.stack[vm.sp - 2], vm.stack[vm.sp - 1])]
       /\ r.registers = vm.registers /\ r.flag = vm.flag /\ r.written = vm.written
       /\ r.calls = vm.calls /\ r.retVal = vm.retVal /\ r.status = vm.status

\* A turn at an operation computes.
LEMMA OperationStep ==
    ASSUME NEW vm, NEW code, NEW rax, NEW name \in ArithmeticNames, CanCompute(vm, code, name)
    PROVE  Computes(vm, code, rax, name)
<1> USE DEF CanCompute, Computes
<1> DEFINE next == [vm EXCEPT !.ip = vm.ip + 1]
           first == code[vm.ip + 2]
           second == code[vm.ip + 3]
<1>1. Operands(name) = 0 /\ Popped(name) = 2
  BY DEF Operands, Popped, ArithmeticNames
<1>2. vm.ip + 1 + 0 = vm.ip + 1
  OBVIOUS
<1>3. ~IsWild(vm, code, name)
  BY <1>1, <1>2 DEF IsWild, ArithmeticNames
<1>4. [vm EXCEPT !.ip = vm.ip + 1 + Operands(name)] = next
  BY <1>1, <1>2
<1>5. Step(vm, code, rax) = Effect(vm, next, name, first, second, rax)
  BY <1>3, <1>4, StepIsEffect
<1> HIDE DEF next
<1>6. Effect(vm, next, name, first, second, rax) = Calculate(next, name)
  BY <1>1 DEF Effect, Unimplemented, Popped, ArithmeticNames
<1>7. /\ DOMAIN next = VmFields
      /\ next.ip = vm.ip + 1 /\ next.sp = vm.sp /\ next.stack = vm.stack
      /\ next.registers = vm.registers /\ next.flag = vm.flag /\ next.written = vm.written
      /\ next.calls = vm.calls /\ next.retVal = vm.retVal /\ next.status = vm.status
  BY DEF next, VmFields
<1> DEFINE result == Arithmetic(name, vm.stack[vm.sp - 2], vm.stack[vm.sp - 1])
           r == [next EXCEPT !.sp = vm.sp - 2, !.stack[vm.sp - 2] = result]
<1>8. Calculate(next, name) = r
  BY <1>7 DEF Calculate, ArithmeticNames
<1> HIDE DEF result
<1>9. /\ DOMAIN r = VmFields /\ r.ip = next.ip /\ r.sp = vm.sp - 2
      /\ r.stack = [next.stack EXCEPT ![vm.sp - 2] = result]
      /\ r.registers = next.registers /\ r.flag = next.flag /\ r.written = next.written
      /\ r.calls = next.calls /\ r.retVal = next.retVal /\ r.status = next.status
  BY <1>7 DEF VmFields
<1>10. Step(vm, code, rax) = r
  BY <1>5, <1>6, <1>8
<1> HIDE DEF r
<1> QED
  BY <1>7, <1>9, <1>10 DEF result

\* A division by zero is a fault of the processor, or ends the program.
LEMMA DivisionByZero ==
    ASSUME NEW vm, DOMAIN vm = VmFields, NEW code, NEW rax, Len(code) \in Nat,
           vm.ip \in Nat, vm.sp \in Nat, vm.ip + 1 <= Len(code), vm.sp >= 2,
           NEW name \in {"DIV", "FL_DIV"}, Decoded(code[vm.ip + 1]) = name,
           vm.stack[vm.sp - 1] = 0
    PROVE  Step(vm, code, rax).status = IF name = "DIV" THEN "fault" ELSE "false"
<1> DEFINE next == [vm EXCEPT !.ip = vm.ip + 1]
           first == code[vm.ip + 2]
           second == code[vm.ip + 3]
<1>1. Operands(name) = 0 /\ Popped(name) = 2
  BY DEF Operands, Popped
<1>2. vm.ip + 1 + 0 = vm.ip + 1
  OBVIOUS
<1>3. ~IsWild(vm, code, name)
  BY <1>1, <1>2 DEF IsWild
<1>4. [vm EXCEPT !.ip = vm.ip + 1 + Operands(name)] = next
  BY <1>1, <1>2
<1>5. Step(vm, code, rax) = Effect(vm, next, name, first, second, rax)
  BY <1>3, <1>4, StepIsEffect
<1> HIDE DEF next
<1>6. Effect(vm, next, name, first, second, rax) = Calculate(next, name)
  BY <1>1 DEF Effect, Unimplemented, Popped
<1>7. DOMAIN next = VmFields /\ next.sp = vm.sp /\ next.stack = vm.stack
  BY DEF next, VmFields
<1>8. CASE name = "DIV"
  <2>1. Calculate(next, name) = [next EXCEPT !.status = "fault"]
    BY <1>7, <1>8 DEF Calculate
  <2> QED BY <1>5, <1>6, <1>7, <1>8, <2>1 DEF VmFields
<1>9. CASE name = "FL_DIV"
  <2>1. Calculate(next, name) = [next EXCEPT !.sp = @ - 2, !.status = "false"]
    BY <1>7, <1>9 DEF Calculate
  <2>2. [next EXCEPT !.sp = @ - 2, !.status = "false"].status = "false"
    BY <1>7 DEF VmFields
  <2> QED BY <1>5, <1>6, <1>9, <2>1, <2>2
<1> QED
  BY <1>8, <1>9

-----------------------------------------------------------------------------
(* What the operations make of two words. *)

\* The quotient of two numbers.
LEMMA DivisionFacts ==
    ASSUME NEW a \in Nat, NEW b \in Nat \ {0}
    PROVE  LET q == a \div b
           IN q \in Nat /\ q * b <= a /\ a < (q + 1) * b
<1>1. a = b * (a \div b) + (a % b) /\ a % b \in 0..(b - 1) /\ a \div b \in Int
  OBVIOUS
<1> DEFINE q == a \div b
           r == a % b
<1>2. q \in Int /\ r \in 0..(b - 1) /\ a = b * q + r
  BY <1>1
<1> HIDE DEF q, r
<1>3. q * b = b * q /\ (q + 1) * b = b * q + b
  BY <1>2
<1>4. q * b <= a /\ a < (q + 1) * b
  BY <1>2, <1>3
<1>5. q >= 0
  <2> SUFFICES ASSUME q + 1 <= 0 PROVE FALSE
    BY <1>2
  <2>1. (q + 1) * b <= 0
    BY <1>2
  <2>2. (q + 1) * b \in Int
    BY <1>2
  <2> QED BY <1>4, <2>1, <2>2
<1> QED
  BY <1>2, <1>4, <1>5 DEF q

\* A product is divided by one of its factors.
LEMMA ProductFacts ==
    ASSUME NEW a \in Nat, NEW b \in Nat \ {0}
    PROVE  (a * b) % b = 0 /\ (a * b) \div b = a
<1> DEFINE p == a * b
           q == p \div b
<1>1. p \in Nat
  OBVIOUS
<1>2. q \in Nat /\ q * b <= p /\ p < (q + 1) * b
  BY <1>1, DivisionFacts
<1> HIDE DEF q
<1>3. q <= a
  <2> SUFFICES ASSUME a + 1 <= q PROVE FALSE
    BY <1>2
  <2>1. (a + 1) * b <= q * b
    BY <1>2
  <2>2. (a + 1) * b = p + b
    OBVIOUS
  <2> HIDE DEF p
  <2> QED BY <1>1, <1>2, <2>1, <2>2
<1>4. a <= q
  <2> SUFFICES ASSUME q + 1 <= a PROVE FALSE
    BY <1>2
  <2>1. (q + 1) * b <= a * b
    BY <1>2
  <2> QED BY <1>2, <2>1
<1>5. p = b * (p \div b) + (p % b)
  <2> HIDE DEF p
  <2> QED BY <1>1
<1>6. p \div b = a
  BY <1>2, <1>3, <1>4 DEF q
<1>7. p % b = 0
  BY <1>5, <1>6
<1> QED
  BY <1>6, <1>7

\* Each operation has the result its name says.
LEMMA ArithmeticIsRight ==
    ASSUME NEW a \in Word, NEW b \in Word, NEW name \in ArithmeticNames,
           b # 0 \/ name \notin {"DIV", "FL_DIV"}
    PROVE  IsResult(name, a, b, Arithmetic(name, a, b))
<1> DEFINE W == WordSize
<1>1. W \in Nat /\ W > 0 /\ a \in Nat /\ b \in Nat /\ a < W /\ b < W
  BY WordAssumption DEF Word
<1>2. CASE name = "ADD"
  <2> HIDE DEF W
  <2>1. (((a + b) % W) - b) % W = a
    BY <1>1
  <2> QED BY <1>2, <2>1 DEF IsResult, Arithmetic, W
<1>3. CASE name = "SUB"
  <2> HIDE DEF W
  <2>1. (((a - b) % W) + b) % W = a
    BY <1>1
  <2> QED BY <1>3, <2>1 DEF IsResult, Arithmetic, W
<1>4. CASE name = "MUL"
  <2> HIDE DEF W
  <2> DEFINE p == a * b
             n == p \div W
  <2>1. p \in Nat /\ W \in Nat \ {0}
    BY <1>1
  <2> HIDE DEF p
  <2>2. n \in Nat /\ n * W <= p /\ p < (n + 1) * W
    BY <2>1, DivisionFacts
  <2> DEFINE r == p % W
  <2>3. p = W * n + r /\ r \in Nat
    BY <2>1
  <2> HIDE DEF n, r
  <2>4. p = n * W + r
    <3>1. W * n = n * W
      BY <2>1, <2>2
    <3> QED BY <2>3, <3>1
  <2>5. n <= a
    <3> SUFFICES ASSUME a + 1 <= n PROVE FALSE
      BY <1>1, <2>2
    <3>1. (a + 1) * W <= n * W
      BY <1>1, <2>2
    <3>2. (a + 1) * W = a * W + W /\ a * b <= a * W
      BY <1>1
    <3>3. a * W + W <= a * W
      BY <1>1, <2>1, <2>2, <3>1, <3>2 DEF p
    <3>4. a * W \in Nat
      BY <1>1
    <3> QED BY <1>1, <3>3, <3>4
  <2>6. n \in 0..a /\ a * b = n * WordSize + r
    BY <1>1, <2>2, <2>4, <2>5 DEF p, W
  <2>7. Arithmetic(name, a, b) = r
    BY <1>4 DEF Arithmetic, r, p, W
  <2>8. \E m \in 0..a : a * b = m * WordSize + r
    BY <2>6, Zenon
  <2>9. IsResult("MUL", a, b, r)
    BY <2>8 DEF IsResult
  <2> QED BY <1>4, <2>7, <2>9
<1>5. CASE name = "FL_ADD"
  BY <1>1, <1>5 DEF IsResult, Arithmetic
<1>6. CASE name = "FL_SUB"
  BY <1>1, <1>6 DEF IsResult, Arithmetic
<1>7. CASE name = "FL_MUL"
  <2>1. CASE b = 0
    BY <1>1, <1>7, <2>1 DEF IsResult, Arithmetic
  <2>2. CASE b # 0
    <3>1. (a * b) % b = 0 /\ (a * b) \div b = a
      BY <1>1, <2>2, ProductFacts
    <3> QED BY <1>7, <2>2, <3>1 DEF IsResult, Arithmetic
  <2> QED BY <2>1, <2>2
<1>8. CASE name \in {"DIV", "FL_DIV"}
  <2>1. (a \div b) * b <= a /\ a < ((a \div b) + 1) * b
    BY <1>1, <1>8, DivisionFacts
  <2> QED BY <1>8, <2>1 DEF IsResult, Arithmetic
<1> QED
  BY <1>2, <1>3, <1>4, <1>5, <1>6, <1>7, <1>8 DEF ArithmeticNames

-----------------------------------------------------------------------------
(* Whole programs. *)

Start(vm) == [vm EXCEPT !.ip = 0, !.retVal = 0, !.status = "run"]

\* The machine at the start of a program.
LEMMA StartFacts ==
    ASSUME NEW vm, DOMAIN vm = VmFields
    PROVE  /\ DOMAIN Start(vm) = VmFields
           /\ Start(vm).ip = 0 /\ Start(vm).sp = vm.sp /\ Start(vm).stack = vm.stack
           /\ Start(vm).registers = vm.registers /\ Start(vm).flag = vm.flag
           /\ Start(vm).written = vm.written /\ Start(vm).calls = vm.calls
           /\ Start(vm).retVal = 0 /\ Start(vm).status = "run"
BY DEF Start, VmFields

\* The machine before its first program.
LEMMA NewMachineFacts ==
    /\ DOMAIN NewMachine = VmFields
    /\ NewMachine.sp = 0 /\ NewMachine.registers = NoRegisters /\ NewMachine.calls = <<>>
    /\ DOMAIN NewMachine.stack = 0..(StackSize - 1)
    /\ 0 \in DOMAIN NewMachine.stack /\ 1 \in DOMAIN NewMachine.stack
<1>1. StackSize \in Nat /\ StackSize >= 2
  BY VirtualMachineAssumption
<1>2. DOMAIN NewMachine.stack = 0..(StackSize - 1)
  BY DEF NewMachine
<1>3. 0 \in 0..(StackSize - 1) /\ 1 \in 0..(StackSize - 1)
  BY <1>1
<1>4. DOMAIN NewMachine = VmFields
  BY DEF NewMachine, VmFields
<1>5. NewMachine.sp = 0 /\ NewMachine.registers = NoRegisters
  BY DEF NewMachine
<1>6. NewMachine.calls = <<>>
  BY DEF NewMachine
<1> QED
  BY <1>2, <1>3, <1>4, <1>5, <1>6

\* Execute is over with the turn that ends the program.
LEMMA ExecuteEnds ==
    ASSUME NEW vm, NEW code, NEW rax, Len(code) \in Nat, NEW k \in 0..Len(code)
    PROVE  LET m == Turns(Start(vm), code, rax)[k]
               e == Execute(vm, code, rax)
           IN /\ m.status = "over" /\ DOMAIN m = VmFields =>
                    /\ e.status = "over" /\ e.registers = NoRegisters /\ DOMAIN e = VmFields
                    /\ e.sp = m.sp /\ e.stack = m.stack /\ e.flag = m.flag
                    /\ e.written = m.written /\ e.calls = m.calls /\ e.retVal = m.retVal
              /\ m.status \in {"fault", "false"} => e = m
<1> DEFINE m == Turns(Start(vm), code, rax)[k]
           end == Turns(Start(vm), code, rax)[Len(code)]
           e == Execute(vm, code, rax)
<1>1. e = IF end.status \in {"run", "over"}
          THEN [end EXCEPT !.registers = NoRegisters, !.status = "over"] ELSE end
  BY DEF Execute, Start
<1>2. m.status # "run" => end = m
  BY TurnByTurn
<1> HIDE DEF m, end, e
<1>3. ASSUME m.status = "over", DOMAIN m = VmFields
      PROVE  /\ e.status = "over" /\ e.registers = NoRegisters /\ DOMAIN e = VmFields
             /\ e.sp = m.sp /\ e.stack = m.stack /\ e.flag = m.flag
             /\ e.written = m.written /\ e.calls = m.calls /\ e.retVal = m.retVal
  <2>1. e = [m EXCEPT !.registers = NoRegisters, !.status = "over"]
    BY <1>1, <1>2, <1>3
  <2> QED BY <1>3, <2>1 DEF VmFields
<1>4. ASSUME m.status \in {"fault", "false"} PROVE e = m
  BY <1>1, <1>2, <1>4
<1> QED
  BY <1>3, <1>4 DEF m, e

\* Two pushes.
LEMMA PairIsPushed ==
    ASSUME NEW vm, DOMAIN vm = VmFields, vm.sp = 0, 0 \in DOMAIN vm.stack, 1 \in DOMAIN vm.stack,
           NEW code, NEW rax, Len(code) \in Nat, Len(code) >= 4,
           code[1] = Encoded("PUSH"), code[3] = Encoded("PUSH")
    PROVE  LET m == Turns(Start(vm), code, rax)[2]
           IN /\ DOMAIN m = VmFields /\ m.ip = 4 /\ m.sp = 2 /\ m.status = "run"
              /\ m.stack[0] = code[2] /\ m.stack[1] = code[4]
              /\ DOMAIN m.stack = DOMAIN vm.stack
<1> DEFINE f == Turns(Start(vm), code, rax)
<1>1. Decoded(code[1]) = "PUSH" /\ Decoded(code[3]) = "PUSH"
  BY NamesAreDecoded
<1>2. /\ f[0] = Start(vm)
      /\ f[0].status = "run" => f[1] = Step(f[0], code, rax)
      /\ f[1].status = "run" => f[2] = Step(f[1], code, rax)
  <2>1. 0 \in 0..(Len(code) - 1) /\ 1 \in 0..(Len(code) - 1) /\ 0 + 1 = 1 /\ 1 + 1 = 2
    OBVIOUS
  <2>2. /\ f[0] = Start(vm)
        /\ \A n \in 0..(Len(code) - 1) : f[n].status = "run" => f[n + 1] = Step(f[n], code, rax)
    BY TurnByTurn
  <2> HIDE DEF f
  <2> QED BY <2>1, <2>2
<1> HIDE DEF f
<1>3. /\ DOMAIN f[0] = VmFields /\ f[0].ip = 0 /\ f[0].sp = 0 /\ f[0].stack = vm.stack
      /\ f[0].status = "run"
  BY <1>2, StartFacts
<1>4. /\ DOMAIN f[1] = VmFields /\ f[1].ip = 2 /\ f[1].sp = 1 /\ f[1].status = "run"
      /\ f[1].stack = [vm.stack EXCEPT ![0] = code[2]]
  <2> DEFINE m == f[0]
  <2>1. /\ DOMAIN m = VmFields /\ m.ip \in Nat /\ m.sp \in Nat /\ m.ip + 2 <= Len(code)
        /\ Decoded(code[m.ip + 1]) = "PUSH" /\ m.sp \in DOMAIN m.stack
    BY <1>1, <1>3
  <2> HIDE DEF m
  <2>2. LET r == Step(m, code, rax)
        IN /\ DOMAIN r = VmFields /\ r.ip = m.ip + 2 /\ r.sp = m.sp + 1
           /\ r.stack = [m.stack EXCEPT ![m.sp] = code[m.ip + 2]] /\ r.status = m.status
    <3>1. CanPush(m, code)
      BY <2>1 DEF CanPush
    <3>2. Pushes(m, code, rax)
      BY <3>1, PushStep
    <3> QED BY <3>2 DEF Pushes
  <2>3. f[1] = Step(m, code, rax)
    BY <1>2, <1>3 DEF m
  <2>4. m.ip = 0 /\ m.sp = 0 /\ m.stack = vm.stack /\ m.status = "run"
    BY <1>3 DEF m
  <2> QED BY <2>2, <2>3, <2>4
<1>5. /\ DOMAIN f[2] = VmFields /\ f[2].ip = 4 /\ f[2].sp = 2 /\ f[2].status = "run"
      /\ f[2].stack = [f[1].stack EXCEPT ![1] = code[4]]
  <2> DEFINE m == f[1]
  <2>1. /\ DOMAIN m = VmFields /\ m.ip \in Nat /\ m.sp \in Nat /\ m.ip + 2 <= Len(code)
        /\ Decoded(code[m.ip + 1]) = "PUSH" /\ m.sp \in DOMAIN m.stack
    BY <1>1, <1>4
  <2> HIDE DEF m
  <2>2. LET r == Step(m, code, rax)
        IN /\ DOMAIN r = VmFields /\ r.ip = m.ip + 2 /\ r.sp = m.sp + 1
           /\ r.stack = [m.stack EXCEPT ![m.sp] = code[m.ip + 2]] /\ r.status = m.status
    <3>1. CanPush(m, code)
      BY <2>1 DEF CanPush
    <3>2. Pushes(m, code, rax)
      BY <3>1, PushStep
    <3> QED BY <3>2 DEF Pushes
  <2>3. f[2] = Step(m, code, rax)
    BY <1>2, <1>4 DEF m
  <2>4. m.ip = 2 /\ m.sp = 1 /\ m.status = "run"
    BY <1>4 DEF m
  <2> QED BY <2>2, <2>3, <2>4 DEF m
<1>6. /\ f[2].stack[0] = code[2] /\ f[2].stack[1] = code[4]
      /\ DOMAIN f[2].stack = DOMAIN vm.stack
  BY <1>4, <1>5
<1> QED
  BY <1>5, <1>6 DEF f

\* From the turn on at which the operands lie on the stack.
LEMMA OperationRuns ==
    ASSUME NEW vm, NEW code, NEW rax, NEW name \in ArithmeticNames, NEW k \in Nat, NEW p \in Nat,
           Len(code) \in Nat, k + 3 <= Len(code), p + 4 <= Len(code),
           code[p + 1] = Encoded(name), code[p + 2] = Encoded("GET_TOP_STACK"),
           code[p + 4] = Encoded("END_FUNC"),
           DOMAIN Turns(Start(vm), code, rax)[k] = VmFields,
           Turns(Start(vm), code, rax)[k].ip = p, Turns(Start(vm), code, rax)[k].sp = 2,
           Turns(Start(vm), code, rax)[k].status = "run",
           0 \in DOMAIN Turns(Start(vm), code, rax)[k].stack
    PROVE  LET m == Turns(Start(vm), code, rax)[k]
               e == Execute(vm, code, rax)
           IN IF name \in {"DIV", "FL_DIV"} /\ m.stack[1] = 0
              THEN e.status = IF name = "DIV" THEN "fault" ELSE "false"
              ELSE /\ e.status = "over" /\ e.sp = 0
                   /\ e.written = Arithmetic(name, m.stack[0], m.stack[1])
<1> DEFINE f == Turns(Start(vm), code, rax)
           m == f[k]
           e == Execute(vm, code, rax)
           result == Arithmetic(name, m.stack[0], m.stack[1])
<1>1. /\ Decoded(code[p + 1]) = name /\ Decoded(code[p + 2]) = "GET_TOP_STACK"
      /\ Decoded(code[p + 4]) = "END_FUNC"
  BY NamesAreDecoded DEF ArithmeticNames
<1>2. /\ f[k].status = "run" => f[k + 1] = Step(f[k], code, rax)
      /\ f[k + 1].status = "run" => f[k + 2] = Step(f[k + 1], code, rax)
      /\ f[k + 2].status = "run" => f[k + 3] = Step(f[k + 2], code, rax)
  <2>1. /\ k \in 0..(Len(code) - 1) /\ k + 1 \in 0..(Len(code) - 1) /\ k + 2 \in 0..(Len(code) - 1)
        /\ (k + 1) + 1 = k + 2 /\ (k + 2) + 1 = k + 3
    OBVIOUS
  <2>2. \A n \in 0..(Len(code) - 1) : f[n].status = "run" => f[n + 1] = Step(f[n], code, rax)
    BY TurnByTurn
  <2> HIDE DEF f
  <2> QED BY <2>1, <2>2
<1>3. /\ DOMAIN m = VmFields /\ m.ip = p /\ m.sp = 2 /\ m.status = "run" /\ 0 \in DOMAIN m.stack
  OBVIOUS
<1>4. k + 1 \in 0..Len(code) /\ k + 3 \in 0..Len(code)
  OBVIOUS
<1>5. ASSUME NEW j \in {k + 1, k + 3}
      PROVE  /\ f[j].status = "over" /\ DOMAIN f[j] = VmFields =>
                   e.status = "over" /\ e.sp = f[j].sp /\ e.written = f[j].written
             /\ f[j].status \in {"fault", "false"} => e = f[j]
  BY <1>4, ExecuteEnds
<1>6. f[k] = m
  OBVIOUS
<1> HIDE DEF f, e, m
<1>7. CASE name \in {"DIV", "FL_DIV"} /\ m.stack[1] = 0
  <2>1. Step(m, code, rax).status = IF name = "DIV" THEN "fault" ELSE "false"
    <3>1. /\ m.ip \in Nat /\ m.sp \in Nat /\ m.ip + 1 <= Len(code) /\ m.sp >= 2
          /\ Decoded(code[m.ip + 1]) = name /\ m.stack[m.sp - 1] = 0
      BY <1>1, <1>3, <1>7
    <3> QED BY <1>3, <1>7, <3>1, DivisionByZero
  <2>2. f[k + 1] = Step(m, code, rax)
    BY <1>2, <1>3, <1>6
  <2>3. e = f[k + 1]
    BY <1>5, <2>1, <2>2
  <2>4. e.status = IF name = "DIV" THEN "fault" ELSE "false"
    BY <2>1, <2>2, <2>3
  <2> QED BY <1>7, <2>4 DEF m, e, f
<1>8. CASE ~(name \in {"DIV", "FL_DIV"} /\ m.stack[1] = 0)
  <2>1. /\ DOMAIN f[k + 1] = VmFields /\ f[k + 1].ip = p + 1 /\ f[k + 1].sp = 0
        /\ f[k + 1].stack = [m.stack EXCEPT ![0] = result] /\ f[k + 1].status = "run"
    <3>1. /\ m.ip \in Nat /\ m.sp \in Nat /\ m.ip + 1 <= Len(code) /\ m.sp >= 2
          /\ Decoded(code[m.ip + 1]) = name
      BY <1>1, <1>3
    <3>2. name \in {"DIV", "FL_DIV"} => m.stack[m.sp - 1] # 0
      BY <1>3, <1>8
    <3>3. DOMAIN m = VmFields
      BY <1>3
    <3>4. LET r == Step(m, code, rax)
          IN /\ DOMAIN r = VmFields /\ r.ip = m.ip + 1 /\ r.sp = m.sp - 2
             /\ r.stack = [m.stack EXCEPT ![m.sp - 2] =
                             Arithmetic(name, m.stack[m.sp - 2], m.stack[m.sp - 1])]
             /\ r.status = m.status
      <4>1. CanCompute(m, code, name)
        BY <3>1, <3>2, <3>3 DEF CanCompute
      <4>2. Computes(m, code, rax, name)
        BY <4>1, OperationStep
      <4> QED BY <4>2 DEF Computes
    <3> QED BY <1>2, <1>3, <1>6, <3>4
  <2> HIDE DEF result
  <2>2. /\ DOMAIN f[k + 2] = VmFields /\ f[k + 2].ip = p + 3 /\ f[k + 2].sp = 0
        /\ f[k + 2].written = result /\ f[k + 2].status = "run"
    <3> DEFINE v == f[k + 1]
    <3>1. /\ DOMAIN v = VmFields /\ v.ip \in Nat /\ v.sp \in Nat /\ v.ip + 2 <= Len(code)
          /\ Decoded(code[v.ip + 1]) = "GET_TOP_STACK" /\ v.sp \in DOMAIN v.stack
      BY <1>1, <1>3, <2>1
    <3> HIDE DEF v
    <3>2. LET r == Step(v, code, rax)
          IN /\ DOMAIN r = VmFields /\ r.ip = v.ip + 2 /\ r.sp = v.sp
             /\ r.written = v.stack[v.sp] /\ r.status = v.status
      <4>1. CanStore(v, code)
        BY <3>1 DEF CanStore
      <4>2. Stores(v, code, rax)
        BY <4>1, StoreStep
      <4> QED BY <4>2 DEF Stores
    <3>3. v.ip = p + 1 /\ v.sp = 0 /\ v.stack[0] = result /\ v.status = "run"
      BY <1>3, <2>1 DEF v
    <3>4. f[k + 2] = Step(v, code, rax)
      BY <1>2, <2>1 DEF v
    <3> QED BY <3>2, <3>3, <3>4
  <2>3. /\ DOMAIN f[k + 3] = VmFields /\ f[k + 3].sp = 0
        /\ f[k + 3].written = result /\ f[k + 3].status = "over"
    <3> DEFINE v == f[k + 2]
    <3>1. /\ DOMAIN v = VmFields /\ v.ip \in Nat /\ v.sp \in Nat /\ v.ip + 1 <= Len(code)
          /\ Decoded(code[v.ip + 1]) = "END_FUNC"
      BY <1>1, <2>2
    <3> HIDE DEF v
    <3>2. LET r == Step(v, code, rax)
          IN DOMAIN r = VmFields /\ r.sp = v.sp /\ r.written = v.written /\ r.status = "over"
      BY <3>1, EndStep
    <3>3. v.sp = 0 /\ v.written = result
      BY <2>2 DEF v
    <3>4. f[k + 3] = Step(v, code, rax)
      BY <1>2, <2>2 DEF v
    <3> QED BY <3>2, <3>3, <3>4
  <2>4. e.status = "over" /\ e.sp = 0 /\ e.written = result
    BY <1>5, <2>3
  <2> QED BY <1>8, <2>4 DEF result, m, e, f
<1> QED
  BY <1>7, <1>8

\* A stack of another size keeps what it has.
LEMMA Resized ==
    ASSUME NEW vm, NEW size
    PROVE  SetStackSize(vm, size, TRUE) =
               [vm EXCEPT !.stack = [n \in 0..(size - 1) |->
                                        IF n \in DOMAIN vm.stack THEN vm.stack[n] ELSE "anything"]]
BY Zenon DEF SetStackSize

\* The operation at once, and over two programs.
LEMMA OperationsAreRight ==
    ASSUME NEW a \in Word, NEW b \in Word, NEW name \in ArithmeticNames
    PROVE  OperationIsRight(name, a, b)
<1> DEFINE fails == name \in {"DIV", "FL_DIV"} /\ b = 0
           kind == IF name = "DIV" THEN "fault" ELSE "false"
           vm == Computed(name, a, b)
           later == ComputedLater(name, a, b, StackSize + 1)
           rax == 0
<1>1. IF fails THEN vm.status = kind
      ELSE vm.status = "over" /\ vm.sp = 0 /\ vm.written = Arithmetic(name, a, b)
  <2> DEFINE code == <<Encoded("PUSH"), a, Encoded("PUSH"), b, Encoded(name),
                       Encoded("GET_TOP_STACK"), 0, Encoded("END_FUNC")>>
             m == Turns(Start(NewMachine), code, rax)[2]
  <2>1. /\ Len(code) = 8 /\ code[1] = Encoded("PUSH") /\ code[2] = a /\ code[3] = Encoded("PUSH")
        /\ code[4] = b /\ code[5] = Encoded(name) /\ code[6] = Encoded("GET_TOP_STACK")
        /\ code[8] = Encoded("END_FUNC")
    OBVIOUS
  <2>2. vm = Execute(NewMachine, code, rax)
    BY DEF Computed
  <2> HIDE DEF code
  <2> HIDE DEF rax
  <2>3. /\ DOMAIN m = VmFields /\ m.ip = 4 /\ m.sp = 2 /\ m.status = "run"
        /\ m.stack[0] = a /\ m.stack[1] = b /\ 0 \in DOMAIN m.stack
    <3>1. /\ DOMAIN NewMachine = VmFields /\ NewMachine.sp = 0
          /\ 0 \in DOMAIN NewMachine.stack /\ 1 \in DOMAIN NewMachine.stack
      BY NewMachineFacts
    <3>2. /\ Len(code) \in Nat /\ Len(code) >= 4
          /\ code[1] = Encoded("PUSH") /\ code[3] = Encoded("PUSH")
      BY <2>1
    <3>3. /\ DOMAIN m = VmFields /\ m.ip = 4 /\ m.sp = 2 /\ m.status = "run"
          /\ m.stack[0] = code[2] /\ m.stack[1] = code[4]
          /\ DOMAIN m.stack = DOMAIN NewMachine.stack
      BY <3>1, <3>2, PairIsPushed
    <3> HIDE DEF m
    <3> QED BY <2>1, <3>3, NewMachineFacts
  <2>4. /\ Len(code) \in Nat /\ 2 + 3 <= Len(code) /\ 4 + 4 <= Len(code)
        /\ code[4 + 1] = Encoded(name) /\ code[4 + 2] = Encoded("GET_TOP_STACK")
        /\ code[4 + 4] = Encoded("END_FUNC") /\ 2 \in Nat /\ 4 \in Nat
    BY <2>1
  <2>5. LET e == Execute(NewMachine, code, rax)
        IN IF name \in {"DIV", "FL_DIV"} /\ m.stack[1] = 0
           THEN e.status = IF name = "DIV" THEN "fault" ELSE "false"
           ELSE /\ e.status = "over" /\ e.sp = 0
                /\ e.written = Arithmetic(name, m.stack[0], m.stack[1])
    BY <2>3, <2>4, OperationRuns
  <2> HIDE DEF m, vm
  <2> QED BY <2>2, <2>3, <2>5
<1>2. ~fails => later.status = "over" /\ later.sp = 0 /\ later.written = Arithmetic(name, a, b)
  <2> DEFINE first == <<Encoded("PUSH"), a, Encoded("PUSH"), b, Encoded("END_FUNC")>>
             code == <<Encoded(name), Encoded("GET_TOP_STACK"), 0, Encoded("END_FUNC")>>
             pushed == Execute(NewMachine, first, rax)
             size == StackSize + 1
             set == SetStackSize(pushed, size, TRUE)
             f == Turns(Start(NewMachine), first, rax)
             m == Turns(Start(set), code, rax)[0]
  <2>1. /\ Len(first) = 5 /\ first[1] = Encoded("PUSH") /\ first[2] = a
        /\ first[3] = Encoded("PUSH") /\ first[4] = b /\ first[5] = Encoded("END_FUNC")
    OBVIOUS
  <2>2. /\ Len(code) = 4 /\ code[1] = Encoded(name) /\ code[2] = Encoded("GET_TOP_STACK")
        /\ code[4] = Encoded("END_FUNC")
    OBVIOUS
  <2>3. later = Execute(set, code, rax)
    BY DEF ComputedLater
  <2> HIDE DEF first, code
  <2> HIDE DEF rax, size
  <2>4. Len(first) \in Nat /\ Len(first) >= 4
    BY <2>1
  <2>5. /\ DOMAIN f[2] = VmFields /\ f[2].ip = 4 /\ f[2].sp = 2 /\ f[2].status = "run"
        /\ f[2].stack[0] = a /\ f[2].stack[1] = b
        /\ DOMAIN f[2].stack = 0..(StackSize - 1)
    <3> DEFINE v == f[2]
    <3>1. /\ DOMAIN NewMachine = VmFields /\ NewMachine.sp = 0
          /\ 0 \in DOMAIN NewMachine.stack /\ 1 \in DOMAIN NewMachine.stack
      BY NewMachineFacts
    <3>2. /\ Len(first) \in Nat /\ Len(first) >= 4
          /\ first[1] = Encoded("PUSH") /\ first[3] = Encoded("PUSH")
      BY <2>1
    <3>3. /\ DOMAIN v = VmFields /\ v.ip = 4 /\ v.sp = 2 /\ v.status = "run"
          /\ v.stack[0] = first[2] /\ v.stack[1] = first[4]
          /\ DOMAIN v.stack = DOMAIN NewMachine.stack
      BY <3>1, <3>2, PairIsPushed
    <3> HIDE DEF v
    <3>4. /\ DOMAIN v = VmFields /\ v.ip = 4 /\ v.sp = 2 /\ v.status = "run"
          /\ v.stack[0] = a /\ v.stack[1] = b /\ DOMAIN v.stack = 0..(StackSize - 1)
      BY <2>1, <3>3, NewMachineFacts
    <3> QED BY <3>4 DEF v
  <2>6. f[3] = Step(f[2], first, rax)
    <3>1. 2 \in 0..(Len(first) - 1) /\ 2 + 1 = 3
      BY <2>1
    <3>2. \A n \in 0..(Len(first) - 1) : f[n].status = "run" => f[n + 1] = Step(f[n], first, rax)
      BY <2>4, TurnByTurn
    <3> HIDE DEF f
    <3> QED BY <2>5, <3>1, <3>2
  <2>7. /\ DOMAIN f[3] = VmFields /\ f[3].status = "over" /\ f[3].sp = 2
        /\ f[3].stack = f[2].stack
    <3> DEFINE v == f[2]
    <3>1. /\ Len(first) \in Nat /\ DOMAIN v = VmFields /\ v.ip \in Nat /\ v.sp \in Nat
          /\ v.ip + 1 <= Len(first)
          /\ Decoded(first[v.ip + 1]) = "END_FUNC"
      BY <2>1, <2>5, NamesAreDecoded
    <3> HIDE DEF v
    <3>2. LET r == Step(v, first, rax)
          IN DOMAIN r = VmFields /\ r.sp = v.sp /\ r.stack = v.stack /\ r.status = "over"
      BY <2>4, <3>1, EndStep
    <3> QED BY <2>5, <2>6, <3>2 DEF v
  <2>8. /\ DOMAIN pushed = VmFields /\ pushed.sp = 2 /\ pushed.stack = f[2].stack
    <3>1. 3 \in 0..Len(first)
      BY <2>1
    <3> QED BY <2>4, <2>7, <3>1, ExecuteEnds
  <2> HIDE DEF pushed, f
  <2>9. /\ DOMAIN set = VmFields /\ set.sp = 2
        /\ set.stack[0] = a /\ set.stack[1] = b /\ 0 \in DOMAIN set.stack
    <3>1. StackSize \in Nat /\ StackSize >= 2
      BY VirtualMachineAssumption
    <3> DEFINE stack == [n \in 0..(size - 1) |->
                            IF n \in DOMAIN pushed.stack THEN pushed.stack[n] ELSE "anything"]
    <3>2. set = [pushed EXCEPT !.stack = stack]
      BY Resized, Zenon
    <3>3. /\ 0 \in 0..(size - 1) /\ 1 \in 0..(size - 1)
          /\ 0 \in 0..(StackSize - 1) /\ 1 \in 0..(StackSize - 1)
      BY <3>1 DEF size
    <3>4. stack[0] = a /\ stack[1] = b /\ 0 \in DOMAIN stack
      BY <2>5, <2>8, <3>3
    <3> HIDE DEF stack, set
    <3>5. DOMAIN set = VmFields /\ set.sp = 2 /\ set.stack = stack
      BY <2>8, <3>2 DEF VmFields
    <3> QED BY <3>4, <3>5
  <2> HIDE DEF set
  <2>10. /\ Len(code) \in Nat /\ 0 + 3 <= Len(code) /\ 0 + 4 <= Len(code)
         /\ code[0 + 1] = Encoded(name) /\ code[0 + 2] = Encoded("GET_TOP_STACK")
         /\ code[0 + 4] = Encoded("END_FUNC") /\ 0 \in Nat
    BY <2>2
  <2>11. m = Start(set)
    BY <2>10, TurnByTurn
  <2>12. /\ DOMAIN m = VmFields /\ m.ip = 0 /\ m.sp = 2 /\ m.status = "run"
         /\ m.stack[0] = a /\ m.stack[1] = b /\ 0 \in DOMAIN m.stack
    BY <2>9, <2>11, StartFacts
  <2>13. LET e == Execute(set, code, rax)
         IN IF name \in {"DIV", "FL_DIV"} /\ m.stack[1] = 0
            THEN e.status = IF name = "DIV" THEN "fault" ELSE "false"
            ELSE /\ e.status = "over" /\ e.sp = 0
                 /\ e.written = Arithmetic(name, m.stack[0], m.stack[1])
    BY <2>10, <2>12, OperationRuns
  <2> HIDE DEF m, later
  <2> QED BY <2>3, <2>12, <2>13
<1>3. ~fails => IsResult(name, a, b, Arithmetic(name, a, b))
  BY ArithmeticIsRight
<1> HIDE DEF vm, later
<1>4. ASSUME b # 0 \/ name \notin {"DIV", "FL_DIV"}, NEW v \in {vm, later}
      PROVE  v.status = "over" /\ v.sp = 0 /\ IsResult(name, a, b, v.written)
  <2>1. ~fails
    BY <1>4
  <2> HIDE DEF fails
  <2>2. v.status = "over" /\ v.sp = 0 /\ v.written = Arithmetic(name, a, b)
    BY <1>1, <1>2, <1>4, <2>1
  <2> QED BY <1>3, <2>1, <2>2
<1>5. ASSUME b = 0, name = "DIV" PROVE vm.status = "fault"
  BY <1>1, <1>5
<1>6. ASSUME b = 0, name = "FL_DIV" PROVE vm.status = "false"
  BY <1>1, <1>6
<1> QED
  BY <1>4, <1>5, <1>6 DEF OperationIsRight, vm, later

\* The programs that move, jump and compare, and the one with another stack in between.
LEMMA MovesAreRightAlways ==
    ASSUME NEW a \in Word, NEW b \in Word
    PROVE  MovesAreRight(a, b)
<1> DEFINE code == <<Encoded("MOV_IMMEDIATE_TO_REGISTER"), 0, a,
                     Encoded("MOV_REGISTER_TO_REGISTER"), 1, 0,
                     Encoded("JMP_OFFSET"), 2, Encoded("PUSH"), a,
                     Encoded("PUSH"), a, Encoded("PUSH"), b, Encoded("CMP"),
                     Encoded("NOP"), Encoded("END_FUNC")>>
           rax == 0
           f == Turns(Start(NewMachine), code, rax)
           e == Execute(NewMachine, code, rax)
<1>1. /\ Len(code) = 17 /\ MAX_REGISTERS = 8
      /\ Decoded(code[1]) = "MOV_IMMEDIATE_TO_REGISTER" /\ code[2] = 0 /\ code[3] = a
      /\ Decoded(code[4]) = "MOV_REGISTER_TO_REGISTER" /\ code[5] = 1 /\ code[6] = 0
      /\ Decoded(code[7]) = "JMP_OFFSET" /\ code[8] = 2
      /\ Decoded(code[11]) = "PUSH" /\ code[12] = a
      /\ Decoded(code[13]) = "PUSH" /\ code[14] = b
      /\ Decoded(code[15]) = "CMP" /\ Decoded(code[16]) = "NOP"
      /\ Decoded(code[17]) = "END_FUNC" /\ Len(code) \in Nat
  <2>1. /\ Len(code) = 17
        /\ code[1] = Encoded("MOV_IMMEDIATE_TO_REGISTER") /\ code[2] = 0 /\ code[3] = a
        /\ code[4] = Encoded("MOV_REGISTER_TO_REGISTER") /\ code[5] = 1 /\ code[6] = 0
        /\ code[7] = Encoded("JMP_OFFSET") /\ code[8] = 2
        /\ code[11] = Encoded("PUSH") /\ code[12] = a
        /\ code[13] = Encoded("PUSH") /\ code[14] = b
        /\ code[15] = Encoded("CMP") /\ code[16] = Encoded("NOP")
        /\ code[17] = Encoded("END_FUNC")
    OBVIOUS
  <2> HIDE DEF code
  <2> QED BY <2>1, NamesAreDecoded DEF MAX_REGISTERS
<1>2. e = Execute(NewMachine, <<Encoded("MOV_IMMEDIATE_TO_REGISTER"), 0, a,
                     Encoded("MOV_REGISTER_TO_REGISTER"), 1, 0,
                     Encoded("JMP_OFFSET"), 2, Encoded("PUSH"), a,
                     Encoded("PUSH"), a, Encoded("PUSH"), b, Encoded("CMP"),
                     Encoded("NOP"), Encoded("END_FUNC")>>, 0)
  BY Zenon
<1> HIDE DEF code, rax
<1>3. /\ f[0] = Start(NewMachine)
      /\ f[0].status = "run" => f[1] = Step(f[0], code, rax)
      /\ f[1].status = "run" => f[2] = Step(f[1], code, rax)
      /\ f[2].status = "run" => f[3] = Step(f[2], code, rax)
      /\ f[3].status = "run" => f[4] = Step(f[3], code, rax)
      /\ f[4].status = "run" => f[5] = Step(f[4], code, rax)
      /\ f[5].status = "run" => f[6] = Step(f[5], code, rax)
      /\ f[6].status = "run" => f[7] = Step(f[6], code, rax)
      /\ f[7].status = "run" => f[8] = Step(f[7], code, rax)
  <2>1. /\ 0 \in 0..(Len(code) - 1) /\ 1 \in 0..(Len(code) - 1) /\ 2 \in 0..(Len(code) - 1)
        /\ 3 \in 0..(Len(code) - 1) /\ 4 \in 0..(Len(code) - 1) /\ 5 \in 0..(Len(code) - 1)
        /\ 6 \in 0..(Len(code) - 1) /\ 7 \in 0..(Len(code) - 1)
        /\ 0 + 1 = 1 /\ 1 + 1 = 2 /\ 2 + 1 = 3 /\ 3 + 1 = 4 /\ 4 + 1 = 5
        /\ 5 + 1 = 6 /\ 6 + 1 = 7 /\ 7 + 1 = 8
    BY <1>1
  <2>2. /\ f[0] = Start(NewMachine)
        /\ \A n \in 0..(Len(code) - 1) : f[n].status = "run" => f[n + 1] = Step(f[n], code, rax)
    <3>1. Len(code) \in Nat
      BY <1>1
    <3> QED BY <3>1, TurnByTurn
  <2> HIDE DEF f
  <2> QED BY <2>1, <2>2
<1>4. f[8].status = "over" /\ DOMAIN f[8] = VmFields =>
          /\ e.status = "over" /\ e.registers = NoRegisters
          /\ e.sp = f[8].sp /\ e.flag = f[8].flag
  <2>1. 8 \in 0..Len(code)
    BY <1>1
  <2>2. Len(code) \in Nat
    BY <1>1
  <2> QED BY <2>1, <2>2, ExecuteEnds
<1> HIDE DEF f
<1>5. /\ DOMAIN f[0] = VmFields /\ f[0].ip = 0 /\ f[0].sp = 0 /\ f[0].status = "run"
      /\ 0 \in DOMAIN f[0].stack /\ 1 \in DOMAIN f[0].stack
  <2> DEFINE start == Start(NewMachine)
  <2>1. DOMAIN NewMachine = VmFields
    BY NewMachineFacts
  <2>2. /\ DOMAIN start = VmFields /\ start.ip = 0 /\ start.sp = NewMachine.sp
        /\ start.stack = NewMachine.stack /\ start.calls = NewMachine.calls
        /\ start.status = "run"
    BY <2>1, StartFacts
  <2> HIDE DEF start
  <2>3. f[0] = start
    BY <1>3 DEF start
  <2> QED BY <2>2, <2>3, NewMachineFacts
<1>6. /\ DOMAIN f[1] = VmFields /\ f[1].ip = 3 /\ f[1].sp = 0 /\ f[1].status = "run"
      /\ 0 \in DOMAIN f[1].stack /\ 1 \in DOMAIN f[1].stack
  <2> DEFINE m == f[0]
  <2>1. /\ Len(code) \in Nat
        /\ DOMAIN m = VmFields /\ m.ip \in Nat /\ m.sp \in Nat /\ m.ip + 3 <= Len(code)
        /\ Decoded(code[m.ip + 1]) = "MOV_IMMEDIATE_TO_REGISTER"
    BY <1>1, <1>5
  <2>2. code[m.ip + 2] < MAX_REGISTERS
    BY <1>1, <1>5
  <2> HIDE DEF m
  <2>3. LET r == Step(m, code, rax)
        IN /\ DOMAIN r = VmFields /\ r.ip = m.ip + 3 /\ r.sp = m.sp
           /\ r.stack = m.stack /\ r.status = m.status
    BY <2>1, <2>2, ImmediateStep
  <2>4. f[1] = Step(m, code, rax)
    BY <1>3, <1>5 DEF m
  <2>5. m.ip = 0 /\ m.sp = 0 /\ m.status = "run" /\ 0 \in DOMAIN m.stack /\ 1 \in DOMAIN m.stack
    BY <1>5 DEF m
  <2> QED BY <1>1, <2>3, <2>4, <2>5
<1>7. /\ DOMAIN f[2] = VmFields /\ f[2].ip = 6 /\ f[2].sp = 0 /\ f[2].status = "run"
      /\ 0 \in DOMAIN f[2].stack /\ 1 \in DOMAIN f[2].stack
  <2> DEFINE m == f[1]
  <2>1. /\ Len(code) \in Nat
        /\ DOMAIN m = VmFields /\ m.ip \in Nat /\ m.sp \in Nat /\ m.ip + 3 <= Len(code)
        /\ Decoded(code[m.ip + 1]) = "MOV_REGISTER_TO_REGISTER"
    BY <1>1, <1>6
  <2>2. code[m.ip + 2] < MAX_REGISTERS /\ code[m.ip + 3] < MAX_REGISTERS
    BY <1>1, <1>6
  <2> HIDE DEF m
  <2>3. LET r == Step(m, code, rax)
        IN /\ DOMAIN r = VmFields /\ r.ip = m.ip + 3 /\ r.sp = m.sp
           /\ r.stack = m.stack /\ r.status = m.status
    BY <2>1, <2>2, RegisterStep
  <2>4. f[2] = Step(m, code, rax)
    BY <1>3, <1>6 DEF m
  <2>5. m.ip = 3 /\ m.sp = 0 /\ m.status = "run" /\ 0 \in DOMAIN m.stack /\ 1 \in DOMAIN m.stack
    BY <1>6 DEF m
  <2> QED BY <1>1, <2>3, <2>4, <2>5
<1>8. /\ DOMAIN f[3] = VmFields /\ f[3].ip = 10 /\ f[3].sp = 0 /\ f[3].status = "run"
      /\ 0 \in DOMAIN f[3].stack /\ 1 \in DOMAIN f[3].stack
  <2> DEFINE m == f[2]
  <2>1. /\ Len(code) \in Nat
        /\ DOMAIN m = VmFields /\ m.ip \in Nat /\ m.sp \in Nat /\ m.ip + 2 <= Len(code)
        /\ Decoded(code[m.ip + 1]) = "JMP_OFFSET" /\ code[m.ip + 2] \in Nat
    BY <1>1, <1>7
  <2> HIDE DEF m
  <2>2. LET r == Step(m, code, rax)
        IN /\ DOMAIN r = VmFields /\ r.ip = m.ip + 2 + code[m.ip + 2] /\ r.sp = m.sp
           /\ r.stack = m.stack /\ r.status = m.status
    BY <2>1, JumpStep
  <2>3. f[3] = Step(m, code, rax)
    BY <1>3, <1>7 DEF m
  <2>4. m.ip = 6 /\ m.sp = 0 /\ m.status = "run" /\ 0 \in DOMAIN m.stack /\ 1 \in DOMAIN m.stack
    BY <1>7 DEF m
  <2> QED BY <1>1, <2>2, <2>3, <2>4
<1>9. /\ DOMAIN f[4] = VmFields /\ f[4].ip = 12 /\ f[4].sp = 1 /\ f[4].status = "run"
      /\ f[4].stack[0] = a /\ 1 \in DOMAIN f[4].stack /\ 0 \in DOMAIN f[4].stack
  <2> DEFINE m == f[3]
  <2>1. /\ Len(code) \in Nat
        /\ DOMAIN m = VmFields /\ m.ip \in Nat /\ m.sp \in Nat /\ m.ip + 2 <= Len(code)
        /\ Decoded(code[m.ip + 1]) = "PUSH"
        /\ m.sp \in DOMAIN m.stack
    BY <1>1, <1>8
  <2> HIDE DEF m
  <2>2. LET r == Step(m, code, rax)
        IN /\ DOMAIN r = VmFields /\ r.ip = m.ip + 2 /\ r.sp = m.sp + 1 /\ r.status = m.status
           /\ r.stack = [m.stack EXCEPT ![m.sp] = code[m.ip + 2]]
    <3>1. CanPush(m, code)
      BY <2>1 DEF CanPush
    <3>2. Pushes(m, code, rax)
      BY <3>1, PushStep
    <3> QED BY <3>2 DEF Pushes
  <2>3. f[4] = Step(m, code, rax)
    BY <1>3, <1>8 DEF m
  <2>4. m.ip = 10 /\ m.sp = 0 /\ m.status = "run" /\ 0 \in DOMAIN m.stack /\ 1 \in DOMAIN m.stack
    BY <1>8 DEF m
  <2> QED BY <1>1, <2>2, <2>3, <2>4
<1>10. /\ DOMAIN f[5] = VmFields /\ f[5].ip = 14 /\ f[5].sp = 2 /\ f[5].status = "run"
      /\ f[5].stack[0] = a /\ f[5].stack[1] = b
  <2> DEFINE m == f[4]
  <2>1. /\ Len(code) \in Nat
        /\ DOMAIN m = VmFields /\ m.ip \in Nat /\ m.sp \in Nat /\ m.ip + 2 <= Len(code)
        /\ Decoded(code[m.ip + 1]) = "PUSH"
        /\ m.sp \in DOMAIN m.stack
    BY <1>1, <1>9
  <2> HIDE DEF m
  <2>2. LET r == Step(m, code, rax)
        IN /\ DOMAIN r = VmFields /\ r.ip = m.ip + 2 /\ r.sp = m.sp + 1 /\ r.status = m.status
           /\ r.stack = [m.stack EXCEPT ![m.sp] = code[m.ip + 2]]
    <3>1. CanPush(m, code)
      BY <2>1 DEF CanPush
    <3>2. Pushes(m, code, rax)
      BY <3>1, PushStep
    <3> QED BY <3>2 DEF Pushes
  <2>3. f[5] = Step(m, code, rax)
    BY <1>3, <1>9 DEF m
  <2>4. m.ip = 12 /\ m.sp = 1 /\ m.status = "run"
        /\ 0 \in DOMAIN m.stack /\ 1 \in DOMAIN m.stack /\ m.stack[0] = a
    BY <1>9 DEF m
  <2> QED BY <1>1, <2>2, <2>3, <2>4
<1>11. /\ DOMAIN f[6] = VmFields /\ f[6].ip = 15 /\ f[6].sp = 0 /\ f[6].status = "run"
      /\ f[6].flag = Compared(a, b)
  <2> DEFINE m == f[5]
  <2>1. /\ Len(code) \in Nat
        /\ DOMAIN m = VmFields /\ m.ip \in Nat /\ m.sp \in Nat /\ m.ip + 1 <= Len(code)
        /\ Decoded(code[m.ip + 1]) = "CMP" /\ m.sp >= 2
    BY <1>1, <1>10
  <2> HIDE DEF m
  <2>2. LET r == Step(m, code, rax)
        IN /\ DOMAIN r = VmFields /\ r.ip = m.ip + 1 /\ r.sp = m.sp - 2 /\ r.status = m.status
           /\ r.flag = Compared(m.stack[m.sp - 2], m.stack[m.sp - 1])
    BY <2>1, CompareStep
  <2>3. f[6] = Step(m, code, rax)
    BY <1>3, <1>10 DEF m
  <2>4. m.ip = 14 /\ m.sp = 2 /\ m.status = "run" /\ m.stack[0] = a /\ m.stack[1] = b
    BY <1>10 DEF m
  <2> QED BY <1>1, <2>2, <2>3, <2>4
<1>12. /\ DOMAIN f[7] = VmFields /\ f[7].ip = 16 /\ f[7].sp = 0 /\ f[7].status = "run"
      /\ f[7].flag = Compared(a, b)
  <2> DEFINE m == f[6]
  <2>1. /\ Len(code) \in Nat
        /\ DOMAIN m = VmFields /\ m.ip \in Nat /\ m.sp \in Nat /\ m.ip + 1 <= Len(code)
        /\ Decoded(code[m.ip + 1]) = "NOP"
    BY <1>1, <1>11
  <2> HIDE DEF m
  <2>2. LET r == Step(m, code, rax)
        IN /\ DOMAIN r = VmFields /\ r.ip = m.ip + 1 /\ r.sp = m.sp /\ r.status = m.status
           /\ r.flag = m.flag
    BY <2>1, NopStep
  <2>3. f[7] = Step(m, code, rax)
    BY <1>3, <1>11 DEF m
  <2>4. m.ip = 15 /\ m.sp = 0 /\ m.status = "run" /\ m.flag = Compared(a, b)
    BY <1>11 DEF m
  <2> QED BY <1>1, <2>2, <2>3, <2>4
<1>13. /\ DOMAIN f[8] = VmFields /\ f[8].sp = 0 /\ f[8].status = "over"
      /\ f[8].flag = Compared(a, b)
  <2> DEFINE m == f[7]
  <2>1. /\ Len(code) \in Nat
        /\ DOMAIN m = VmFields /\ m.ip \in Nat /\ m.sp \in Nat /\ m.ip + 1 <= Len(code)
        /\ Decoded(code[m.ip + 1]) = "END_FUNC"
    BY <1>1, <1>12
  <2> HIDE DEF m
  <2>2. LET r == Step(m, code, rax)
        IN DOMAIN r = VmFields /\ r.sp = m.sp /\ r.flag = m.flag /\ r.status = "over"
    BY <2>1, EndStep
  <2>3. f[8] = Step(m, code, rax)
    BY <1>3, <1>12 DEF m
  <2>4. m.ip = 16 /\ m.sp = 0 /\ m.status = "run" /\ m.flag = Compared(a, b)
    BY <1>12 DEF m
  <2> QED BY <1>1, <2>2, <2>3, <2>4
<1>14. /\ e.status = "over" /\ e.sp = 0 /\ e.registers = NoRegisters
       /\ e.flag = Compared(a, b)
  BY <1>4, <1>13
<1> HIDE DEF e
<1>15. (e.flag = "less") = (a < b) /\ (e.flag = "greater") = (b < a)
  <2>1. a \in Int /\ b \in Int
    BY WordAssumption DEF Word
  <2> QED BY <1>14, <2>1 DEF Compared
<1> QED
  BY <1>14, <1>15, <1>2, Zenon DEF MovesAreRight

\* The call of a member function.
LEMMA CallRuns ==
    ASSUME NEW this \in Word, NEW address \in Word, NEW rax
    PROVE  LET e == Execute(NewMachine, CallMember(this, address), rax)
           IN /\ e.status = "over" /\ e.retVal = rax
              /\ e.calls = << [address |-> address, parameters |-> <<this>>] >>
<1> DEFINE code == CallMember(this, address)
           f == Turns(Start(NewMachine), code, rax)
           e == Execute(NewMachine, code, rax)
           call == [address |-> address, parameters |-> <<this>>]
<1>1. /\ Len(code) = 6 /\ Len(code) \in Nat
      /\ Decoded(code[1]) = "PUSH" /\ OBFUSCATE(code[2]) = this
      /\ Decoded(code[3]) = "CALL" /\ OBFUSCATE(code[4]) = 1 /\ OBFUSCATE(code[5]) = address
      /\ Decoded(code[6]) = "END_FUNC"
  <2>1. /\ Len(code) = 6 /\ code[1] = Encoded("PUSH") /\ code[2] = OBFUSCATE(this)
        /\ code[3] = Encoded("CALL") /\ code[4] = OBFUSCATE(1) /\ code[5] = OBFUSCATE(address)
        /\ code[6] = Encoded("END_FUNC")
    BY DEF CallMember
  <2>2. 1 \in Word
    BY WordAssumption DEF Word
  <2> HIDE DEF code
  <2> QED BY <2>1, <2>2, KeysFit, NamesAreDecoded
<1> HIDE DEF code
<1>2. /\ f[0] = Start(NewMachine)
      /\ f[0].status = "run" => f[1] = Step(f[0], code, rax)
      /\ f[1].status = "run" => f[2] = Step(f[1], code, rax)
      /\ f[2].status = "run" => f[3] = Step(f[2], code, rax)
  <2>1. /\ 0 \in 0..(Len(code) - 1) /\ 1 \in 0..(Len(code) - 1) /\ 2 \in 0..(Len(code) - 1)
        /\ 0 + 1 = 1 /\ 1 + 1 = 2 /\ 2 + 1 = 3
    BY <1>1
  <2>2. /\ f[0] = Start(NewMachine)
        /\ \A n \in 0..(Len(code) - 1) : f[n].status = "run" => f[n + 1] = Step(f[n], code, rax)
    <3>1. Len(code) \in Nat
      BY <1>1
    <3> QED BY <3>1, TurnByTurn
  <2> HIDE DEF f
  <2> QED BY <2>1, <2>2
<1>3. f[3].status = "over" /\ DOMAIN f[3] = VmFields =>
          e.status = "over" /\ e.calls = f[3].calls /\ e.retVal = f[3].retVal
  <2>1. 3 \in 0..Len(code)
    BY <1>1
  <2>2. Len(code) \in Nat
    BY <1>1
  <2> QED BY <2>1, <2>2, ExecuteEnds
<1> HIDE DEF f
<1>4. /\ DOMAIN f[0] = VmFields /\ f[0].ip = 0 /\ f[0].sp = 0 /\ f[0].status = "run"
      /\ 0 \in DOMAIN f[0].stack /\ f[0].calls = <<>>
  <2> DEFINE start == Start(NewMachine)
  <2>1. DOMAIN NewMachine = VmFields
    BY NewMachineFacts
  <2>2. /\ DOMAIN start = VmFields /\ start.ip = 0 /\ start.sp = NewMachine.sp
        /\ start.stack = NewMachine.stack /\ start.calls = NewMachine.calls
        /\ start.status = "run"
    BY <2>1, StartFacts
  <2> HIDE DEF start
  <2>3. f[0] = start
    BY <1>2 DEF start
  <2> QED BY <2>2, <2>3, NewMachineFacts
<1>5. /\ DOMAIN f[1] = VmFields /\ f[1].ip = 2 /\ f[1].sp = 1 /\ f[1].status = "run"
      /\ OBFUSCATE(f[1].stack[0]) = this /\ f[1].calls = <<>>
  <2> DEFINE m == f[0]
  <2>1. /\ Len(code) \in Nat
        /\ DOMAIN m = VmFields /\ m.ip \in Nat /\ m.sp \in Nat /\ m.ip + 2 <= Len(code)
        /\ Decoded(code[m.ip + 1]) = "PUSH"
        /\ m.sp \in DOMAIN m.stack
    BY <1>1, <1>4
  <2> HIDE DEF m
  <2>2. LET r == Step(m, code, rax)
        IN /\ DOMAIN r = VmFields /\ r.ip = m.ip + 2 /\ r.sp = m.sp + 1 /\ r.status = m.status
           /\ r.stack = [m.stack EXCEPT ![m.sp] = code[m.ip + 2]]
           /\ r.calls = m.calls
    <3>1. CanPush(m, code)
      BY <2>1 DEF CanPush
    <3>2. Pushes(m, code, rax)
      BY <3>1, PushStep
    <3> QED BY <3>2 DEF Pushes
  <2>3. f[1] = Step(m, code, rax)
    BY <1>2, <1>4 DEF m
  <2>4. m.ip = 0 /\ m.sp = 0 /\ m.status = "run" /\ 0 \in DOMAIN m.stack /\ m.calls = <<>>
    BY <1>4 DEF m
  <2> QED BY <1>1, <2>2, <2>3, <2>4
<1>6. /\ DOMAIN f[2] = VmFields /\ f[2].ip = 5 /\ f[2].sp = 1 /\ f[2].status = "run"
      /\ f[2].calls = <<call>> /\ f[2].retVal = rax
  <2> DEFINE m == f[1]
  <2>1. /\ Len(code) \in Nat
        /\ DOMAIN m = VmFields /\ m.ip \in Nat /\ m.sp \in Nat /\ m.ip + 3 <= Len(code)
        /\ Decoded(code[m.ip + 1]) = "CALL"
    BY <1>1, <1>5
  <2>2. OBFUSCATE(code[m.ip + 2]) = 1 /\ m.sp >= 1
    BY <1>1, <1>5
  <2> HIDE DEF m
  <2>3. LET r == Step(m, code, rax)
        IN /\ DOMAIN r = VmFields /\ r.ip = m.ip + 3 /\ r.sp = m.sp /\ r.status = m.status
           /\ r.calls =
                 Append(m.calls,
                        [address |-> OBFUSCATE(code[m.ip + 3]),
                         parameters |-> [j \in 1..1 |-> OBFUSCATE(m.stack[m.sp - 1 + j - 1])]])
           /\ r.retVal = rax
    <3>1. CanCall(m, code)
      BY <2>1, <2>2 DEF CanCall
    <3>2. Calls(m, code, rax)
      BY <3>1, CallStep
    <3> QED BY <3>2 DEF Calls
  <2>4. f[2] = Step(m, code, rax)
    BY <1>2, <1>5 DEF m
  <2>5. m.ip = 2 /\ m.sp = 1 /\ m.status = "run"
        /\ OBFUSCATE(m.stack[0]) = this /\ m.calls = <<>>
    BY <1>5 DEF m
  <2> QED BY <1>1, <2>3, <2>4, <2>5
<1>7. /\ DOMAIN f[3] = VmFields /\ f[3].status = "over"
      /\ f[3].calls = <<call>> /\ f[3].retVal = rax
  <2> DEFINE m == f[2]
  <2>1. /\ Len(code) \in Nat
        /\ DOMAIN m = VmFields /\ m.ip \in Nat /\ m.sp \in Nat /\ m.ip + 1 <= Len(code)
        /\ Decoded(code[m.ip + 1]) = "END_FUNC"
    BY <1>1, <1>6
  <2> HIDE DEF m
  <2>2. LET r == Step(m, code, rax)
        IN /\ DOMAIN r = VmFields /\ r.calls = m.calls /\ r.retVal = m.retVal
           /\ r.status = "over"
    BY <2>1, EndStep
  <2>3. f[3] = Step(m, code, rax)
    BY <1>2, <1>6 DEF m
  <2>4. m.calls = <<call>> /\ m.retVal = rax
    BY <1>6 DEF m
  <2> QED BY <1>1, <2>2, <2>3, <2>4
<1> HIDE DEF e, call
<1>8. e.status = "over" /\ e.calls = <<call>> /\ e.retVal = rax
  BY <1>3, <1>7
<1> QED
  BY <1>8 DEF e, call, code

\* A member function is called once, with its object alone.
LEMMA CallsAreRight ==
    ASSUME NEW this \in Word, NEW address \in Word, NEW rax \in Nat
    PROVE  CallIsRight(this, address, rax)
<1> DEFINE e == Execute(NewMachine, CallMember(this, address), rax)
           calls == << [address |-> address, parameters |-> <<this>>] >>
<1>1. e.status = "over" /\ e.retVal = rax /\ e.calls = calls
  BY CallRuns
<1> HIDE DEF e, calls
<1>2. Returned(e) = (rax # 0)
  BY <1>1 DEF Returned
<1> QED
  BY <1>1, <1>2, Zenon DEF CallIsRight, e, calls

\* The program of a check ends, and its result is what RAX held.
LEMMA CallReturns ==
    ASSUME NEW this \in Word, NEW address \in Word, NEW rax
    PROVE  /\ Execute(NewMachine, CallMember(this, address), rax).status = "over"
           /\ Execute(NewMachine, CallMember(this, address), rax).retVal = rax
<1> DEFINE e == Execute(NewMachine, CallMember(this, address), rax)
           calls == << [address |-> address, parameters |-> <<this>>] >>
<1>1. e.status = "over" /\ e.retVal = rax /\ e.calls = calls
  BY CallRuns
<1> QED
  BY <1>1

\* What is left of a call in the lowest byte is asked for in the whole word.
LEMMA ChecksAreAsked ==
    ASSUME NEW config, NEW settled, NEW upper \in Nat
    PROVE  CheckPasses(config, settled, upper) <=>
               DoPreInitializeChecks(config, settled) \/ upper # 0
<1> DEFINE al == IF DoPreInitializeChecks(config, settled) THEN 1 ELSE 0
           rax == 2 * upper + al
           e == Execute(NewMachine, CallMember(ThisPointer, MemberAddress), rax)
<1>1. ThisPointer \in Word /\ MemberAddress \in Word
  BY WordAssumption DEF ThisPointer, MemberAddress, Word
<1>2. e.status = "over" /\ e.retVal = rax
  <2> HIDE DEF rax
  <2> QED BY <1>1, CallReturns
<1>3. CheckPasses(config, settled, upper) = Returned(e)
  BY DEF CheckPasses
<1> HIDE DEF e
<1>4. Returned(e) <=> rax # 0
  BY <1>2 DEF Returned
<1>5. rax # 0 <=> al = 1 \/ upper # 0
  <2>1. al \in {0, 1}
    OBVIOUS
  <2> HIDE DEF al
  <2> QED BY <2>1
<1>6. al = 1 <=> DoPreInitializeChecks(config, settled)
  OBVIOUS
<1> HIDE DEF al, rax
<1> QED
  BY <1>3, <1>4, <1>5, <1>6

\* The samples of the virtual machine one by one.
LEMMA SamplesAreComputed ==
    ASSUME IsSample(sample)
    PROVE  MachineComputes
<1>1. CASE sample \in OperationSample
  <2>1. /\ sample.kind = "operation" /\ sample.a \in Word /\ sample.b \in Word
        /\ sample.name \in ArithmeticNames
    BY <1>1 DEF OperationSample, ArithmeticNames
  <2>2. OperationIsRight(sample.name, sample.a, sample.b)
    BY <2>1, OperationsAreRight
  <2> QED BY <2>1, <2>2 DEF MachineComputes
<1>2. CASE sample \in MovesSample
  <2>1. sample.kind = "moves" /\ sample.a \in Word /\ sample.b \in Word
    BY <1>2 DEF MovesSample
  <2>2. MovesAreRight(sample.a, sample.b)
    BY <2>1, MovesAreRightAlways
  <2> QED BY <2>1, <2>2 DEF MachineComputes
<1>3. CASE sample \in CallSample
  <2>1. /\ sample.kind = "call" /\ sample.this \in Word /\ sample.address \in Word
        /\ sample.rax \in Nat
    BY <1>3 DEF CallSample
  <2>2. CallIsRight(sample.this, sample.address, sample.rax)
    BY <2>1, CallsAreRight
  <2> QED BY <2>1, <2>2 DEF MachineComputes
<1>4. CASE sample \in ChecksSample
  <2>1. sample.kind = "checks" /\ sample.upper \in Nat
    BY <1>4 DEF ChecksSample
  <2>2. CheckPasses(sample.config, sample.machine, sample.upper) <=>
            DoPreInitializeChecks(sample.config, sample.machine) \/ sample.upper # 0
    BY <2>1, ChecksAreAsked
  <2> QED BY <2>1, <2>2 DEF MachineComputes
<1>5. CASE \/ sample \in ByteSample \/ sample \in DataSample \/ sample \in CharSample
           \/ sample \in TextSample \/ sample \in CodeSample \/ sample \in HelloSample
           \/ sample \in HashSample \/ sample \in InfoSample \/ sample \in CookieSample
           \/ sample \in FlaggedSample \/ sample \in MemorySample \/ sample \in GoodbyeSample
  <2>1. sample.kind \notin {"operation", "moves", "call", "checks"}
    BY <1>5 DEF ByteSample, DataSample, CharSample, TextSample, CodeSample, HelloSample,
                HashSample, InfoSample, CookieSample, FlaggedSample, MemorySample, GoodbyeSample
  <2> QED BY <2>1 DEF MachineComputes
<1> QED
  BY <1>1, <1>2, <1>3, <1>4, <1>5 DEF IsSample

(* The virtual machine computes what its programs say, for every pair of words, in one     *)
(* program or over two with another stack in between, calls a member function once, at its *)
(* address, with the object alone, and the checks before the start never refuse a machine  *)
(* that meets the settings, whatever the upper bytes of RAX hold (VirtualMachine.hpp:128,  *)
(* AntiCheat.cpp:10).                                                                      *)
THEOREM ProgramsAreComputed == SampleSpec => []MachineComputes
<1>1. IsSample(sample) => MachineComputes
  BY SamplesAreComputed
<1>2. IsSample(sample) /\ [UNCHANGED sample]_sample => IsSample(sample)'
  BY DEF IsSample
<1> QED
  BY <1>1, <1>2, PTL DEF SampleSpec

=============================================================================

--------------------------- MODULE AntiDebug_proofs ---------------------------
(* Proofs about AntiDebug: who keeps a thread suspended, for any number of    *)
(* checks that overlap, with logging or without, under any debugger.          *)
EXTENDS AntiDebug, FiniteSetTheorems, TLAPS

-----------------------------------------------------------------------------
(* The invariant: the suspend count of a thread is the number of those who    *)
(* look at it, the checks and main().                                         *)

Looking == {"clean", "set", "failed"}
CheckStates == {"idle", "snapshot", "next", "flag"} \cup Looking

\* The checks that have suspended t and not yet resumed it.
Lookers(t) == {h \in Checks : check[h].on = t}

\* main() has suspended t to ask for its count, and has not resumed it.
Probed(t) == Len(probe) = 2 /\ end # "suspended" /\ Asked[probe[1]] = t

TypeInv ==
    /\ check \in [Checks -> [at : CheckStates, on : Threads \cup {"none"},
                             left : SUBSET Threads]]
    /\ count \in [Threads -> Nat]
    /\ probe \in Seq(Nat)
    /\ Len(probe) > 0 => probe[1] \in DOMAIN Asked
    /\ stage = "start" => probe = <<>>

CheckInv ==
    \A h \in Checks : check[h].on \in Threads <=> check[h].at \in Looking

CountInv ==
    \A t \in Threads : count[t] = Cardinality(Lookers(t)) + (IF Probed(t) THEN 1 ELSE 0)

Inv == TypeInv /\ CheckInv /\ CountInv

-----------------------------------------------------------------------------
(* Facts about the sets of checks *)

\* A sequence with one more entry.
LEMMA Appended ==
    ASSUME NEW S, NEW s \in Seq(S), NEW n \in S
    PROVE  /\ Append(s, n) \in Seq(S) /\ Len(Append(s, n)) = Len(s) + 1
           /\ \A i \in 1..Len(s) : Append(s, n)[i] = s[i]
  OBVIOUS

\* There are finitely many threads that look at one.
LEMMA LookersFinite ==
    ASSUME NEW t PROVE IsFiniteSet(Lookers(t)) /\ Cardinality(Lookers(t)) \in Nat
<1>1. IsFiniteSet(Lookers(t))
  BY FS_Subset, ChecksAssumption DEF Lookers
<1> QED
  BY <1>1, FS_CardinalityType

\* The threads main() asks are threads, and there is no thread "none".
LEMMA ThreadNames ==
    /\ \A i \in DOMAIN Asked : Asked[i] \in Threads
    /\ DOMAIN Asked = 1..4 /\ Len(Asked) = 4
    /\ "none" \notin Threads
    /\ Checks \subseteq Threads
<1>1. DOMAIN Asked = 1..4 /\ Len(Asked) = 4
  BY DEF Asked
<1>2. \A i \in DOMAIN Asked : Asked[i] # "none"
  BY DEF Asked
<1> QED
  BY <1>1, <1>2, ChecksAssumption DEF Workers, Threads

\* A step that moves no check to or from a thread keeps the sets of its lookers.
LEMMA SameLookers ==
    ASSUME \A h \in Checks : check'[h].on = check[h].on
    PROVE  \A t : Lookers(t)' = Lookers(t)
  BY DEF Lookers

-----------------------------------------------------------------------------
(* The steps *)

\* Every variable starts with a value of its type, and nobody is suspended.
LEMMA InitInv == Init => Inv
<1> SUFFICES ASSUME Init PROVE Inv
  OBVIOUS
<1>1. TypeInv
  <2>1. probe \in Seq(Nat) /\ Len(probe) = 0
    BY DEF Init
  <2> QED
    BY <2>1 DEF Init, TypeInv, NoCheck, CheckStates
<1>2. CheckInv
  BY ThreadNames DEF Init, CheckInv, NoCheck, Looking
<1>3. \A t \in Threads : Lookers(t) = {}
  BY ThreadNames DEF Init, Lookers, NoCheck
<1>4. \A t \in Threads : count[t] = 0 /\ ~Probed(t)
  BY DEF Init, Probed
<1>5. CountInv
  BY <1>3, <1>4, FS_EmptySet DEF CountInv
<1> QED
  BY <1>1, <1>2, <1>5 DEF Inv

\* A step that moves no check to or from a thread, and main() neither, keeps the counts.
LEMMA SameKeep ==
    ASSUME CountInv, \A h \in Checks : check'[h].on = check[h].on,
           UNCHANGED <<count, probe>>, end' = "suspended" <=> end = "suspended"
    PROVE  CountInv'
<1>1. \A t : Lookers(t)' = Lookers(t)
  BY SameLookers
<1> QED
  BY <1>1 DEF CountInv, Probed

\* A step that touches neither the checks nor the counts nor the probe of main().
LEMMA Quiet ==
    ASSUME Inv, UNCHANGED <<check, count, probe>>, stage' = "start" => stage = "start",
           end' = "suspended" <=> end = "suspended"
    PROVE  Inv'
<1>1. CountInv'
  BY SameKeep DEF Inv
<1> QED
  BY <1>1 DEF Inv, TypeInv, CheckInv

\* Every step keeps the invariant.
LEMMA InvStep == Inv /\ [Next]_vars => Inv'
<1> SUFFICES ASSUME Inv, [Next]_vars PROVE Inv'
  OBVIOUS
<1>a. TypeInv /\ CheckInv /\ CountInv
  BY DEF Inv
<1>b. \A t \in Threads :
        count[t] \in Nat /\ IsFiniteSet(Lookers(t)) /\ Cardinality(Lookers(t)) \in Nat
  BY <1>a, LookersFinite DEF TypeInv
<1>1. CASE LoopHead
  <2>1. UNCHANGED <<count, probe, stage, end>>
    BY <1>1 DEF LoopHead, mainVars
  <2>2. CASE UNCHANGED check
    BY <2>1, <2>2, Quiet
  <2>3. CASE \E h \in Checks :
               check[h] = NoCheck /\ check' = [check EXCEPT ![h].at = "snapshot"]
    <3>1. PICK h \in Checks :
            check[h] = NoCheck /\ check' = [check EXCEPT ![h].at = "snapshot"]
      BY <2>3
    <3>2. check' = [check EXCEPT ![h] = [at |-> "snapshot", on |-> "none", left |-> {}]]
      <4>1. [NoCheck EXCEPT !.at = "snapshot"] =
            [at |-> "snapshot", on |-> "none", left |-> {}]
        BY DEF NoCheck
      <4>2. check' = [check EXCEPT ![h] = [check[h] EXCEPT !.at = "snapshot"]]
        BY <3>1
      <4> QED
        BY <3>1, <4>1, <4>2
    <3>3. \A k \in Checks : check'[k].on = check[k].on
      BY <3>1, <3>2, <1>a DEF TypeInv, NoCheck
    <3>4. TypeInv' /\ CheckInv'
      BY <2>1, <3>2, <1>a, ThreadNames DEF TypeInv, CheckInv, Looking, CheckStates
    <3> QED
      BY <2>1, <3>3, <3>4, <1>a, SameKeep DEF Inv
  <2> QED
    BY <1>1, <2>2, <2>3 DEF LoopHead
<1>2. CASE \E h \in Checks : Snapshot(h)
  <2>1. PICK h \in Checks : Snapshot(h)
    BY <1>2
  <2>2. PICK at \in {"next", "idle"}, left \in SUBSET Threads :
          check' = [check EXCEPT ![h] = [at |-> at, on |-> "none", left |-> left]]
    BY <2>1 DEF Snapshot, NoCheck, Living
  <2>3. check[h].at = "snapshot" /\ UNCHANGED <<count, probe, stage, end>>
    BY <2>1 DEF Snapshot, mainVars
  <2>4. check[h].on = "none"
    BY <2>3, <1>a DEF TypeInv, CheckInv, Looking
  <2>5. \A k \in Checks : check'[k].on = check[k].on
    BY <2>2, <2>4, <1>a DEF TypeInv
  <2>6. TypeInv' /\ CheckInv'
    BY <2>2, <2>3, <1>a, ThreadNames DEF TypeInv, CheckInv, Looking, CheckStates
  <2> QED
    BY <2>3, <2>5, <2>6, <1>a, SameKeep DEF Inv
<1>3. CASE \E h \in Checks : SkipThread(h)
  <2>0. PICK h \in Checks : SkipThread(h)
    BY <1>3
  <2>1. /\ TypeInv' /\ CheckInv' /\ UNCHANGED <<count, probe, stage, end>>
        /\ \A k \in Checks : check'[k].on = check[k].on
    BY <2>0, <1>a, ThreadNames
    DEF SkipThread, mainVars, TypeInv, CheckInv, Looking, CheckStates
  <2> QED
    BY <2>1, <1>a, SameKeep DEF Inv
<1>4. CASE \E h \in Checks : FlagRegisters(h)
  <2>0. PICK h \in Checks : FlagRegisters(h)
    BY <1>4
  <2>1. /\ TypeInv' /\ CheckInv' /\ UNCHANGED <<count, probe, stage, end>>
        /\ \A k \in Checks : check'[k].on = check[k].on
    BY <2>0, <1>a, ThreadNames
    DEF FlagRegisters, NoCheck, mainVars, TypeInv, CheckInv, Looking, CheckStates
  <2> QED
    BY <2>1, <1>a, SameKeep DEF Inv
<1>5. CASE \E h \in Checks : CheckEnds(h)
  <2>0. PICK h \in Checks : CheckEnds(h)
    BY <1>5
  <2>1. /\ TypeInv' /\ CheckInv' /\ UNCHANGED <<count, probe, stage, end>>
        /\ \A k \in Checks : check'[k].on = check[k].on
    BY <2>0, <1>a, ThreadNames
    DEF CheckEnds, NoCheck, mainVars, TypeInv, CheckInv, Looking, CheckStates
  <2> QED
    BY <2>1, <1>a, SameKeep DEF Inv
<1>6. CASE \E h \in Checks : SuspendNext(h)
  <2>1. PICK h \in Checks : SuspendNext(h)
    BY <1>6
  <2>2. PICK t \in check[h].left, seen \in Looking :
          /\ check[h].at = "next"
          /\ check' = [check EXCEPT ![h] = [at |-> seen, on |-> t, left |-> @.left \ {t}]]
          /\ count' = [count EXCEPT ![t] = @ + 1]
          /\ UNCHANGED <<probe, stage, end>>
    BY <2>1 DEF SuspendNext, mainVars, Looking
  <2>3. t \in Threads /\ check[h].on = "none"
    BY <2>2, <1>a DEF TypeInv, CheckInv, Looking
  <2>4. TypeInv' /\ CheckInv'
    BY <2>2, <2>3, <1>a DEF TypeInv, CheckInv, Looking, CheckStates
  <2>5. /\ Lookers(t)' = Lookers(t) \cup {h} /\ h \notin Lookers(t)
        /\ \A u \in Threads \ {t} : Lookers(u)' = Lookers(u)
    BY <2>2, <2>3, <1>a, ThreadNames DEF TypeInv, Lookers
  <2>6. Cardinality(Lookers(t)') = Cardinality(Lookers(t)) + 1
    <3>1. IsFiniteSet(Lookers(t))
      BY <2>3, <1>b
    <3>2. Cardinality(Lookers(t) \cup {h}) =
            IF h \in Lookers(t) THEN Cardinality(Lookers(t)) ELSE Cardinality(Lookers(t)) + 1
      BY <3>1, FS_AddElement
    <3> QED
      BY <2>5, <3>2
  <2>7. /\ count'[t] = count[t] + 1
        /\ \A u \in Threads \ {t} : count'[u] = count[u]
        /\ \A u \in Threads : Probed(u)' <=> Probed(u)
    BY <2>2, <2>3, <1>a DEF TypeInv, Probed
  <2>8. ASSUME NEW u \in Threads
        PROVE  count'[u] = Cardinality(Lookers(u)') + (IF Probed(u)' THEN 1 ELSE 0)
    <3>1. CASE u = t
      BY <3>1, <2>3, <2>6, <2>7, <1>a, <1>b DEF CountInv
    <3>2. CASE u # t
      BY <3>2, <2>5, <2>7, <1>a DEF CountInv
    <3> QED
      BY <3>1, <3>2
  <2>9. CountInv'
    BY <2>8 DEF CountInv
  <2> QED
    BY <2>4, <2>9 DEF Inv
<1>7. CASE \E h \in Checks : ResumeThread(h)
  <2>1. PICK h \in Checks : ResumeThread(h)
    BY <1>7
  <2>2. PICK t \in Threads, after \in {"flag", "next"} :
          /\ check[h].at \in Looking /\ check[h].on = t
          /\ check' = [check EXCEPT ![h] =
                         [at |-> after, on |-> "none", left |-> check[h].left]]
          /\ count' = [count EXCEPT ![t] = @ - 1]
          /\ UNCHANGED <<probe, stage, end>>
    <3>1. check[h].at \in Looking /\ check[h].on \in Threads
      BY <2>1, <1>a DEF ResumeThread, Looking, CheckInv
    <3> QED
      BY <2>1, <3>1 DEF ResumeThread, mainVars
  <2>3. h \in Lookers(t)
    BY <2>2 DEF Lookers
  <2>4. ASSUME NEW u \in Threads
        PROVE  Lookers(u)' = IF u = t THEN Lookers(u) \ {h} ELSE Lookers(u)
    BY <2>2, <1>a, ThreadNames DEF TypeInv, Lookers
  <2>5. Cardinality(Lookers(t)') = Cardinality(Lookers(t)) - 1
    <3>1. Cardinality(Lookers(t) \ {h}) = Cardinality(Lookers(t)) - 1
      BY <2>3, <1>b, FS_RemoveElement
    <3> QED
      BY <3>1, <2>4
  <2>6. count[t] - 1 \in Nat
    <3>1. Cardinality(Lookers(t)) # 0
      BY <2>3, <1>b, FS_EmptySet
    <3> QED
      BY <3>1, <1>a, <1>b DEF CountInv
  <2>7. TypeInv' /\ CheckInv'
    BY <2>2, <2>6, <1>a, ThreadNames DEF TypeInv, CheckInv, Looking, CheckStates
  <2>8. /\ count'[t] = count[t] - 1
        /\ \A u \in Threads \ {t} : count'[u] = count[u]
        /\ \A u \in Threads : Probed(u)' <=> Probed(u)
    BY <2>2, <1>a DEF TypeInv, Probed
  <2>9. ASSUME NEW u \in Threads
        PROVE  count'[u] = Cardinality(Lookers(u)') + (IF Probed(u)' THEN 1 ELSE 0)
    <3>1. CASE u = t
      BY <3>1, <2>5, <2>8, <1>a, <1>b DEF CountInv
    <3>2. CASE u # t
      BY <3>2, <2>4, <2>8, <1>a DEF CountInv
    <3> QED
      BY <3>1, <3>2
  <2>10. CountInv'
    BY <2>9 DEF CountInv
  <2> QED
    BY <2>7, <2>10 DEF Inv
<1>8. CASE ProbeSuspends
  <2> DEFINE t == Asked[probe[1]]
  <2>1. /\ Len(probe) = 1 /\ end = "alive" /\ stage' = stage /\ stage = "probe"
        /\ probe' = Append(probe, count[t]) /\ count' = [count EXCEPT ![t] = @ + 1]
        /\ UNCHANGED <<check, end>>
    BY <1>8 DEF ProbeSuspends, Runs
  <2>2. t \in Threads
    BY <2>1, <1>a, ThreadNames DEF TypeInv
  <2>3. probe' \in Seq(Nat) /\ Len(probe') = 2 /\ probe'[1] = probe[1]
    <3>1. probe \in Seq(Nat) /\ Len(probe) = 1 /\ count[t] \in Nat
      BY <2>1, <2>2, <1>a DEF TypeInv
    <3>2. /\ Append(probe, count[t]) \in Seq(Nat) /\ Len(Append(probe, count[t])) = Len(probe) + 1
          /\ \A i \in 1..Len(probe) : Append(probe, count[t])[i] = probe[i]
      BY <3>1, Appended
    <3>3. Len(Append(probe, count[t])) = 2 /\ Append(probe, count[t])[1] = probe[1]
      BY <3>1, <3>2
    <3> QED
      BY <2>1, <3>2, <3>3
  <2>4. TypeInv' /\ CheckInv'
    BY <2>1, <2>2, <2>3, <1>a DEF TypeInv, CheckInv
  <2>5. \A u : Lookers(u)' = Lookers(u)
    BY <2>1 DEF Lookers
  <2>6. \A u \in Threads : ~Probed(u) /\ (Probed(u)' <=> u = t)
    BY <2>1, <2>3 DEF Probed
  <2>7. CountInv'
    BY <2>1, <2>2, <2>5, <2>6, <1>a, <1>b DEF TypeInv, CountInv
  <2> QED
    BY <2>4, <2>7 DEF Inv
<1>9. CASE ProbeResumes
  <2> DEFINE t == Asked[probe[1]]
  <2>1. /\ Len(probe) = 2 /\ end = "alive" /\ stage' # "start"
        /\ count' = [count EXCEPT ![t] = @ - 1] /\ check' = check
        /\ \/ end' = "suspended" /\ probe' = probe
           \/ end' = end /\ probe' = NextProbe
    BY <1>9 DEF ProbeResumes, Runs
  <2>2. t \in Threads /\ Probed(t)
    BY <2>1, <1>a, ThreadNames DEF TypeInv, Probed
  <2>3. count[t] - 1 \in Nat
    BY <2>2, <1>a, <1>b DEF CountInv
  <2>4. /\ NextProbe \in Seq(Nat) /\ Len(NextProbe) < 2
        /\ Len(NextProbe) > 0 => NextProbe[1] \in DOMAIN Asked
    <3>1. probe[1] \in 1..4
      BY <2>1, <1>a, ThreadNames DEF TypeInv
    <3>2. CASE probe[1] = 4
      BY <3>2, ThreadNames DEF NextProbe
    <3>3. CASE probe[1] # 4
      <4>1. NextProbe = <<probe[1] + 1>> /\ probe[1] + 1 \in 1..4
        BY <3>1, <3>3, ThreadNames DEF NextProbe
      <4> QED
        BY <4>1, ThreadNames
    <3> QED
      BY <3>2, <3>3
  <2>5. TypeInv' /\ CheckInv'
    BY <2>1, <2>3, <2>4, <1>a DEF TypeInv, CheckInv
  <2>6. \A u : Lookers(u)' = Lookers(u)
    BY <2>1 DEF Lookers
  <2>7. \A u \in Threads : ~Probed(u)' /\ (Probed(u) <=> u = t)
    BY <2>1, <2>4 DEF Probed
  <2>8. CountInv'
    BY <2>1, <2>2, <2>6, <2>7, <1>a, <1>b DEF TypeInv, CountInv
  <2> QED
    BY <2>5, <2>8 DEF Inv
<1>10. CASE StartAntiDebugThread
  <2>1. /\ probe' = <<1>> /\ probe = <<>> /\ stage' = "probe"
        /\ UNCHANGED <<check, count, end>> /\ end = "alive"
    BY <1>10, <1>a DEF StartAntiDebugThread, checkVars, Runs, TypeInv
  <2>2. <<1>> \in Seq(Nat) /\ Len(<<1>>) = 1 /\ <<1>>[1] = 1
    OBVIOUS
  <2>3. TypeInv' /\ CheckInv'
    BY <2>1, <2>2, <1>a, ThreadNames DEF TypeInv, CheckInv
  <2>4. \A u \in Threads : ~Probed(u) /\ ~Probed(u)' /\ Lookers(u)' = Lookers(u)
    BY <2>1, <2>2 DEF Probed, Lookers
  <2>5. CountInv'
    BY <2>1, <2>4, <1>a DEF CountInv
  <2> QED
    BY <2>3, <2>5 DEF Inv
<1>11. CASE WaitEnds
  BY <1>11, Quiet DEF WaitEnds, checkVars, mainVars, Runs
<1>12. CASE RunDetectionFunctions
  BY <1>12, Quiet DEF RunDetectionFunctions, checkVars, mainVars, Runs
<1>13. CASE Sleep
  BY <1>13, Quiet DEF Sleep, checkVars, mainVars, Runs
<1>14. CASE Attach
  BY <1>14, Quiet DEF Attach, checkVars, mainVars, Runs
<1>15. CASE SignalShutdown
  BY <1>15, Quiet DEF SignalShutdown, checkVars, mainVars, Runs
<1>16. CASE JoinThread
  BY <1>16, Quiet DEF JoinThread, checkVars, mainVars, Runs
<1>17. CASE \E p \in Workers, l \in Locks : Acquire(p, l) \/ Release(p, l)
  BY <1>17, Quiet DEF Acquire, Release, checkVars, mainVars
<1>18. CASE UNCHANGED vars
  BY <1>18, Quiet DEF vars
<1> QED
  BY <1>1, <1>2, <1>3, <1>4, <1>5, <1>6, <1>7, <1>8, <1>9, <1>10,
     <1>11, <1>12, <1>13, <1>14, <1>15, <1>16, <1>17, <1>18
  DEF Next, Main, CheckForDebugger, Check, Over

-----------------------------------------------------------------------------

\* Between the checks every thread runs: a thread is suspended exactly as often as there are
\* checks that look at it (_IsHardwareDebuggerPresent), and once more while main() asks for
\* its count (Thread::IsThreadSuspended).
THEOREM SuspensionsAreTakenBack == Spec => []IdleMeansRunning
<1>1. Init => Inv
  BY InitInv
<1>2. Inv /\ [Next]_vars => Inv'
  BY InvStep
<1>3. Inv => IdleMeansRunning
  <2> SUFFICES ASSUME Inv, \A h \in Checks : check[h].on = "none", Len(probe) < 2,
                      NEW t \in Threads
               PROVE  count[t] = 0
    BY DEF IdleMeansRunning
  <2>1. Lookers(t) = {}
    BY ThreadNames DEF Lookers
  <2>2. ~Probed(t)
    BY DEF Probed
  <2> QED
    BY <2>1, <2>2, FS_EmptySet DEF Inv, CountInv
<1> QED
  BY <1>1, <1>2, <1>3, PTL DEF Spec

=============================================================================

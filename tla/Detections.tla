----------------------------- MODULE Detections -----------------------------
(***************************************************************************)
(* How a detection of the client reaches the server: the threads that      *)
(* detect (Detections.cpp, AntiDebugger.cpp), the evidence locker they     *)
(* share (EvidenceLocker.cpp), the two threads that push its contents, and *)
(* the main loop that ends the process as soon as it holds a flag           *)
(* (main.cpp).  The locker takes its mutex for insertions only, so a step  *)
(* is one access to one of its lists.                                      *)
(***************************************************************************)
EXTENDS Integers, Sequences, FiniteSets, Functions

CONSTANTS
    Flags,
    Modules, UnsignedModules,   \* paths of DLLs, those without a signature
    Injected,                   \* INJECTED_ILLEGAL_PROGRAM
    Found,          \* Found[t]: the detections thread t may come across
    LateFound,      \* those of the monitor thread after it started a push
    Direct,         \* the flags the monitor thread sends itself as well
    NoData

\* The detecting threads in the order main() and API::Cleanup join them.
JoinOrder == <<"antidebug", "monitor", "creation", "registry">>
Threads == Range(JoinOrder)
Pushers == {"async", "main"}

Detection(flag, data) == [flag |-> flag, data |-> data]
Reportable ==
    (UNION {Found[t] : t \in Threads}) \cup LateFound
        \cup {Detection(Injected, m) : m \in Modules}
Data == {d.data : d \in Reportable} \ {NoData}

\* Evidence names what was found (a path, a process, an address), so that no two threads
\* and no two flags have the same.
ASSUME DetectionsAssumption ==
    /\ Injected \in Flags /\ Direct \subseteq Flags
    /\ UnsignedModules \subseteq Modules /\ NoData \notin Modules
    /\ DOMAIN Found = Threads
    /\ \A d \in Reportable : d.flag \in Flags
    /\ \A d, e \in Reportable : d.data = e.data /\ d.data # NoData => d = e
    /\ \A d \in Found["monitor"] \cup LateFound : d.data = NoData \/ d.data \notin Modules

VARIABLES
    flaggedList, sentFlags, hasEvidenceData, evidenceData, alreadySentEvidence,
    adding,         \* per detecting thread: its step in AddFlagged, what it adds
    stage, todo,    \* where the monitor loop is, what it still reports there
    queue, loaded,  \* DLLVerificationQueue; the modules the loader has reported
    push,           \* per pusher: its step in PushAllEvidence and its iterators
    main,           \* the step of main()
    joined,         \* how many threads of JoinOrder main() has joined
    shutdown, ended,    \* threads that are to end, that have ended
    lost,           \* the connection to the server is gone
    reported,       \* what the server was told
    due             \* history: what the locker held when main() began to push

locker == <<flaggedList, sentFlags, hasEvidenceData, evidenceData, alreadySentEvidence>>
monitorVars == <<stage, todo>>
dllVars == <<queue, loaded>>
mainVars == <<main, joined, shutdown, due>>
vars == <<locker, adding, monitorVars, dllVars, push, mainVars, ended, lost, reported>>

-----------------------------------------------------------------------------

Idle == [at |-> "no", what |-> Detection(Injected, NoData)]
Resting == [at |-> "no", flag |-> 1, evidence |-> 1]

\* A thread that can find nothing is not there: anti-debugging is switched off, a query of
\* Windows failed when the thread began.
Working == {t \in Threads : t = "monitor" \/ Found[t] # {}}

\* The threads run, main() still prepares and launches the game.
Init ==
    /\ flaggedList = <<>> /\ evidenceData = <<>>
    /\ sentFlags = {} /\ hasEvidenceData = {} /\ alreadySentEvidence = {}
    /\ adding = [t \in Threads |-> Idle]
    /\ stage = "head" /\ todo = {}
    /\ queue = <<>> /\ loaded = {}
    /\ push = [p \in Pushers |-> Resting]
    /\ main = "starting" /\ joined = 0 /\ shutdown = {} /\ due = {}
    /\ ended = Threads \ Working
    /\ lost = FALSE
    /\ reported = {}

Locked == {"unsent", "keep"}
Running == main # "exited"
Flagged == Range(flaggedList)
ReportedFlags == {d.flag : d \in reported}

-----------------------------------------------------------------------------
(* AddFlagged, by thread t.  The search takes no lock. *)

Add(t, d) == adding' = [adding EXCEPT ![t] = [at |-> "find", what |-> d]]
AddStep(t, step) == adding' = [adding EXCEPT ![t] = [@ EXCEPT !.at = step]]
Return(t) == adding' = [adding EXCEPT ![t] = Idle]
\* The monitor thread sends some flags itself, after it has added them.
Added(t) ==
    IF t = "monitor" /\ adding[t].what.flag \in Direct /\ adding[t].what.data = NoData
    THEN AddStep(t, "direct") ELSE Return(t)
addRest == <<monitorVars, dllVars, push, mainVars, ended, lost>>

\* With evidence, the evidence decides whether the detection is a duplicate.
IsDuplicate(d) ==
    IF d.data = NoData THEN d.flag \in Flagged
    ELSE \E i \in DOMAIN evidenceData : evidenceData[i].data = d.data

Search(t) ==
    /\ Running /\ adding[t].at = "find"
    /\ IF IsDuplicate(adding[t].what) THEN Added(t) ELSE AddStep(t, "push")
    /\ UNCHANGED <<locker, reported>> /\ UNCHANGED addRest

\* EvidenceListMutex is held from the insertion of the flag to the last step.
MutexFree == \A t \in Threads : adding[t].at \notin Locked

PushFlag(t) ==
    /\ Running /\ adding[t].at = "push" /\ MutexFree
    /\ flaggedList' = Append(flaggedList, adding[t].what.flag)
    /\ AddStep(t, "unsent")
    /\ UNCHANGED <<sentFlags, hasEvidenceData, evidenceData, alreadySentEvidence>>
    /\ UNCHANGED reported /\ UNCHANGED addRest

ClearSent(t) ==
    /\ Running /\ adding[t].at = "unsent"
    /\ sentFlags' = sentFlags \ {adding[t].what.flag}
    /\ IF adding[t].what.data = NoData THEN Added(t) ELSE AddStep(t, "keep")
    /\ UNCHANGED <<flaggedList, hasEvidenceData, evidenceData, alreadySentEvidence>>
    /\ UNCHANGED reported /\ UNCHANGED addRest

AddEvidence(t) ==
    /\ Running /\ adding[t].at = "keep"
    /\ evidenceData' = Append(evidenceData, adding[t].what)
    /\ hasEvidenceData' = hasEvidenceData \cup {adding[t].what.flag}
    /\ Added(t)
    /\ UNCHANGED <<flaggedList, sentFlags, alreadySentEvidence>>
    /\ UNCHANGED reported /\ UNCHANGED addRest

Told(d) == reported' = IF lost THEN reported ELSE reported \cup {d}

\* NetClient::FlagCheater, which the monitor thread also calls itself for some flags.
FlagCheater(t) ==
    /\ Running /\ adding[t].at = "direct"
    /\ Told(adding[t].what)
    /\ Return(t)
    /\ UNCHANGED locker /\ UNCHANGED addRest

AddFlagged(t) ==
    \/ Search(t) \/ PushFlag(t) \/ ClearSent(t) \/ AddEvidence(t) \/ FlagCheater(t)

-----------------------------------------------------------------------------
(* PushAllEvidence, by pusher p.  It walks the lists while others append to them. *)

At(p, step) == push' = [push EXCEPT ![p] = [@ EXCEPT !.at = step]]
NextFlag(p) == push' = [push EXCEPT ![p] = [at |-> "flag", flag |-> @.flag + 1, evidence |-> 1]]
NextEvidence(p) ==
    push' = [push EXCEPT ![p] =
                 [at |-> "evidence", flag |-> @.flag, evidence |-> @.evidence + 1]]
pushRest == <<adding, monitorVars, dllVars, mainVars, ended, lost>>

PushedFlag(p) == flaggedList[push[p].flag]
PushedEvidence(p) == evidenceData[push[p].evidence]

\* Variant: a flag that was sent ends the push.
PushStopsAtSent(p) ==
    /\ Running /\ push[p].at = "flag" /\ push[p].flag <= Len(flaggedList)
    /\ IF PushedFlag(p) \in sentFlags
       THEN push' = [push EXCEPT ![p] = [@ EXCEPT !.flag = Len(flaggedList) + 1]]
       ELSE At(p, "kind")
    /\ UNCHANGED <<locker, reported>> /\ UNCHANGED pushRest

PushNextFlag(p) ==
    /\ Running /\ push[p].at = "flag" /\ push[p].flag <= Len(flaggedList)
    /\ IF PushedFlag(p) \in sentFlags THEN NextFlag(p) ELSE At(p, "kind")
    /\ UNCHANGED <<locker, reported>> /\ UNCHANGED pushRest

PushKind(p) ==
    /\ Running /\ push[p].at = "kind"
    /\ At(p, IF PushedFlag(p) \in hasEvidenceData THEN "evidence" ELSE "sendFlag")
    /\ UNCHANGED <<locker, reported>> /\ UNCHANGED pushRest

\* Variant: the result of the send is not looked at.
SendFlagBlindly(p) ==
    /\ Running /\ push[p].at = "sendFlag"
    /\ Told(Detection(PushedFlag(p), NoData))
    /\ At(p, "markFlag")
    /\ UNCHANGED locker /\ UNCHANGED pushRest

\* SendFlag.  AddFlagged finds the flag, as nothing leaves the list, so it is sent.
SendFlag(p) ==
    /\ Running /\ push[p].at = "sendFlag"
    /\ Told(Detection(PushedFlag(p), NoData))
    /\ IF lost THEN NextFlag(p) ELSE At(p, "markFlag")
    /\ UNCHANGED locker /\ UNCHANGED pushRest

MarkFlag(p) ==
    /\ Running /\ push[p].at = "markFlag"
    /\ sentFlags' = sentFlags \cup {PushedFlag(p)}
    /\ NextFlag(p)
    /\ UNCHANGED <<flaggedList, hasEvidenceData, evidenceData, alreadySentEvidence>>
    /\ UNCHANGED reported /\ UNCHANGED pushRest

PushNextEvidence(p) ==
    /\ Running /\ push[p].at = "evidence"
    /\ \/ /\ push[p].evidence > Len(evidenceData)
          /\ NextFlag(p)
       \/ /\ push[p].evidence <= Len(evidenceData)
          /\ IF /\ PushedEvidence(p).flag = PushedFlag(p)
                /\ PushedEvidence(p).data \notin alreadySentEvidence
             THEN At(p, "sendEvidence") ELSE NextEvidence(p)
    /\ UNCHANGED <<locker, reported>> /\ UNCHANGED pushRest

\* FlagWithData
SendEvidence(p) ==
    /\ Running /\ push[p].at = "sendEvidence"
    /\ Told(PushedEvidence(p))
    /\ IF lost THEN NextEvidence(p) ELSE At(p, "markEvidence")
    /\ UNCHANGED locker /\ UNCHANGED pushRest

MarkSentEvidence(p) ==
    /\ Running /\ push[p].at = "markEvidence"
    /\ alreadySentEvidence' = alreadySentEvidence \cup {PushedEvidence(p).data}
    /\ NextEvidence(p)
    /\ UNCHANGED <<flaggedList, sentFlags, hasEvidenceData, evidenceData>>
    /\ UNCHANGED reported /\ UNCHANGED pushRest

\* At the end of the list the asynchronous task is over, main() ends the process.
PushEnds(p) ==
    /\ Running /\ push[p].at = "flag" /\ push[p].flag > Len(flaggedList)
    /\ push' = [push EXCEPT ![p] = Resting]
    /\ main' = IF p = "main" THEN "exited" ELSE main
    /\ UNCHANGED <<locker, reported, adding, monitorVars, dllVars, joined, shutdown, due,
                   ended, lost>>

PushAllEvidence(p) ==
    \/ PushNextFlag(p) \/ PushKind(p) \/ SendFlag(p) \/ MarkFlag(p)
    \/ PushNextEvidence(p) \/ SendEvidence(p) \/ MarkSentEvidence(p) \/ PushEnds(p)

-----------------------------------------------------------------------------
(* The detecting threads *)

Free(t) == Running /\ t \notin ended /\ adding[t].at = "no"
StartPush(p) == push' = [push EXCEPT ![p] = [at |-> "flag", flag |-> 1, evidence |-> 1]]
detectRest == <<locker, mainVars, lost, reported>>

\* Variant: the monitor does not look at its shutdown flag.
MonitorNeverEnds ==
    /\ Free("monitor") /\ stage = "head"
    /\ stage' = "modules"
    /\ UNCHANGED <<todo, adding, push, dllVars, ended>> /\ UNCHANGED detectRest

\* The head of the loop of Detections::Monitor.
MonitorHead ==
    /\ Free("monitor") /\ stage = "head"
    /\ \/ /\ "monitor" \in shutdown
          /\ ended' = ended \cup {"monitor"}
          /\ UNCHANGED stage
       \/ /\ "monitor" \notin shutdown
          /\ stage' = "modules"
          /\ UNCHANGED ended
    /\ UNCHANGED <<todo, adding, push, dllVars>> /\ UNCHANGED detectRest

\* CheckDLLSignature takes modules off the queue until it is empty.
CheckDLLSignature ==
    /\ Free("monitor") /\ stage = "modules"
    /\ \/ /\ queue # <<>>
          /\ queue' = Tail(queue)
          /\ IF Head(queue) \in UnsignedModules
             THEN Add("monitor", Detection(Injected, Head(queue))) ELSE UNCHANGED adding
          /\ UNCHANGED <<stage, todo>>
       \/ /\ queue = <<>>
          /\ stage' = "detect"
          /\ todo' \in SUBSET Found["monitor"]
          /\ UNCHANGED <<queue, adding>>
    /\ UNCHANGED <<loaded, push, ended>> /\ UNCHANGED detectRest

\* The detections of one round, before the push starts and after.
MonitorDetects ==
    /\ Free("monitor") /\ stage \in {"detect", "integrity"}
    /\ \E d \in todo : Add("monitor", d) /\ todo' = todo \ {d}
    /\ UNCHANGED <<stage, push, dllVars, ended>> /\ UNCHANGED detectRest

\* Variant: std::launch::deferred, whose task nobody asks for.
MonitorDefersPush ==
    /\ Free("monitor") /\ stage = "detect" /\ todo = {}
    /\ stage' = "integrity"
    /\ todo' \in SUBSET LateFound
    /\ UNCHANGED <<adding, push, dllVars, ended>> /\ UNCHANGED detectRest

\* std::async(PushAllEvidence), then the checks of the monitor's own code.
MonitorPushes ==
    /\ Free("monitor") /\ stage = "detect" /\ todo = {}
    /\ StartPush("async")
    /\ stage' = "integrity"
    /\ todo' \in SUBSET LateFound
    /\ UNCHANGED <<adding, dllVars, ended>> /\ UNCHANGED detectRest

\* The future goes out of scope at the end of the round and waits for its task.
MonitorWaits ==
    /\ Free("monitor") /\ stage = "integrity" /\ todo = {} /\ push["async"].at = "no"
    /\ stage' = "head"
    /\ UNCHANGED <<todo, adding, push, dllVars, ended>> /\ UNCHANGED detectRest

\* The threads for debuggers, new processes and the registry: CheckForDebugger,
\* MonitorProcessCreation, MonitorImportantRegistryKeys.
Watch(t) ==
    /\ t # "monitor" /\ Free(t) /\ t \notin shutdown
    /\ \E d \in Found[t] : Add(t, d)
    /\ UNCHANGED <<monitorVars, push, dllVars, ended>> /\ UNCHANGED detectRest

WatchEnds(t) ==
    /\ t # "monitor" /\ Free(t) /\ t \in shutdown
    /\ ended' = ended \cup {t}
    /\ UNCHANGED <<monitorVars, adding, push, dllVars>> /\ UNCHANGED detectRest

\* OnDllNotification, on the thread that loads the module.  Bound: each module once.
OnDllNotification(m) ==
    /\ Running /\ m \notin loaded
    /\ queue' = Append(queue, m) /\ loaded' = loaded \cup {m}
    /\ UNCHANGED <<monitorVars, adding, push, ended>> /\ UNCHANGED detectRest

-----------------------------------------------------------------------------
(* main(), and the connection *)

mainRest == <<locker, adding, monitorVars, dllVars, ended, reported>>

MainStarts ==
    /\ main = "starting"
    /\ main' = "watching"
    /\ UNCHANGED <<joined, shutdown, due, push, lost>> /\ UNCHANGED mainRest

\* IsUserCheater
MainSees ==
    /\ main = "watching" /\ flaggedList # <<>>
    /\ main' = "pushing" /\ StartPush("main")
    /\ due' = {Detection(f, NoData) : f \in Flagged} \cup Range(evidenceData)
    /\ UNCHANGED <<joined, shutdown, lost>> /\ UNCHANGED mainRest

\* The user ends the program or the game was closed.
MainBreaks ==
    /\ main = "watching"
    /\ main' = "joining"
    /\ shutdown' = {JoinOrder[1]}
    /\ UNCHANGED <<joined, due, push, lost>> /\ UNCHANGED mainRest

\* The debugger thread is joined first, then the connection ends (EndConnection), then
\* API::Cleanup signals and joins one thread after the other.
MainJoins ==
    /\ main = "joining" /\ JoinOrder[joined + 1] \in ended
    /\ joined' = joined + 1
    /\ lost' = TRUE
    /\ IF joined' = Len(JoinOrder)
       THEN main' = "exited" /\ UNCHANGED shutdown
       ELSE shutdown' = shutdown \cup {JoinOrder[joined' + 1]} /\ UNCHANGED main
    /\ UNCHANGED <<due, push>> /\ UNCHANGED mainRest

\* The server closes the connection, as it does after a flag, or the network fails.
ConnectionLost ==
    /\ Running /\ ~lost
    /\ lost' = TRUE
    /\ UNCHANGED <<push, mainVars>> /\ UNCHANGED mainRest

\* ProcessRequests ends the process when it was not main() that closed the connection,
\* wherever its threads are.
ReceiveExits ==
    /\ Running /\ lost /\ joined = 0
    /\ main' = "exited"
    /\ adding' = [t \in Threads |-> Idle]
    /\ push' = [p \in Pushers |-> Resting]
    /\ stage' = "head" /\ todo' = {} /\ queue' = <<>>
    /\ UNCHANGED <<locker, loaded, joined, shutdown, ended, due, lost, reported>>

-----------------------------------------------------------------------------

MonitorStep ==
    \/ MonitorHead \/ CheckDLLSignature \/ MonitorDetects \/ MonitorPushes \/ MonitorWaits

\* What a thread does of itself.
Detecting(t) == AddFlagged(t) \/ WatchEnds(t) \/ (t = "monitor" /\ MonitorStep)
MainLoop == MainSees \/ PushAllEvidence("main") \/ MainJoins

Next ==
    \/ \E t \in Threads : Detecting(t) \/ Watch(t)
    \/ PushAllEvidence("async")
    \/ MainLoop \/ MainStarts \/ MainBreaks
    \/ \E m \in Modules : OnDllNotification(m)
    \/ ConnectionLost \/ ReceiveExits

Spec == Init /\ [][Next]_vars

\* Every thread runs.  Nothing need be found, loaded or lost, and no one need quit.
Fairness ==
    /\ \A t \in Working : WF_vars(Detecting(t))
    /\ WF_vars(PushAllEvidence("async")) /\ WF_vars(MainLoop)

FairSpec == Spec /\ Fairness

-----------------------------------------------------------------------------
(* Properties *)

\* What the locker holds for sent has been sent: a flag that was only tried is tried
\* again, whichever of the two pushers tried it and whatever was added meanwhile.
SentWasReported ==
    /\ sentFlags \subseteq ReportedFlags
    /\ alreadySentEvidence \subseteq {d.data : d \in reported}

\* Before main() ends the process because of a flag, it has told the server of every flag
\* it had found, unless the connection broke; the other pusher and the detecting threads
\* work on the same lists meanwhile.
ExitReports == main = "exited" /\ ~lost => {d.flag : d \in due} \subseteq ReportedFlags

\* Again and again the server knows every flag, whether main() looks at them yet or not,
\* while the connection lasts: no flag is marked as sent, or skipped, for good.
FlagIsReported == []<>(Flagged \subseteq ReportedFlags \/ lost \/ ~Running)

\* Once main() watches, a flag ends the process; and so does the user, as every thread
\* that is joined gets to the place where it sees that it is to end.
ProcessEnds ==
    main = "joining" \/ (main = "watching" /\ flaggedList # <<>>) ~> main = "exited"

=============================================================================

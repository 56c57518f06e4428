--------------------------- MODULE Detections_proofs ---------------------------
(* Proofs about Detections: for any detections of any of the threads, what    *)
(* the evidence locker holds for sent has been sent, whichever of the two     *)
(* pushers sent it, and main() tells the server of its flags before it ends.  *)
EXTENDS Detections, TLAPS

-----------------------------------------------------------------------------
(* Types, as far as the safety properties need them *)

What == Reportable \cup {Detection(Injected, NoData)}
PushSteps == {"no", "flag", "kind", "sendFlag", "markFlag", "evidence", "sendEvidence",
              "markEvidence"}

TypeInv ==
    /\ flaggedList \in Seq(Flags)
    /\ evidenceData \in Seq(Reportable)
    /\ push \in [Pushers -> [at : PushSteps, flag : Nat, evidence : Nat]]
    /\ todo \subseteq Found["monitor"] \cup LateFound

-----------------------------------------------------------------------------
(* The locker: what AddFlagged leaves in its lists *)

AddInv ==
    /\ adding \in [Threads -> [at : {"no", "find", "push", "unsent", "keep", "direct"},
                               what : What]]
    /\ \A t \in Threads : adding[t].at \in {"find", "push"} => adding[t].what \in Reportable
    /\ \A t \in Threads : adding[t].at \in Locked =>
          adding[t].what \in Reportable /\ adding[t].what.flag \in Flagged
    /\ \A t \in Threads : adding[t].at = "keep" => adding[t].what.data # NoData

LockerInv ==
    /\ \A j \in DOMAIN evidenceData :
          evidenceData[j].data # NoData /\ evidenceData[j].flag \in Flagged
    /\ \A f \in hasEvidenceData : \E j \in DOMAIN evidenceData : evidenceData[j].flag = f
    /\ \A d \in reported : d.data = NoData \/ d \in Reportable
    /\ SentWasReported

-----------------------------------------------------------------------------
(* A push: what it has passed is reported while the connection lasts *)

OnFlag == {"kind", "sendFlag", "markFlag", "evidence", "sendEvidence", "markEvidence"}
OnEvidence == {"evidence", "sendEvidence", "markEvidence"}
AtStart == {"flag", "kind", "sendFlag", "markFlag"}

PushInv(p) ==
    /\ push[p].at # "no" => push[p].flag \in 1..(Len(flaggedList) + 1)
    /\ push[p].at # "no" /\ ~lost =>
          \A i \in DOMAIN flaggedList : i < push[p].flag => flaggedList[i] \in ReportedFlags
    /\ push[p].at \in OnFlag => push[p].flag \in DOMAIN flaggedList
    /\ push[p].at = "markFlag" => PushedFlag(p) \in ReportedFlags
    /\ push[p].at # "no" => push[p].evidence \in 1..(Len(evidenceData) + 1)
    /\ push[p].at \in AtStart => push[p].evidence = 1
    /\ push[p].at \in OnEvidence =>
          \E j \in DOMAIN evidenceData : evidenceData[j].flag = PushedFlag(p)
    /\ push[p].at \in OnEvidence /\ ~lost =>
          \A j \in DOMAIN evidenceData :
              j < push[p].evidence /\ evidenceData[j].flag = PushedFlag(p)
                  => PushedFlag(p) \in ReportedFlags
    /\ push[p].at \in {"sendEvidence", "markEvidence"} =>
          push[p].evidence \in DOMAIN evidenceData /\ PushedEvidence(p).flag = PushedFlag(p)
    /\ push[p].at = "markEvidence" => PushedEvidence(p) \in reported

MainInv ==
    /\ main = "pushing" <=> push["main"].at # "no"
    /\ main = "pushing" => {d.flag : d \in due} \subseteq Flagged
    /\ ExitReports

Inv ==
    /\ TypeInv /\ AddInv /\ LockerInv
    /\ \A p \in Pushers : PushInv(p)
    /\ MainInv

-----------------------------------------------------------------------------
(* Lists that grow, and what is kept while they do *)

\* The threads and the two pushers, by name.
LEMMA Names ==
    /\ Threads = {"antidebug", "monitor", "creation", "registry"}
    /\ Pushers = {"async", "main"} /\ "monitor" \in Threads
<1>1. /\ JoinOrder[1] = "antidebug" /\ JoinOrder[2] = "monitor" /\ JoinOrder[3] = "creation"
      /\ JoinOrder[4] = "registry" /\ DOMAIN JoinOrder = 1..4
  BY DEF JoinOrder
<1>2. Threads = {JoinOrder[i] : i \in 1..4}
  BY <1>1 DEF Threads, Range
<1> QED
  BY <1>1, <1>2 DEF Pushers

\* What a thread may find is reportable.
LEMMA FoundIsReportable ==
    /\ \A t \in Threads : Found[t] \subseteq Reportable
    /\ LateFound \subseteq Reportable
    /\ \A m \in UnsignedModules : Detection(Injected, m) \in Reportable
    /\ \A d \in Reportable : d.flag \in Flags
    /\ \A d, e \in Reportable : d.data = e.data /\ d.data # NoData => d = e
<1>1. \A t \in Threads : Found[t] \subseteq Reportable
  BY DEF Reportable
<1>2. LateFound \subseteq Reportable
  BY DEF Reportable
<1>3. \A m \in UnsignedModules : Detection(Injected, m) \in Reportable
  BY DetectionsAssumption DEF Reportable
<1> QED
  BY <1>1, <1>2, <1>3, DetectionsAssumption

\* Appending keeps what is there.
LEMMA AppendKeeps ==
    ASSUME NEW S, NEW list \in Seq(S), NEW x \in S
    PROVE  /\ Append(list, x) \in Seq(S) /\ Len(Append(list, x)) = Len(list) + 1
           /\ \A i \in DOMAIN list : i \in DOMAIN Append(list, x) /\ Append(list, x)[i] = list[i]
           /\ \A i \in DOMAIN Append(list, x) : i \in DOMAIN list \/ Append(list, x)[i] = x
           /\ Len(list) + 1 \in DOMAIN Append(list, x) /\ Append(list, x)[Len(list) + 1] = x
  OBVIOUS

\* No step takes anything back.
Grows ==
    /\ flaggedList' \in Seq(Flags) /\ evidenceData' \in Seq(Reportable)
    /\ \A i \in DOMAIN flaggedList :
          i \in DOMAIN flaggedList' /\ flaggedList'[i] = flaggedList[i]
    /\ \A j \in DOMAIN evidenceData :
          j \in DOMAIN evidenceData' /\ evidenceData'[j] = evidenceData[j]
    /\ reported \subseteq reported' /\ (lost => lost')

\* What was flagged and reported stays so.
LEMMA GrowsMore ==
    ASSUME TypeInv, Grows
    PROVE  /\ Flagged \subseteq Flagged' /\ ReportedFlags \subseteq ReportedFlags'
           /\ DOMAIN flaggedList = 1..Len(flaggedList) /\ DOMAIN evidenceData = 1..Len(evidenceData)
           /\ DOMAIN flaggedList' = 1..Len(flaggedList')
           /\ DOMAIN evidenceData' = 1..Len(evidenceData')
           /\ Len(flaggedList) \in Nat /\ Len(evidenceData) \in Nat
           /\ Len(flaggedList') \in Nat /\ Len(evidenceData') \in Nat
           /\ Len(flaggedList) <= Len(flaggedList') /\ Len(evidenceData) <= Len(evidenceData')
<1>1. /\ DOMAIN flaggedList = 1..Len(flaggedList) /\ DOMAIN evidenceData = 1..Len(evidenceData)
      /\ Len(flaggedList) \in Nat /\ Len(evidenceData) \in Nat
  BY DEF TypeInv
<1>2. /\ DOMAIN flaggedList' = 1..Len(flaggedList') /\ DOMAIN evidenceData' = 1..Len(evidenceData')
      /\ Len(flaggedList') \in Nat /\ Len(evidenceData') \in Nat
  BY DEF Grows
<1>3. Len(flaggedList) <= Len(flaggedList')
  <2>1. CASE Len(flaggedList) = 0
    BY <1>2, <2>1
  <2>2. CASE Len(flaggedList) # 0
    BY <1>1, <1>2, <2>2 DEF Grows
  <2> QED
    BY <2>1, <2>2
<1>4. Len(evidenceData) <= Len(evidenceData')
  <2>1. CASE Len(evidenceData) = 0
    BY <1>2, <2>1
  <2>2. CASE Len(evidenceData) # 0
    BY <1>1, <1>2, <2>2 DEF Grows
  <2> QED
    BY <2>1, <2>2
<1>5. Flagged \subseteq Flagged'
  BY DEF Grows, Flagged, Range
<1>6. ReportedFlags \subseteq ReportedFlags'
  BY DEF Grows, ReportedFlags
<1> QED
  BY <1>1, <1>2, <1>3, <1>4, <1>5, <1>6

\* A pusher that does not move keeps its invariant, whatever is added and sent meanwhile.
LEMMA PushKept ==
    ASSUME TypeInv, NEW p \in Pushers, PushInv(p), Grows, push'[p] = push[p]
    PROVE  PushInv(p)'
<1>1. push[p].flag \in Nat /\ push[p].evidence \in Nat
  BY DEF TypeInv
<1>2. push[p].at \in OnFlag => PushedFlag(p)' = PushedFlag(p)
  BY DEF PushInv, PushedFlag, Grows
<1>3. push[p].evidence \in DOMAIN evidenceData => PushedEvidence(p)' = PushedEvidence(p)
  BY DEF PushedEvidence, Grows
<1>4. push[p].at # "no" =>
        push'[p].flag \in 1..(Len(flaggedList') + 1)
        /\ push'[p].evidence \in 1..(Len(evidenceData') + 1)
  BY <1>1, GrowsMore DEF PushInv
<1>5. push[p].at # "no" /\ ~lost' =>
        \A i \in DOMAIN flaggedList' : i < push'[p].flag => flaggedList'[i] \in ReportedFlags'
  <2> SUFFICES ASSUME push[p].at # "no", ~lost', NEW i \in DOMAIN flaggedList', i < push[p].flag
               PROVE  flaggedList'[i] \in ReportedFlags'
    OBVIOUS
  <2>1. i \in DOMAIN flaggedList
    BY <1>1, GrowsMore DEF PushInv
  <2> QED
    BY <2>1, GrowsMore DEF PushInv, Grows
<1>6. push[p].at \in OnFlag => push'[p].flag \in DOMAIN flaggedList'
  BY DEF PushInv, Grows
<1>7. push[p].at \in OnEvidence =>
        \E j \in DOMAIN evidenceData' : evidenceData'[j].flag = PushedFlag(p)'
  BY <1>2 DEF PushInv, Grows, OnFlag, OnEvidence
<1>8. push[p].at \in OnEvidence /\ ~lost' =>
        \A j \in DOMAIN evidenceData' :
            j < push'[p].evidence /\ evidenceData'[j].flag = PushedFlag(p)'
                => PushedFlag(p)' \in ReportedFlags'
  <2> SUFFICES ASSUME push[p].at \in OnEvidence, ~lost', NEW j \in DOMAIN evidenceData',
                      j < push[p].evidence, evidenceData'[j].flag = PushedFlag(p)'
               PROVE  PushedFlag(p)' \in ReportedFlags'
    OBVIOUS
  <2>1. j \in DOMAIN evidenceData
    BY <1>1, GrowsMore DEF PushInv, OnEvidence
  <2> QED
    BY <2>1, <1>2, GrowsMore DEF PushInv, Grows, OnEvidence, OnFlag
<1>9. push[p].at \in {"sendEvidence", "markEvidence"} =>
        push'[p].evidence \in DOMAIN evidenceData' /\ PushedEvidence(p)'.flag = PushedFlag(p)'
  BY <1>2, <1>3 DEF PushInv, Grows, OnFlag
<1>10. /\ push[p].at = "markFlag" => PushedFlag(p)' \in ReportedFlags'
       /\ push[p].at = "markEvidence" => PushedEvidence(p)' \in reported'
  BY <1>2, <1>3, GrowsMore DEF PushInv, Grows, OnFlag
<1> QED
  BY <1>4, <1>5, <1>6, <1>7, <1>8, <1>9, <1>10 DEF PushInv

\* A push begins at the first flag.
LEMMA PushStarts ==
    ASSUME NEW p \in Pushers, TypeInv, StartPush(p), Grows
    PROVE  /\ push' \in [Pushers -> [at : PushSteps, flag : Nat, evidence : Nat]]
           /\ push'[p].at = "flag" /\ PushInv(p)'
           /\ \A q \in Pushers : PushInv(q) => PushInv(q)'
<1>1. push' = [push EXCEPT ![p] = [at |-> "flag", flag |-> 1, evidence |-> 1]]
  BY DEF StartPush
<1>2. push' \in [Pushers -> [at : PushSteps, flag : Nat, evidence : Nat]]
  BY <1>1 DEF TypeInv, PushSteps
<1>3. push'[p] = [at |-> "flag", flag |-> 1, evidence |-> 1]
  BY <1>1 DEF TypeInv
<1>4. PushInv(p)'
  BY <1>3, GrowsMore DEF PushInv, OnFlag, OnEvidence
<1>5. ASSUME NEW q \in Pushers, q # p, PushInv(q) PROVE PushInv(q)'
  <2>1. push'[q] = push[q]
    BY <1>1, <1>5 DEF TypeInv
  <2> QED
    BY <2>1, <1>5, PushKept
<1> QED
  BY <1>2, <1>3, <1>4, <1>5

\* The locker and the report grow together.
LEMMA SameLocker ==
    ASSUME LockerInv, UNCHANGED <<locker, reported>> PROVE LockerInv'
  BY DEF LockerInv, locker, Flagged, SentWasReported, ReportedFlags

\* main() is where it was, and the report has grown.
LEMMA SameMain ==
    ASSUME TypeInv, MainInv, Grows, UNCHANGED <<main, due>>,
           push'["main"].at = "no" <=> push["main"].at = "no"
    PROVE  MainInv'
  BY GrowsMore DEF MainInv, ExitReports, Grows

\* A step that changes neither the lists nor the pushers nor main().
LEMMA Beside ==
    ASSUME TypeInv, LockerInv, \A p \in Pushers : PushInv(p), MainInv,
           UNCHANGED <<locker, reported, lost, push, main, due>>
    PROVE  Grows /\ LockerInv' /\ (\A p \in Pushers : PushInv(p)') /\ MainInv'
<1>1. Grows
  BY DEF TypeInv, Grows, locker
<1> QED
  BY <1>1, SameLocker, SameMain, PushKept

-----------------------------------------------------------------------------
(* AddFlagged *)

\* Every step of AddFlagged, on whichever thread, keeps the invariant.
LEMMA AddFlaggedStep ==
    ASSUME Inv, NEW t \in Threads, AddFlagged(t) PROVE Inv'
<1>a. TypeInv /\ AddInv /\ LockerInv /\ (\A p \in Pushers : PushInv(p)) /\ MainInv
  BY DEF Inv
<1>b. /\ adding[t] \in [at : {"no", "find", "push", "unsent", "keep", "direct"}, what : What]
      /\ adding[t].what \in What
  BY <1>a DEF AddInv
<1>c. UNCHANGED <<todo, push, main, due, lost>>
  BY DEF AddFlagged, Search, PushFlag, ClearSent, AddEvidence, FlagCheater, addRest, monitorVars,
     mainVars
<1>d. flaggedList \in Seq(Flags) /\ evidenceData \in Seq(Reportable)
  BY <1>a DEF TypeInv
<1>e. ASSUME Grows PROVE TypeInv' /\ (\A p \in Pushers : PushInv(p)') /\ MainInv'
  BY <1>a, <1>c, <1>e, PushKept, SameMain DEF TypeInv, Grows
<1>f. ASSUME NEW step \in {"push", "unsent", "keep", "direct"}, AddStep(t, step),
             Flagged \subseteq Flagged',
             step \in {"push", "unsent", "keep"} => adding[t].what \in Reportable,
             step \in Locked => adding[t].what.flag \in Flagged',
             step = "keep" => adding[t].what.data # NoData
      PROVE  AddInv'
  <2>1. adding' = [adding EXCEPT ![t] = [at |-> step, what |-> adding[t].what]]
    <3>1. [adding[t] EXCEPT !.at = step] = [at |-> step, what |-> adding[t].what]
      BY <1>b
    <3> QED
      BY <3>1, <1>f DEF AddStep
  <2> QED
    BY <2>1, <1>f, <1>b, <1>a DEF AddInv, Locked
<1>g. ASSUME Return(t), Flagged \subseteq Flagged' PROVE AddInv'
  <2>1. adding' = [adding EXCEPT ![t] = [at |-> "no", what |-> Detection(Injected, NoData)]]
    BY <1>g DEF Return, Idle
  <2>2. Detection(Injected, NoData) \in What
    BY DEF What
  <2> QED
    BY <2>1, <2>2, <1>g, <1>a DEF AddInv, Locked
<1>h. ASSUME Added(t), Flagged \subseteq Flagged' PROVE AddInv'
  BY <1>f, <1>g, <1>h DEF Added, Locked
<1>1. CASE Search(t)
  <2>1. UNCHANGED <<locker, reported>>
    BY <1>1 DEF Search
  <2>2. Grows /\ Flagged \subseteq Flagged'
    BY <2>1, <1>c, <1>d DEF Grows, locker, Flagged
  <2>3. LockerInv'
    BY <2>1, <1>a, SameLocker
  <2>4. Added(t) \/ (AddStep(t, "push") /\ adding[t].what \in Reportable)
    BY <1>1, <1>a DEF Search, AddInv
  <2>5. AddInv'
    BY <2>2, <2>4, <1>f, <1>h DEF Locked
  <2> QED
    BY <2>2, <2>3, <2>5, <1>e DEF Inv
<1>2. CASE PushFlag(t)
  <2>1. /\ adding[t].at = "push" /\ flaggedList' = Append(flaggedList, adding[t].what.flag)
        /\ AddStep(t, "unsent")
        /\ UNCHANGED <<sentFlags, hasEvidenceData, evidenceData, alreadySentEvidence, reported>>
    BY <1>2 DEF PushFlag
  <2>2. adding[t].what \in Reportable /\ adding[t].what.flag \in Flags
    BY <2>1, <1>a, FoundIsReportable DEF AddInv
  <2>3. Grows
    BY <2>1, <2>2, <1>c, <1>d, AppendKeeps DEF Grows
  <2>4. Flagged \subseteq Flagged' /\ adding[t].what.flag \in Flagged'
    BY <2>1, <2>2, <2>3, <1>d, AppendKeeps DEF Grows, Flagged, Range
  <2>5. LockerInv'
    BY <2>1, <2>4, <1>a DEF LockerInv, SentWasReported, ReportedFlags
  <2>6. AddInv'
    BY <2>1, <2>2, <2>4, <1>f
  <2> QED
    BY <2>3, <2>5, <2>6, <1>e DEF Inv
<1>3. CASE ClearSent(t)
  <2>1. /\ adding[t].at = "unsent" /\ sentFlags' \subseteq sentFlags
        /\ UNCHANGED <<flaggedList, hasEvidenceData, evidenceData, alreadySentEvidence, reported>>
        /\ Added(t) \/ (AddStep(t, "keep") /\ adding[t].what.data # NoData)
    BY <1>3 DEF ClearSent
  <2>2. Grows /\ Flagged' = Flagged
    BY <2>1, <1>c, <1>d DEF Grows, Flagged
  <2>3. LockerInv'
    BY <2>1, <2>2, <1>a DEF LockerInv, SentWasReported, ReportedFlags
  <2>4. adding[t].what \in Reportable /\ adding[t].what.flag \in Flagged
    BY <2>1, <1>a DEF AddInv, Locked
  <2>5. AddInv'
    BY <2>1, <2>2, <2>4, <1>f, <1>h
  <2> QED
    BY <2>2, <2>3, <2>5, <1>e DEF Inv
<1>4. CASE AddEvidence(t)
  <2>1. /\ adding[t].at = "keep" /\ evidenceData' = Append(evidenceData, adding[t].what)
        /\ hasEvidenceData' = hasEvidenceData \cup {adding[t].what.flag} /\ Added(t)
        /\ UNCHANGED <<flaggedList, sentFlags, alreadySentEvidence, reported>>
    BY <1>4 DEF AddEvidence
  <2>2. /\ adding[t].what \in Reportable /\ adding[t].what.data # NoData
        /\ adding[t].what.flag \in Flagged
    BY <2>1, <1>a DEF AddInv, Locked
  <2>3. Grows /\ Flagged' = Flagged
    BY <2>1, <2>2, <1>c, <1>d, AppendKeeps DEF Grows, Flagged
  <2>4. /\ \A j \in DOMAIN evidenceData' :
              j \in DOMAIN evidenceData \/ evidenceData'[j] = adding[t].what
        /\ \E j \in DOMAIN evidenceData' : evidenceData'[j] = adding[t].what
        /\ \A j \in DOMAIN evidenceData :
              j \in DOMAIN evidenceData' /\ evidenceData'[j] = evidenceData[j]
    BY <2>1, <2>2, <1>d, AppendKeeps
  <2>5. LockerInv'
    <3>1. \A j \in DOMAIN evidenceData' :
            evidenceData'[j].data # NoData /\ evidenceData'[j].flag \in Flagged'
      BY <2>2, <2>3, <2>4, <1>a DEF LockerInv
    <3>2. \A f \in hasEvidenceData' : \E j \in DOMAIN evidenceData' : evidenceData'[j].flag = f
      BY <2>1, <2>4, <1>a DEF LockerInv
    <3> QED
      BY <3>1, <3>2, <2>1, <1>a DEF LockerInv, SentWasReported, ReportedFlags
  <2>6. AddInv'
    BY <2>1, <2>3, <1>h
  <2> QED
    BY <2>3, <2>5, <2>6, <1>e DEF Inv
<1>5. CASE FlagCheater(t)
  <2>1. /\ adding[t].at = "direct" /\ Told(adding[t].what) /\ Return(t) /\ UNCHANGED locker
    BY <1>5 DEF FlagCheater
  <2>2. reported \subseteq reported' /\ reported' \subseteq reported \cup {adding[t].what}
    BY <2>1 DEF Told
  <2>3. Grows /\ Flagged' = Flagged
    BY <2>1, <2>2, <1>c, <1>d DEF Grows, Flagged, locker
  <2>4. adding[t].what \in Reportable \/ adding[t].what.data = NoData
    BY <1>b DEF What, Detection
  <2>5. LockerInv'
    BY <2>1, <2>2, <2>3, <2>4, <1>a DEF LockerInv, SentWasReported, ReportedFlags, locker
  <2>6. AddInv'
    BY <2>1, <2>3, <1>g
  <2> QED
    BY <2>3, <2>5, <2>6, <1>e DEF Inv
<1> QED
  BY <1>1, <1>2, <1>3, <1>4, <1>5 DEF AddFlagged

-----------------------------------------------------------------------------
(* PushAllEvidence *)

\* So does every step of PushAllEvidence, the asynchronous one and the one of main().
LEMMA PushStep ==
    ASSUME Inv, NEW p \in Pushers, PushAllEvidence(p) PROVE Inv'
<1>a. TypeInv /\ AddInv /\ LockerInv /\ (\A q \in Pushers : PushInv(q)) /\ MainInv
  BY DEF Inv
<1>b. /\ push[p] \in [at : PushSteps, flag : Nat, evidence : Nat]
      /\ push[p].flag \in Nat /\ push[p].evidence \in Nat
      /\ flaggedList \in Seq(Flags) /\ evidenceData \in Seq(Reportable)
      /\ Len(flaggedList) \in Nat /\ DOMAIN flaggedList = 1..Len(flaggedList)
      /\ Len(evidenceData) \in Nat /\ DOMAIN evidenceData = 1..Len(evidenceData)
  BY <1>a DEF TypeInv
<1>c. /\ push[p].at # "no"
      /\ UNCHANGED <<flaggedList, hasEvidenceData, evidenceData, adding, todo, due, lost>>
  BY DEF PushAllEvidence, PushNextFlag, PushKind, SendFlag, MarkFlag, PushNextEvidence,
     SendEvidence, MarkSentEvidence, PushEnds, pushRest, monitorVars, mainVars, locker
<1>d. /\ push[p].flag \in 1..(Len(flaggedList) + 1)
      /\ push[p].evidence \in 1..(Len(evidenceData) + 1)
      /\ ~lost => \A i \in DOMAIN flaggedList :
                     i < push[p].flag => flaggedList[i] \in ReportedFlags
  BY <1>a, <1>c DEF PushInv
<1>e. AddInv'
  BY <1>a, <1>c DEF AddInv, Flagged
<1>f. ASSUME reported \subseteq reported' PROVE Grows /\ ReportedFlags \subseteq ReportedFlags'
  BY <1>b, <1>c, <1>f DEF Grows, ReportedFlags
\* The pusher goes to another step or to the next entry; main() goes on.
<1>g. ASSUME NEW step \in PushSteps \ {"no"}, NEW f \in Nat, NEW e \in Nat,
             push' = [push EXCEPT ![p] = [at |-> step, flag |-> f, evidence |-> e]],
             main' = main, reported \subseteq reported',
             LockerInv', PushInv(p)'
      PROVE  Inv'
  <2>1. Grows
    BY <1>f, <1>g
  <2>2. TypeInv'
    BY <1>a, <1>b, <1>c, <1>g DEF TypeInv
  <2>3. ASSUME NEW q \in Pushers, q # p PROVE PushInv(q)'
    <3>1. push'[q] = push[q]
      BY <1>a, <1>g, <2>3 DEF TypeInv
    <3> QED
      BY <1>a, <2>1, <3>1, PushKept
  <2>4. MainInv'
    <3>1. push'["main"].at = "no" <=> push["main"].at = "no"
      BY <1>a, <1>c, <1>g, Names DEF TypeInv, PushSteps
    <3> QED
      BY <1>a, <1>c, <1>g, <2>1, <3>1, SameMain
  <2> QED
    BY <1>e, <1>g, <2>2, <2>3, <2>4 DEF Inv
\* The pusher's own invariant, in the terms of the lists, which do not change.
<1>h. ASSUME NEW step \in PushSteps \ {"no"}, NEW f \in Nat, NEW e \in Nat,
             push'[p] = [at |-> step, flag |-> f, evidence |-> e],
             f \in 1..(Len(flaggedList) + 1), e \in 1..(Len(evidenceData) + 1),
             ~lost => \A i \in DOMAIN flaggedList : i < f => flaggedList[i] \in ReportedFlags',
             step \in OnFlag => f \in DOMAIN flaggedList,
             step = "markFlag" => flaggedList[f] \in ReportedFlags',
             step \in AtStart => e = 1,
             step \in OnEvidence =>
                 \E j \in DOMAIN evidenceData : evidenceData[j].flag = flaggedList[f],
             step \in OnEvidence /\ ~lost =>
                 \A j \in DOMAIN evidenceData :
                     j < e /\ evidenceData[j].flag = flaggedList[f]
                         => flaggedList[f] \in ReportedFlags',
             step \in {"sendEvidence", "markEvidence"} =>
                 e \in DOMAIN evidenceData /\ evidenceData[e].flag = flaggedList[f],
             step = "markEvidence" => evidenceData[e] \in reported'
      PROVE  PushInv(p)'
  <2>1. /\ push'[p].at = step /\ push'[p].flag = f /\ push'[p].evidence = e
        /\ PushedFlag(p)' = flaggedList[f] /\ PushedEvidence(p)' = evidenceData[e]
    BY <1>c, <1>h DEF PushedFlag, PushedEvidence
  <2> QED
    BY <2>1, <1>c, <1>h DEF PushInv, OnFlag, OnEvidence
<1> DEFINE f == push[p].flag
           e == push[p].evidence
<1>i. push[p] = [at |-> push[p].at, flag |-> f, evidence |-> e]
  BY <1>b
\* The flag is done with.
<1>j. ASSUME NextFlag(p), f \in DOMAIN flaggedList, ~lost => flaggedList[f] \in ReportedFlags',
             reported \subseteq reported', main' = main, LockerInv'
      PROVE  Inv'
  <2> DEFINE g == f + 1
  <2>1. g \in Nat /\ push' = [push EXCEPT ![p] = [at |-> "flag", flag |-> g, evidence |-> 1]]
    BY <1>b, <1>j DEF NextFlag
  <2>2. push'[p] = [at |-> "flag", flag |-> g, evidence |-> 1]
    BY <2>1, <1>a DEF TypeInv
  <2>3. ~lost => \A i \in DOMAIN flaggedList : i < g => flaggedList[i] \in ReportedFlags'
    BY <1>b, <1>d, <1>f, <1>j
  <2>4. g \in 1..(Len(flaggedList) + 1) /\ 1 \in 1..(Len(evidenceData) + 1) /\ 1 \in Nat
    BY <1>b, <1>j
  <2>5. "flag" \in PushSteps \ {"no"} /\ "flag" \notin OnFlag /\ "flag" \notin OnEvidence
    BY DEF PushSteps, OnFlag, OnEvidence
  <2> HIDE DEF g
  <2>6. PushInv(p)'
    BY <2>1, <2>2, <2>3, <2>4, <2>5, <1>h
  <2> QED
    BY <2>1, <2>4, <2>5, <2>6, <1>g, <1>j
\* The evidence is done with.
<1>k. ASSUME NextEvidence(p), push[p].at \in OnEvidence, e \in DOMAIN evidenceData,
             ~lost /\ evidenceData[e].flag = flaggedList[f] => flaggedList[f] \in ReportedFlags',
             reported \subseteq reported', main' = main, LockerInv'
      PROVE  Inv'
  <2> DEFINE d == e + 1
  <2>1. /\ d \in Nat
        /\ push' = [push EXCEPT ![p] = [at |-> "evidence", flag |-> f, evidence |-> d]]
    BY <1>b, <1>k DEF NextEvidence
  <2>2. push'[p] = [at |-> "evidence", flag |-> f, evidence |-> d]
    BY <2>1, <1>a DEF TypeInv
  <2>3. ~lost => \A i \in DOMAIN flaggedList : i < f => flaggedList[i] \in ReportedFlags'
    BY <1>d, <1>f, <1>k
  <2>4. d \in 1..(Len(evidenceData) + 1)
    BY <1>b, <1>k
  <2>5. /\ f \in DOMAIN flaggedList
        /\ \E j \in DOMAIN evidenceData : evidenceData[j].flag = flaggedList[f]
        /\ ~lost => \A j \in DOMAIN evidenceData :
             j < e /\ evidenceData[j].flag = flaggedList[f] => flaggedList[f] \in ReportedFlags'
    BY <1>a, <1>f, <1>k DEF PushInv, PushedFlag, OnFlag, OnEvidence
  <2>6. ~lost => \A j \in DOMAIN evidenceData :
             j < d /\ evidenceData[j].flag = flaggedList[f] => flaggedList[f] \in ReportedFlags'
    BY <2>5, <1>b, <1>k
  <2>7. "evidence" \in PushSteps \ {"no"} /\ "evidence" \notin AtStart
    BY DEF PushSteps, AtStart
  <2> HIDE DEF d
  <2>8. PushInv(p)'
    BY <2>1, <2>2, <2>3, <2>4, <2>5, <2>6, <2>7, <1>b, <1>d, <1>h
  <2> QED
    BY <2>1, <2>4, <2>7, <2>8, <1>b, <1>g, <1>k
\* The pusher stays at its entries.
<1>l. ASSUME NEW step \in PushSteps \ {"no"}, At(p, step)
      PROVE  /\ push' = [push EXCEPT ![p] = [at |-> step, flag |-> f, evidence |-> e]]
             /\ push'[p] = [at |-> step, flag |-> f, evidence |-> e]
  <2>1. push' = [push EXCEPT ![p] = [at |-> step, flag |-> f, evidence |-> e]]
    <3>1. [push[p] EXCEPT !.at = step] = [at |-> step, flag |-> f, evidence |-> e]
      BY <1>b
    <3> QED
      BY <3>1, <1>l DEF At
  <2> QED
    BY <2>1, <1>a DEF TypeInv
<1>m. LockerInv /\ UNCHANGED <<locker, reported>> => LockerInv'
  BY SameLocker
<1> DEFINE entry == flaggedList[f]
           found == evidenceData[e]
<1>n. push[p].at \in OnFlag => f \in DOMAIN flaggedList /\ PushedFlag(p) = entry
  BY <1>a DEF PushInv, PushedFlag
<1>o. push[p].at \in OnEvidence =>
        /\ push[p].at \in OnFlag
        /\ \E j \in DOMAIN evidenceData : evidenceData[j].flag = entry
        /\ ~lost => \A j \in DOMAIN evidenceData :
             j < e /\ evidenceData[j].flag = entry => entry \in ReportedFlags
  BY <1>a DEF PushInv, PushedFlag, OnFlag, OnEvidence
<1>p. push[p].at \in {"sendEvidence", "markEvidence"} =>
        /\ e \in DOMAIN evidenceData /\ found.flag = entry /\ PushedEvidence(p) = found
        /\ found \in Reportable
  BY <1>a, <1>b DEF PushInv, PushedFlag, PushedEvidence
<1>q. push[p].at \in {"flag", "kind", "sendFlag", "markFlag"} => e = 1
  BY <1>a DEF PushInv, AtStart
<1> HIDE DEF f, e, entry, found
<1> USE DEF OnFlag, OnEvidence, AtStart, PushSteps
<1>1. CASE PushNextFlag(p)
  <2>1. /\ push[p].at = "flag" /\ f \in DOMAIN flaggedList /\ main' = main
        /\ UNCHANGED <<locker, reported>> /\ PushedFlag(p) = entry
        /\ IF entry \in sentFlags THEN NextFlag(p) ELSE At(p, "kind")
    BY <1>1, <1>b, <1>d DEF PushNextFlag, pushRest, mainVars, PushedFlag, entry, f
  <2>2. CASE entry \in sentFlags
    BY <2>1, <2>2, <1>a, <1>j, <1>m, <1>f DEF LockerInv, SentWasReported, entry
  <2>3. CASE entry \notin sentFlags
    <3>1. push' = [push EXCEPT ![p] = [at |-> "kind", flag |-> f, evidence |-> e]]
          /\ push'[p] = [at |-> "kind", flag |-> f, evidence |-> e]
      BY <2>1, <2>3, <1>l
    <3>2. PushInv(p)'
      BY <3>1, <2>1, <1>b, <1>d, <1>f, <1>h, <1>q DEF f, e
    <3> QED
      BY <3>1, <3>2, <2>1, <1>a, <1>b, <1>g, <1>m DEF f, e
  <2> QED
    BY <2>2, <2>3
<1>2. CASE PushKind(p)
  <2>1. /\ push[p].at = "kind" /\ main' = main /\ UNCHANGED <<locker, reported>>
        /\ At(p, IF entry \in hasEvidenceData THEN "evidence" ELSE "sendFlag")
    BY <1>2, <1>n DEF PushKind, pushRest, mainVars
  <2>2. CASE entry \in hasEvidenceData
    <3>1. push' = [push EXCEPT ![p] = [at |-> "evidence", flag |-> f, evidence |-> e]]
          /\ push'[p] = [at |-> "evidence", flag |-> f, evidence |-> e]
      BY <2>1, <2>2, <1>l
    <3>2. \E j \in DOMAIN evidenceData : evidenceData[j].flag = entry
      BY <2>2, <1>a DEF LockerInv
    <3>3. e = 1
      BY <2>1, <1>q
    <3>4. PushInv(p)'
      BY <3>1, <3>2, <3>3, <2>1, <1>b, <1>d, <1>f, <1>h, <1>n, <1>q DEF f, e, entry
    <3> QED
      BY <3>1, <3>4, <2>1, <1>a, <1>b, <1>g, <1>m DEF f, e
  <2>3. CASE entry \notin hasEvidenceData
    <3>1. push' = [push EXCEPT ![p] = [at |-> "sendFlag", flag |-> f, evidence |-> e]]
          /\ push'[p] = [at |-> "sendFlag", flag |-> f, evidence |-> e]
      BY <2>1, <2>3, <1>l
    <3>2. PushInv(p)'
      BY <3>1, <2>1, <1>b, <1>d, <1>f, <1>h, <1>n, <1>q DEF f, e
    <3> QED
      BY <3>1, <3>2, <2>1, <1>a, <1>b, <1>g, <1>m DEF f, e
  <2> QED
    BY <2>2, <2>3
<1>3. CASE SendFlag(p)
  <2>1. /\ push[p].at = "sendFlag" /\ main' = main /\ UNCHANGED locker
        /\ Told(Detection(entry, NoData))
        /\ IF lost THEN NextFlag(p) ELSE At(p, "markFlag")
    BY <1>3, <1>n DEF SendFlag, pushRest, mainVars
  <2>2. /\ reported \subseteq reported' /\ reported' \subseteq reported \cup {Detection(entry, NoData)}
        /\ ~lost => Detection(entry, NoData) \in reported'
    BY <2>1 DEF Told
  <2>3. LockerInv'
    <3>1. ReportedFlags \subseteq ReportedFlags'
      BY <2>2, <1>f
    <3> QED
      BY <2>1, <2>2, <3>1, <1>a DEF LockerInv, locker, Flagged, SentWasReported, Detection
  <2>4. ~lost => entry \in ReportedFlags'
    BY <2>2 DEF ReportedFlags, Detection
  <2>5. CASE lost
    BY <2>1, <2>2, <2>3, <2>5, <1>j, <1>n DEF f
  <2>6. CASE ~lost
    <3>1. push' = [push EXCEPT ![p] = [at |-> "markFlag", flag |-> f, evidence |-> e]]
          /\ push'[p] = [at |-> "markFlag", flag |-> f, evidence |-> e]
      BY <2>1, <2>6, <1>l
    <3>2. PushInv(p)'
      BY <3>1, <2>1, <2>2, <2>4, <2>6, <1>b, <1>d, <1>f, <1>h, <1>n, <1>q DEF f, e, entry
    <3> QED
      BY <3>1, <3>2, <2>1, <2>2, <2>3, <1>b, <1>g DEF f, e
  <2> QED
    BY <2>5, <2>6
<1>4. CASE MarkFlag(p)
  <2>1. /\ push[p].at = "markFlag" /\ main' = main
        /\ sentFlags' = sentFlags \cup {entry} /\ NextFlag(p)
        /\ UNCHANGED <<flaggedList, hasEvidenceData, evidenceData, alreadySentEvidence, reported>>
    BY <1>4, <1>n DEF MarkFlag, pushRest, mainVars
  <2>2. entry \in ReportedFlags /\ ReportedFlags' = ReportedFlags
    BY <2>1, <1>a, <1>n DEF PushInv, ReportedFlags
  <2>3. LockerInv'
    BY <2>1, <2>2, <1>a DEF LockerInv, Flagged, SentWasReported
  <2> QED
    BY <2>1, <2>2, <2>3, <1>j, <1>n DEF entry
<1>5. CASE PushNextEvidence(p)
  <2>1. /\ push[p].at = "evidence" /\ main' = main /\ UNCHANGED <<locker, reported>>
        /\ \/ e > Len(evidenceData) /\ NextFlag(p)
           \/ /\ e <= Len(evidenceData)
              /\ IF found.flag = entry /\ found.data \notin alreadySentEvidence
                 THEN At(p, "sendEvidence") ELSE NextEvidence(p)
    BY <1>5, <1>n DEF PushNextEvidence, pushRest, mainVars, PushedEvidence, e, found
  <2>2. ReportedFlags' = ReportedFlags /\ LockerInv'
    BY <2>1, <1>a, <1>m DEF ReportedFlags
  <2>3. CASE e > Len(evidenceData)
    <3>1. ~lost => entry \in ReportedFlags
      BY <2>1, <2>3, <1>b, <1>o DEF e
    <3> QED
      BY <3>1, <2>1, <2>2, <2>3, <1>b, <1>j, <1>n DEF e, entry
  <2>4. CASE e <= Len(evidenceData) /\ found.flag = entry /\ found.data \notin alreadySentEvidence
    <3>1. push' = [push EXCEPT ![p] = [at |-> "sendEvidence", flag |-> f, evidence |-> e]]
          /\ push'[p] = [at |-> "sendEvidence", flag |-> f, evidence |-> e]
      BY <2>1, <2>4, <1>b, <1>l DEF e
    <3>2. e \in DOMAIN evidenceData
      BY <2>4, <1>b, <1>d DEF e
    <3>3. PushInv(p)'
      BY <3>1, <3>2, <2>1, <2>2, <2>4, <1>b, <1>d, <1>h, <1>n, <1>o DEF f, e, entry, found
    <3> QED
      BY <3>1, <3>3, <2>1, <2>2, <1>b, <1>g DEF f, e
  <2>5. CASE e <= Len(evidenceData) /\ ~(found.flag = entry /\ found.data \notin alreadySentEvidence)
    <3>1. e \in DOMAIN evidenceData /\ NextEvidence(p)
      BY <2>1, <2>5, <1>b, <1>d DEF e
    <3>2. found.flag = entry => entry \in ReportedFlags
      <4> SUFFICES ASSUME found.flag = entry PROVE entry \in ReportedFlags
        OBVIOUS
      <4>1. found.data \in alreadySentEvidence /\ found.data # NoData /\ found \in Reportable
        BY <2>5, <3>1, <1>a, <1>b DEF LockerInv, found
      <4>2. PICK d \in reported : d.data = found.data
        BY <4>1, <1>a DEF LockerInv, SentWasReported
      <4>3. d = found
        BY <4>1, <4>2, <1>a, FoundIsReportable DEF LockerInv
      <4> QED
        BY <4>2, <4>3 DEF ReportedFlags
    <3> QED
      BY <3>1, <3>2, <2>1, <2>2, <1>k DEF e, found, entry
  <2> QED
    BY <2>3, <2>4, <2>5, <1>b, <1>d DEF e
<1>6. CASE SendEvidence(p)
  <2>1. /\ push[p].at = "sendEvidence" /\ main' = main /\ UNCHANGED locker
        /\ Told(found)
        /\ IF lost THEN NextEvidence(p) ELSE At(p, "markEvidence")
    BY <1>6, <1>p DEF SendEvidence, pushRest, mainVars
  <2>2. /\ reported \subseteq reported' /\ reported' \subseteq reported \cup {found}
        /\ ~lost => found \in reported'
    BY <2>1 DEF Told
  <2>3. LockerInv'
    <3>1. ReportedFlags \subseteq ReportedFlags'
      BY <2>2, <1>f
    <3> QED
      BY <2>1, <2>2, <3>1, <1>a, <1>p DEF LockerInv, locker, Flagged, SentWasReported
  <2>4. CASE lost
    BY <2>1, <2>2, <2>3, <2>4, <1>k, <1>p DEF e
  <2>5. CASE ~lost
    <3>1. push' = [push EXCEPT ![p] = [at |-> "markEvidence", flag |-> f, evidence |-> e]]
          /\ push'[p] = [at |-> "markEvidence", flag |-> f, evidence |-> e]
      BY <2>1, <2>5, <1>l
    <3>2. PushInv(p)'
      BY <3>1, <2>1, <2>2, <2>5, <1>b, <1>d, <1>f, <1>h, <1>n, <1>o, <1>p
      DEF f, e, entry, found
    <3> QED
      BY <3>1, <3>2, <2>1, <2>2, <2>3, <1>b, <1>g DEF f, e
  <2> QED
    BY <2>4, <2>5
<1>7. CASE MarkSentEvidence(p)
  <2>1. /\ push[p].at = "markEvidence" /\ main' = main
        /\ alreadySentEvidence' = alreadySentEvidence \cup {found.data} /\ NextEvidence(p)
        /\ UNCHANGED <<flaggedList, sentFlags, hasEvidenceData, evidenceData, reported>>
    BY <1>7, <1>p DEF MarkSentEvidence, pushRest, mainVars
  <2>2. found \in reported /\ ReportedFlags' = ReportedFlags
    BY <2>1, <1>a, <1>p DEF PushInv, ReportedFlags
  <2>3. LockerInv'
    BY <2>1, <2>2, <1>a DEF LockerInv, Flagged, SentWasReported
  <2>4. found.flag \in ReportedFlags'
    BY <2>2 DEF ReportedFlags
  <2> QED
    BY <2>1, <2>2, <2>3, <2>4, <1>k, <1>p DEF e, found, entry
<1>8. CASE PushEnds(p)
  <2>1. /\ push[p].at = "flag" /\ f > Len(flaggedList)
        /\ push' = [push EXCEPT ![p] = Resting]
        /\ main' = IF p = "main" THEN "exited" ELSE main
        /\ UNCHANGED <<locker, reported>>
    BY <1>8 DEF PushEnds, f
  <2>2. Grows /\ Flagged' = Flagged /\ ReportedFlags' = ReportedFlags /\ LockerInv'
    BY <2>1, <1>a, <1>f, <1>m DEF Flagged, ReportedFlags, locker
  <2>3. push'[p] = Resting /\ Resting \in [at : PushSteps, flag : Nat, evidence : Nat]
    BY <2>1, <1>a DEF TypeInv, Resting
  <2>4. TypeInv'
    BY <2>1, <2>3, <1>a, <1>c DEF TypeInv
  <2>5. ASSUME NEW q \in Pushers PROVE PushInv(q)'
    <3>1. CASE q = p
      BY <3>1, <2>3 DEF PushInv, Resting
    <3>2. CASE q # p
      BY <3>2, <2>1, <2>2, <1>a, PushKept DEF TypeInv
    <3> QED
      BY <3>1, <3>2
  <2>6. MainInv'
    <3>1. CASE p # "main"
      <4>1. main' = main /\ push'["main"] = push["main"]
        BY <3>1, <2>1, <1>a, Names DEF TypeInv
      <4> QED
        BY <4>1, <2>2, <1>a, <1>c, SameMain
    <3>2. CASE p = "main"
      <4>1. main' = "exited" /\ lost' = lost
        BY <3>2, <2>1, <1>c
      <4>2. ~lost => Flagged \subseteq ReportedFlags
        BY <2>1, <1>b, <1>d DEF Flagged, Range, f
      <4>3. {d.flag : d \in due} \subseteq Flagged
        BY <3>2, <1>a, <1>c DEF MainInv
      <4> QED
        BY <3>2, <4>1, <4>2, <4>3, <2>2, <2>3, <1>c DEF MainInv, ExitReports, Resting
    <3> QED
      BY <3>1, <3>2
  <2> QED
    BY <2>2, <2>4, <2>5, <2>6, <1>e DEF Inv
<1> QED
  BY <1>1, <1>2, <1>3, <1>4, <1>5, <1>6, <1>7, <1>8 DEF PushAllEvidence

-----------------------------------------------------------------------------
(* The detecting threads, main(), the connection *)

\* The invariant holds when the threads start.
LEMMA InitInv == Init => Inv
<1> SUFFICES ASSUME Init PROVE Inv
  OBVIOUS
<1>1. /\ flaggedList = <<>> /\ evidenceData = <<>> /\ sentFlags = {} /\ hasEvidenceData = {}
      /\ alreadySentEvidence = {} /\ todo = {} /\ due = {} /\ main = "starting"
      /\ adding = [t \in Threads |-> Idle] /\ push = [p \in Pushers |-> Resting]
      /\ reported = {}
  BY DEF Init
<1>2. TypeInv
  BY <1>1 DEF TypeInv, Resting, PushSteps
<1>3. AddInv
  <2>1. Idle \in [at : {"no", "find", "push", "unsent", "keep", "direct"}, what : What]
    BY DEF Idle, What
  <2>2. Idle.at = "no"
    BY DEF Idle
  <2> QED
    BY <1>1, <2>1, <2>2 DEF AddInv, Locked
<1>4. LockerInv
  BY <1>1 DEF LockerInv, SentWasReported
<1>5. \A p \in Pushers : PushInv(p)
  BY <1>1 DEF PushInv, Resting, OnFlag, OnEvidence, AtStart
<1>6. MainInv
  BY <1>1, Names DEF MainInv, ExitReports, Resting
<1> QED
  BY <1>2, <1>3, <1>4, <1>5, <1>6 DEF Inv

\* What a thread starts to add is reportable.
LEMMA Adds ==
    ASSUME AddInv, NEW t \in Threads, NEW d \in Reportable, Add(t, d), UNCHANGED locker
    PROVE  AddInv'
<1>1. adding' = [adding EXCEPT ![t] = [at |-> "find", what |-> d]] /\ d \in What
  BY DEF Add, What
<1>2. Flagged' = Flagged
  BY DEF locker, Flagged
<1> QED
  BY <1>1, <1>2 DEF AddInv, Locked

\* Nothing is added and the lists stay.
LEMMA SameAdding ==
    ASSUME AddInv, UNCHANGED <<adding, locker>> PROVE AddInv'
  BY DEF AddInv, locker, Flagged

\* The loops of the detecting threads and the callback for loaded modules keep the
\* invariant.
LEMMA WatchStep ==
    ASSUME Inv, NEW t \in Threads,
           MonitorStep \/ Watch(t) \/ WatchEnds(t) \/ \E m \in Modules : OnDllNotification(m)
    PROVE  Inv'
<1>a. TypeInv /\ AddInv /\ LockerInv /\ (\A p \in Pushers : PushInv(p)) /\ MainInv
  BY DEF Inv
<1>b. UNCHANGED <<locker, reported, lost, main, due>>
  BY DEF MonitorStep, MonitorHead, CheckDLLSignature, MonitorDetects, MonitorPushes,
     MonitorWaits, Watch, WatchEnds, OnDllNotification, detectRest, mainVars
<1>c. UNCHANGED flaggedList /\ UNCHANGED evidenceData
  BY <1>b DEF locker
<1>d. ASSUME push' = push, todo' \subseteq Found["monitor"] \cup LateFound, AddInv' PROVE Inv'
  BY <1>a, <1>b, <1>c, <1>d, Beside DEF Inv, TypeInv
<1>e. todo \subseteq Found["monitor"] \cup LateFound
  BY <1>a DEF TypeInv
<1>1. CASE MonitorHead
  BY <1>1, <1>a, <1>b, <1>d, <1>e, SameAdding DEF MonitorHead
<1>2. CASE CheckDLLSignature
  <2>1. /\ push' = push /\ todo' \subseteq Found["monitor"] \cup LateFound
        /\ \/ UNCHANGED adding
           \/ /\ Head(queue) \in UnsignedModules
              /\ Add("monitor", Detection(Injected, Head(queue)))
    BY <1>2, <1>e DEF CheckDLLSignature
  <2>2. AddInv'
    BY <2>1, <1>a, <1>b, Adds, SameAdding, FoundIsReportable, Names
  <2> QED
    BY <2>1, <2>2, <1>d
<1>3. CASE MonitorDetects
  <2>1. PICK d \in todo : Add("monitor", d) /\ todo' = todo \ {d} /\ push' = push
    BY <1>3 DEF MonitorDetects
  <2>2. d \in Reportable
    BY <1>e, FoundIsReportable, Names
  <2>3. AddInv'
    BY <2>1, <2>2, <1>a, <1>b, Adds, Names
  <2> QED
    BY <2>1, <2>3, <1>d, <1>e
<1>4. CASE MonitorPushes
  <2>1. /\ StartPush("async") /\ todo' \subseteq LateFound /\ UNCHANGED adding
    BY <1>4 DEF MonitorPushes
  <2>2. Grows
    BY <1>a, <1>b, <1>c DEF Grows, TypeInv
  <2>3. /\ push' \in [Pushers -> [at : PushSteps, flag : Nat, evidence : Nat]]
        /\ \A q \in Pushers : PushInv(q)'
    BY <2>1, <2>2, <1>a, PushStarts, Names
  <2>4. TypeInv'
    BY <2>1, <2>3, <1>a, <1>c DEF TypeInv
  <2>5. push'["main"] = push["main"]
    BY <2>1, <1>a, Names DEF StartPush, TypeInv
  <2>6. MainInv'
    BY <2>2, <2>5, <1>a, <1>b, SameMain
  <2>7. AddInv' /\ LockerInv'
    BY <2>1, <1>a, <1>b, SameAdding, SameLocker
  <2> QED
    BY <2>3, <2>4, <2>6, <2>7 DEF Inv
<1>5. CASE MonitorWaits
  BY <1>5, <1>a, <1>b, <1>d, <1>e, SameAdding DEF MonitorWaits
<1>6. CASE Watch(t)
  <2>1. PICK d \in Found[t] : Add(t, d)
    BY <1>6 DEF Watch
  <2>2. todo' = todo /\ push' = push
    BY <1>6 DEF Watch, monitorVars
  <2>3. AddInv'
    BY <2>1, <1>a, <1>b, Adds, FoundIsReportable
  <2> QED
    BY <2>2, <2>3, <1>d, <1>e
<1>7. CASE WatchEnds(t)
  BY <1>7, <1>a, <1>b, <1>d, <1>e, SameAdding DEF WatchEnds, monitorVars
<1>8. CASE \E m \in Modules : OnDllNotification(m)
  BY <1>8, <1>a, <1>b, <1>d, <1>e, SameAdding DEF OnDllNotification, monitorVars
<1> QED
  BY <1>1, <1>2, <1>3, <1>4, <1>5, <1>6, <1>7, <1>8 DEF MonitorStep

\* So do the steps of main() and the loss of the connection.
LEMMA MainStep ==
    ASSUME Inv, MainSees \/ MainJoins \/ MainStarts \/ MainBreaks \/ ConnectionLost
                \/ ReceiveExits
    PROVE  Inv'
<1>a. TypeInv /\ AddInv /\ LockerInv /\ (\A p \in Pushers : PushInv(p)) /\ MainInv
  BY DEF Inv
<1>b. UNCHANGED <<locker, reported>> /\ (lost => lost')
  BY DEF MainSees, MainJoins, MainStarts, MainBreaks, ConnectionLost, ReceiveExits, mainRest
<1>c. UNCHANGED flaggedList /\ UNCHANGED evidenceData
  BY <1>b DEF locker
<1>d. Grows
  BY <1>a, <1>b, <1>c DEF Grows, TypeInv
<1>e. LockerInv'
  BY <1>a, <1>b, SameLocker
<1>f. ASSUME push' = push, UNCHANGED <<adding, todo>>, MainInv' PROVE Inv'
  <2>1. TypeInv'
    BY <1>f, <1>a, <1>c DEF TypeInv
  <2>2. AddInv'
    BY <1>f, <1>a, <1>b, SameAdding
  <2>3. \A p \in Pushers : PushInv(p)'
    BY <1>f, <1>a, <1>d, PushKept
  <2> QED
    BY <1>e, <1>f, <2>1, <2>2, <2>3 DEF Inv
<1>1. CASE MainSees
  <2>1. /\ main' = "pushing" /\ StartPush("main") /\ UNCHANGED <<adding, todo>>
        /\ due' = {Detection(g, NoData) : g \in Flagged} \cup Range(evidenceData)
    BY <1>1 DEF MainSees, mainRest, monitorVars
  <2>2. /\ push' \in [Pushers -> [at : PushSteps, flag : Nat, evidence : Nat]]
        /\ push'["main"].at = "flag" /\ \A q \in Pushers : PushInv(q)'
    BY <2>1, <1>a, <1>d, PushStarts, Names
  <2>3. TypeInv' /\ AddInv'
    BY <2>1, <2>2, <1>a, <1>b, <1>c, SameAdding DEF TypeInv
  <2>4. {d.flag : d \in due'} \subseteq Flagged
    <3>1. \A d \in Range(evidenceData) : d.flag \in Flagged
      BY <1>a DEF LockerInv, Range
    <3> QED
      BY <2>1, <3>1 DEF Detection
  <2>5. MainInv'
    BY <2>1, <2>2, <2>4, <1>c DEF MainInv, ExitReports, Flagged
  <2> QED
    BY <2>2, <2>3, <2>5, <1>e DEF Inv
<1>2. CASE MainJoins
  <2>1. /\ main = "joining" /\ main' \in {"joining", "exited"} /\ lost'
        /\ push' = push /\ UNCHANGED <<adding, todo>>
    BY <1>2 DEF MainJoins, mainRest, monitorVars
  <2>2. MainInv'
    BY <2>1, <1>a DEF MainInv, ExitReports
  <2> QED
    BY <2>1, <2>2, <1>f
<1>3. CASE MainStarts
  <2>1. /\ main = "starting" /\ main' = "watching"
        /\ push' = push /\ UNCHANGED <<adding, todo>>
    BY <1>3 DEF MainStarts, mainRest, monitorVars
  <2>2. MainInv'
    BY <2>1, <1>a DEF MainInv, ExitReports
  <2> QED
    BY <2>1, <2>2, <1>f
<1>4. CASE MainBreaks
  <2>1. /\ main = "watching" /\ main' = "joining"
        /\ push' = push /\ UNCHANGED <<adding, todo>>
    BY <1>4 DEF MainBreaks, mainRest, monitorVars
  <2>2. MainInv'
    BY <2>1, <1>a DEF MainInv, ExitReports
  <2> QED
    BY <2>1, <2>2, <1>f
<1>5. CASE ConnectionLost
  <2>1. main' = main /\ due' = due /\ push' = push /\ UNCHANGED <<adding, todo>>
    BY <1>5 DEF ConnectionLost, mainRest, monitorVars, mainVars
  <2>2. MainInv'
    BY <2>1, <1>a, <1>d, SameMain
  <2> QED
    BY <2>1, <2>2, <1>f
<1>6. CASE ReceiveExits
  <2>1. /\ main' = "exited" /\ lost' /\ adding' = [t \in Threads |-> Idle]
        /\ push' = [p \in Pushers |-> Resting] /\ todo' = {}
    BY <1>6 DEF ReceiveExits
  <2>2. TypeInv'
    BY <2>1, <1>a, <1>c DEF TypeInv, Resting, PushSteps
  <2>3. AddInv'
    <3>1. /\ Idle \in [at : {"no", "find", "push", "unsent", "keep", "direct"}, what : What]
          /\ Idle.at = "no"
      BY DEF Idle, What
    <3> QED
      BY <2>1, <3>1 DEF AddInv, Locked
  <2>4. \A p \in Pushers : PushInv(p)'
    BY <2>1 DEF PushInv, Resting, OnFlag, OnEvidence, AtStart
  <2>5. MainInv'
    BY <2>1, Names DEF MainInv, ExitReports, Resting
  <2> QED
    BY <2>2, <2>3, <2>4, <2>5, <1>e DEF Inv
<1> QED
  BY <1>1, <1>2, <1>3, <1>4, <1>5, <1>6

\* So does a step of something else.
LEMMA StutterStep == ASSUME Inv, UNCHANGED vars PROVE Inv'
<1>1. /\ UNCHANGED <<flaggedList, sentFlags, hasEvidenceData, evidenceData, alreadySentEvidence>>
      /\ UNCHANGED <<adding, todo, push, main, due, lost, reported>>
  BY DEF vars, locker, monitorVars, mainVars
<1>2. TypeInv /\ AddInv /\ LockerInv /\ (\A p \in Pushers : PushInv(p)) /\ MainInv
  BY DEF Inv
<1>3. LockerInv' /\ (\A p \in Pushers : PushInv(p)') /\ MainInv'
  BY <1>1, <1>2, Beside DEF locker
<1>4. TypeInv' /\ AddInv'
  BY <1>1, <1>2, SameAdding DEF TypeInv, locker
<1> QED
  BY <1>3, <1>4 DEF Inv

\* The invariant is inductive.
LEMMA InvStep == Inv /\ [Next]_vars => Inv'
<1> SUFFICES ASSUME Inv, [Next]_vars PROVE Inv'
  OBVIOUS
<1>1. ASSUME NEW t \in Threads, Detecting(t) \/ Watch(t) PROVE Inv'
  BY <1>1, AddFlaggedStep, WatchStep DEF Detecting
<1>2. CASE PushAllEvidence("async")
  BY <1>2, PushStep, Names
<1>3. CASE MainLoop \/ MainStarts \/ MainBreaks \/ ConnectionLost \/ ReceiveExits
  BY <1>3, PushStep, MainStep, Names DEF MainLoop
<1>4. ASSUME NEW m \in Modules, OnDllNotification(m) PROVE Inv'
  BY <1>4, WatchStep, Names
<1>5. CASE UNCHANGED vars
  BY <1>5, StutterStep
<1> QED
  BY <1>1, <1>2, <1>3, <1>4, <1>5 DEF Next

-----------------------------------------------------------------------------

\* The invariant of the locker, the pushers and main().
LEMMA Invariant == Spec => []Inv
<1>1. Init => Inv
  BY InitInv
<1>2. Inv /\ [Next]_vars => Inv'
  BY InvStep
<1> QED
  BY <1>1, <1>2, PTL DEF Spec

\* EvidenceLocker.cpp: a flag in SentFlags and evidence in AlreadySentEvidence have reached
\* the server, for any detections, in any order of the threads that add and the two that
\* push, wherever the connection breaks.
THEOREM SentIsReported == Spec => []SentWasReported
<1>1. Inv => SentWasReported
  BY DEF Inv, LockerInv
<1> QED
  BY <1>1, Invariant, PTL

\* main.cpp: when main() ends the process because of a flag and the connection holds, the
\* server has been told of every flag that the locker held when main() began to push.
THEOREM ExitTells == Spec => []ExitReports
<1>1. Inv => ExitReports
  BY DEF Inv, MainInv
<1> QED
  BY <1>1, Invariant, PTL

=============================================================================

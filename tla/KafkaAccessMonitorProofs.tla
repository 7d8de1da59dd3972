----------------------- MODULE KafkaAccessMonitorProofs -----------------------
(***************************************************************************)
(* Theorems about KafkaAccessMonitor for any pods, sources, clusters and   *)
(* problems and any number of moves and failures.                          *)
(***************************************************************************)
EXTENDS KafkaAccessMonitor, TLAPS

USE DEF worldVars, crVars, passVars, queueVars, bounds, Stages, Fault, Works

-----------------------------------------------------------------------------
(* Types. *)

LEMMA FoundType ==
  ASSUME NEW m \in Problems \cup {None}
  PROVE  /\ Found(m) \in Details
         /\ Found(m).base = m /\ Found(m).summaries = <<>>
         /\ Found(m).analysis = NoAnswer
BY DEF Found, Details

LEMMA NoPassType == NoQuery \in Specifications /\ NoProblems \in [Pods -> Details]
<1>1. NoQuery \in Specifications
  BY MonitorAssumption DEF NoQuery, Specifications
<1>2. NoProblem \in Details
  BY FoundType DEF NoProblem
<1>3. QED
  BY <1>1, <1>2 DEF NoProblems

LEMMA NoPassFacts ==
  ASSUME NEW p \in Pods
  PROVE  /\ NoProblems[p].analysis = NoAnswer /\ NoProblems[p].base = None
         /\ NoProblems[p].summaries = <<>>
BY DEF NoProblems, NoProblem, Found

LEMMA EndPassType ==
  ASSUME EndPass
  PROVE  /\ pc' \in Stages /\ query' \in Specifications /\ tenants' \in BOOLEAN
         /\ toInspect' \subseteq Pods /\ entries' \subseteq Sources
         /\ problems' \in [Pods -> Details]
         /\ toEnrich' \subseteq entries' /\ calls' \subseteq entries'
         /\ results' = {} /\ stampSame' \in BOOLEAN
         /\ toSend' \subseteq Namespaces /\ told' \subseteq Sources
BY NoPassType DEF EndPass

LEMMA InitType == Init => TypeOK
<1> SUFFICES ASSUME Init PROVE TypeOK
  OBVIOUS
<1>1. BlankStatus \in Statuses
  <2>1. NoProblem \in Details
    BY FoundType DEF NoProblem
  <2>2. 0 \in 0..(MaxMoves + 1)
    BY MonitorAssumption
  <2>3. QED
    BY <2>1, <2>2 DEF BlankStatus, Statuses
<1>2. spec \in Specifications /\ spec.generation <= moves + 1
  BY MonitorAssumption DEF Init, Specifications
<1>3. 0 \in 0..MaxFaults /\ 0 \in 0..MaxMoves
  BY MonitorAssumption
<1>4. running \subseteq Pods
  BY MonitorAssumption DEF Init
<1>5. QED
  BY <1>1, <1>2, <1>3, <1>4, NoPassType DEF Init, TypeOK

LEMMA FaultType ==
  ASSUME faults \in 0..MaxFaults, Fault
  PROVE  faults' \in 0..MaxFaults
BY MonitorAssumption

LEMMA LogsType ==
  ASSUME NEW s \in Sources
  PROVE  LogsFor(s) \in (Clusters \X Clients) \cup {None}
BY MonitorAssumption DEF LogsFor

LEMMA NewStatusType == TypeOK => NewStatus \in Statuses
<1> SUFFICES ASSUME TypeOK PROVE NewStatus \in Statuses
  OBVIOUS
<1>1. query.generation \in 0..(MaxMoves + 1)
  BY MonitorAssumption DEF TypeOK, Specifications
<1>2. QED
  BY <1>1 DEF TypeOK, NewStatus, Statuses

\* Details with one more summary.
LEMMA SummaryFacts ==
  ASSUME NEW d \in Details, NEW q \in Seq(Sources)
  PROVE  /\ [d EXCEPT !.summaries = q] \in Details
         /\ [d EXCEPT !.summaries = q].base = d.base
         /\ [d EXCEPT !.summaries = q].summaries = q
         /\ [d EXCEPT !.summaries = q].analysis = d.analysis
         /\ [d EXCEPT !.summaries = q].logs = d.logs
<1> DEFINE bases == Problems \cup {None}
           seqs == Seq(Sources)
           answers == Answers \cup {NoAnswer}
           snippets == (Clusters \X Clients) \cup {None}
<1>1. Details = [base : bases, summaries : seqs, analysis : answers, logs : snippets]
  BY DEF Details
<1> HIDE DEF bases, seqs, answers, snippets
<1>2. q \in seqs
  BY DEF seqs
<1>3. QED
  BY <1>1, <1>2

\* Details with the result of a call.
Answered(d, r) == [d EXCEPT !.analysis = r.analysis, !.logs = r.logs]
LEMMA AnswerFacts ==
  ASSUME NEW d \in Details, NEW r,
         r.analysis \in Answers, r.logs \in (Clusters \X Clients) \cup {None}
  PROVE  /\ Answered(d, r) \in Details
         /\ Answered(d, r).base = d.base
         /\ Answered(d, r).summaries = d.summaries
         /\ Answered(d, r).analysis = r.analysis
         /\ Answered(d, r).logs = r.logs
<1> DEFINE bases == Problems \cup {None}
           seqs == Seq(Sources)
           answers == Answers \cup {NoAnswer}
           snippets == (Clusters \X Clients) \cup {None}
<1>1. Details = [base : bases, summaries : seqs, analysis : answers, logs : snippets]
  BY DEF Details
<1>2. r.analysis \in answers /\ r.logs \in snippets
  OBVIOUS
<1> HIDE DEF bases, seqs, answers, snippets
<1>3. QED
  BY <1>1, <1>2 DEF Answered

LEMMA EnrichType ==
  ASSUME TypeOK, NEW s \in Sources, Enrich(s)
  PROVE  TypeOK'
<1>1. problems' \in [Pods -> Details]
  <2>1. PodOf[s] \in Pods
    BY MonitorAssumption
  <2>2. Append(problems[PodOf[s]].summaries, s) \in Seq(Sources)
    BY <2>1 DEF TypeOK, Details
  <2>3. [problems[PodOf[s]] EXCEPT !.summaries = Append(@, s)] \in Details
    BY <2>1, <2>2, SummaryFacts DEF TypeOK
  <2>4. [problems EXCEPT ![PodOf[s]].summaries = Append(@, s)] \in [Pods -> Details]
    BY <2>1, <2>3 DEF TypeOK
  <2>5. QED
    BY <2>4 DEF Enrich, TypeOK
<1>2. faults' \in 0..MaxFaults
  BY FaultType DEF Enrich, TypeOK
<1>3. QED
  BY <1>1, <1>2 DEF Enrich, TypeOK

LEMMA ReturnsType ==
  ASSUME TypeOK, NEW s \in Sources, AnalysisReturns(s)
  PROVE  TypeOK'
<1>1. faults' \in 0..MaxFaults
  BY FaultType DEF AnalysisReturns, TypeOK
<1>2. problems[PodOf[s]].base \in Problems \cup {None}
  BY MonitorAssumption DEF TypeOK, Details
<1>3. QED
  BY <1>1, <1>2, LogsType DEF AnalysisReturns, Analyze, TypeOK, Answers

LEMMA TakeType ==
  ASSUME TypeOK, TakeResults
  PROVE  TypeOK'
<1>1. ASSUME NEW p \in Pods PROVE problems'[p] \in Details
  <2>1. CASE \E r \in results : r.key = Key(p)
    <3>1. PICK r \in results : problems'[p] = Answered(problems[p], r)
      BY <2>1 DEF TakeResults, Answered
    <3>2. r.analysis \in Answers /\ r.logs \in (Clusters \X Clients) \cup {None}
      BY DEF TypeOK
    <3>3. problems[p] \in Details
      BY DEF TypeOK
    <3>4. QED
      BY <3>1, <3>2, <3>3, AnswerFacts
  <2>2. CASE ~\E r \in results : r.key = Key(p)
    BY <2>2 DEF TakeResults, TypeOK
  <2>3. QED
    BY <2>1, <2>2
<1>2. problems' \in [Pods -> Details]
  BY <1>1 DEF TakeResults
<1>3. QED
  BY <1>2 DEF TakeResults, TypeOK

LEMMA InspectType ==
  ASSUME TypeOK, NEW p \in Pods, Inspect(p)
  PROVE  TypeOK'
<1>1. PICK found \in SUBSET SourcesOf(p), m \in trouble[p] \cup {None} :
        /\ Works(found = SourcesOf(p) /\ (m = None => trouble[p] = {}))
        /\ entries' = entries \cup found
        /\ problems' = IF found = {} THEN problems ELSE WithProblem(p, m)
  BY DEF Inspect
<1>2. m \in Problems \cup {None}
  BY DEF TypeOK
<1>3. problems' \in [Pods -> Details]
  BY <1>1, <1>2, FoundType DEF WithProblem, TypeOK
<1>4. faults' \in 0..MaxFaults
  BY <1>1, FaultType DEF TypeOK
<1>5. entries' \subseteq Sources /\ entries \subseteq entries'
  BY <1>1 DEF SourcesOf, TypeOK
<1>6. QED
  BY <1>3, <1>4, <1>5 DEF Inspect, TypeOK

LEMMA WorkerType == TypeOK /\ Worker => TypeOK'
<1> SUFFICES ASSUME TypeOK, Worker PROVE TypeOK'
  OBVIOUS
<1>1. CASE Reconcile
  <2>1. faults' \in 0..MaxFaults
    BY <1>1, FaultType DEF Reconcile, TypeOK
  <2>2. QED
    BY <1>1, <2>1 DEF Reconcile, TypeOK
<1>2. CASE ListPods
  BY <1>2 DEF ListPods, TypeOK
<1>3. CASE ListFails
  BY <1>3, EndPassType, FaultType DEF ListFails, ReturnError, TypeOK
<1>4. ASSUME NEW p \in Pods, Inspect(p) PROVE TypeOK'
  BY <1>4, InspectType
<1>5. CASE AllInspected
  BY <1>5 DEF AllInspected, Reported, TypeOK
<1>6. ASSUME NEW s \in Sources, Enrich(s) PROVE TypeOK'
  BY <1>6, EnrichType
<1>7. CASE StartAnalyses
  BY <1>7 DEF StartAnalyses, Reported, TypeOK
<1>8. CASE TakeResults
  BY <1>8, TakeType
<1>9. CASE UpdateStatus
  <2>1. CASE Reported = {}
    BY <1>9, <2>1, EndPassType, NewStatusType DEF UpdateStatus, RequeueAfter, TypeOK
  <2>2. CASE Reported # {}
    BY <1>9, <2>2, NewStatusType DEF UpdateStatus, TypeOK
  <2>3. QED
    BY <2>1, <2>2
<1>10. CASE UpdateFails
  BY <1>10, EndPassType, FaultType DEF UpdateFails, ReturnError, TypeOK
<1>11. CASE SendSummary
  BY <1>11, MonitorAssumption DEF SendSummary, Reported, TypeOK
<1>12. CASE SummaryFails
  BY <1>12, EndPassType, FaultType DEF SummaryFails, RequeueAfter, TypeOK
<1>13. CASE ReportDone
  BY <1>13, EndPassType DEF ReportDone, RequeueAfter, TypeOK
<1>14. ASSUME NEW n \in Namespaces, SendPages(n) PROVE TypeOK'
  <2>1. faults' \in 0..MaxFaults
    BY <1>14, FaultType DEF SendPages, TypeOK
  <2>2. told' \subseteq Sources
    BY <1>14 DEF SendPages, Reported, TypeOK
  <2>3. QED
    BY <1>14, <2>1, <2>2 DEF SendPages, TypeOK
<1>15. QED
  BY <1>1, <1>2, <1>3, <1>4, <1>5, <1>6, <1>7, <1>8, <1>9, <1>10, <1>11, <1>12,
     <1>13, <1>14 DEF Worker

LEMMA EnvironmentType == TypeOK /\ (CacheSync \/ TimerFires \/ Environment) => TypeOK'
<1> SUFFICES ASSUME TypeOK, CacheSync \/ TimerFires \/ Environment PROVE TypeOK'
  OBVIOUS
<1>1. CASE CacheSync
  BY <1>1 DEF CacheSync, TypeOK
<1>2. CASE TimerFires
  BY <1>2 DEF TimerFires, TypeOK
<1>3. CASE Restart
  BY <1>3, EndPassType, FaultType DEF Restart, ReturnError, TypeOK
<1>4. CASE EditSpec
  <2>1. moves' \in 0..MaxMoves
    BY <1>4, MonitorAssumption DEF EditSpec, TypeOK
  <2>2. spec' \in Specifications /\ spec'.generation <= moves' + 1
    BY <1>4, MonitorAssumption DEF EditSpec, Specifications, TypeOK
  <2>3. QED
    BY <1>4, <2>1, <2>2 DEF EditSpec, TypeOK
<1>5. ASSUME NEW p \in Pods, PodMoves(p) PROVE TypeOK'
  <2>1. moves' \in 0..MaxMoves /\ spec'.generation <= moves' + 1
    BY <1>5, MonitorAssumption DEF PodMoves, TypeOK, Specifications
  <2>2. QED
    BY <1>5, <2>1 DEF PodMoves, TypeOK
<1>6. ASSUME NEW p \in Pods, NEW ms \in Troubles[p], TroubleMoves(p, ms) PROVE TypeOK'
  <2>1. moves' \in 0..MaxMoves /\ spec'.generation <= moves' + 1
    BY <1>6, MonitorAssumption DEF TroubleMoves, TypeOK, Specifications
  <2>2. ms \subseteq Problems
    BY MonitorAssumption
  <2>3. QED
    BY <1>6, <2>1, <2>2 DEF TroubleMoves, TypeOK
<1>7. QED
  BY <1>1, <1>2, <1>3, <1>4, <1>5, <1>6 DEF Environment

LEMMA NextType == TypeOK /\ [Next]_vars => TypeOK'
<1>1. TypeOK /\ Analyses => TypeOK'
  BY ReturnsType DEF Analyses
<1>2. TypeOK /\ UNCHANGED vars => TypeOK'
  BY DEF vars, TypeOK
<1>3. QED
  BY <1>1, <1>2, WorkerType, EnvironmentType DEF Next

\* Every variable stays in its type, for all constants.
THEOREM TypeCorrect == Spec => []TypeOK
<1>1. QED
  BY InitType, NextType, PTL DEF Spec
-----------------------------------------------------------------------------
(* Which variables are in use at which stage of a pass. *)

StageInv ==
  /\ pc # "inspect" => toInspect = {}
  /\ pc \in {"idle", "list"} => entries = {} /\ problems = NoProblems
  /\ pc # "enrich" => toEnrich = {}
  /\ pc # "analyse" => calls = {} /\ results = {}
  /\ pc \in {"inspect", "enrich", "analyse"} =>
       \A p \in Pods : problems[p].analysis = NoAnswer
  /\ pc \in {"summary", "pages"} =>
       status.entries = entries /\ status.problems = problems
  /\ \A s \in entries : PodOf[s] \notin toInspect

LEMMA EndPassStage == EndPass => StageInv'
BY DEF EndPass, StageInv

LEMMA StageInit == Init => StageInv
BY DEF Init, StageInv

\* Enrich touches the summaries of one pod, and nothing else of its details.
LEMMA EnrichFrame ==
  ASSUME TypeOK, NEW s \in Sources, Enrich(s), NEW p \in Pods
  PROVE  /\ problems'[p].analysis = problems[p].analysis
         /\ problems'[p].base = problems[p].base
         /\ problems'[p].logs = problems[p].logs
         /\ \/ problems'[p].summaries = problems[p].summaries
            \/ /\ p = PodOf[s]
               /\ problems'[p].summaries = Append(problems[p].summaries, s)
<1>1. problems[p] \in Details
  BY DEF TypeOK
<1>2. CASE problems' = problems
  BY <1>2
<1>3. CASE problems' = [problems EXCEPT ![PodOf[s]].summaries = Append(@, s)]
  <2>1. CASE p # PodOf[s]
    BY <1>3, <2>1 DEF TypeOK
  <2>2. CASE p = PodOf[s]
    <3>1. problems'[p] = [problems[p] EXCEPT !.summaries = Append(problems[p].summaries, s)]
      BY <1>3, <2>2 DEF TypeOK
    <3>2. Append(problems[p].summaries, s) \in Seq(Sources)
      BY <1>1 DEF Details
    <3>3. QED
      BY <1>1, <2>2, <3>1, <3>2, SummaryFacts
  <2>3. QED
    BY <2>1, <2>2
<1>4. QED
  BY <1>2, <1>3 DEF Enrich

LEMMA StageInvStep ==
  ASSUME TypeOK, TypeOK', StageInv, [Next]_vars
  PROVE  StageInv'
<1>1. CASE Reconcile
  BY <1>1 DEF Reconcile, StageInv
<1>2. CASE ListPods
  <2>1. problems' = NoProblems
    BY <1>2 DEF ListPods, StageInv
  <2>2. \A p \in Pods : problems'[p].analysis = NoAnswer
    BY <2>1, NoPassFacts
  <2>3. QED
    BY <1>2, <2>2 DEF ListPods, StageInv
<1>3. CASE ListFails
  BY <1>3, EndPassStage DEF ListFails, ReturnError, RequeueAfter
<1>4. ASSUME NEW p \in Pods, Inspect(p) PROVE StageInv'
  <2>1. PICK found \in SUBSET SourcesOf(p), m \in trouble[p] \cup {None} :
          /\ entries' = entries \cup found
          /\ problems' = IF found = {} THEN problems ELSE WithProblem(p, m)
    BY <1>4 DEF Inspect
  <2>2. m \in Problems \cup {None}
    BY DEF TypeOK
  <2>3. \A q \in Pods : problems'[q].analysis = NoAnswer
    BY <1>4, <2>1, <2>2, FoundType DEF Inspect, WithProblem, StageInv, TypeOK
  <2>4. \A s \in entries' : PodOf[s] \notin toInspect'
    BY <1>4, <2>1 DEF Inspect, SourcesOf, StageInv
  <2>5. QED
    BY <1>4, <2>3, <2>4 DEF Inspect, StageInv
<1>5. CASE AllInspected
  BY <1>5 DEF AllInspected, StageInv
<1>6. ASSUME NEW s \in Sources, Enrich(s) PROVE StageInv'
  <2>1. \A p \in Pods : problems'[p].analysis = problems[p].analysis
    BY <1>6, EnrichFrame
  <2>2. QED
    BY <1>6, <2>1 DEF Enrich, StageInv
<1>7. CASE StartAnalyses
  BY <1>7 DEF StartAnalyses, StageInv
<1>8. CASE TakeResults
  BY <1>8 DEF TakeResults, StageInv
<1>9. CASE UpdateStatus
  <2>1. CASE Reported = {}
    BY <1>9, <2>1, EndPassStage DEF UpdateStatus, RequeueAfter
  <2>2. CASE Reported # {}
    BY <1>9, <2>2 DEF UpdateStatus, NewStatus, StageInv
  <2>3. QED
    BY <2>1, <2>2
<1>10. CASE UpdateFails
  BY <1>10, EndPassStage DEF UpdateFails, ReturnError, RequeueAfter
<1>11. CASE SendSummary
  BY <1>11 DEF SendSummary, StageInv
<1>12. CASE SummaryFails
  BY <1>12, EndPassStage DEF SummaryFails, ReturnError, RequeueAfter
<1>13. CASE ReportDone
  BY <1>13, EndPassStage DEF ReportDone, ReturnError, RequeueAfter
<1>14. ASSUME NEW n \in Namespaces, SendPages(n) PROVE StageInv'
  BY <1>14 DEF SendPages, StageInv
<1>15. ASSUME NEW s \in Sources, AnalysisReturns(s) PROVE StageInv'
  BY <1>15 DEF AnalysisReturns, StageInv
<1>16. CASE CacheSync
  BY <1>16 DEF CacheSync, StageInv
<1>17. CASE TimerFires
  BY <1>17 DEF TimerFires, StageInv
<1>18. CASE Restart
  BY <1>18, EndPassStage DEF Restart, ReturnError, RequeueAfter
<1>19. CASE EditSpec
  BY <1>19 DEF EditSpec, StageInv
<1>20. ASSUME NEW p \in Pods, PodMoves(p) PROVE StageInv'
  BY <1>20 DEF PodMoves, StageInv
<1>21. ASSUME NEW p \in Pods, NEW ms \in Troubles[p], TroubleMoves(p, ms) PROVE StageInv'
  BY <1>21 DEF TroubleMoves, StageInv
<1>22. CASE UNCHANGED vars
  BY <1>22 DEF vars, StageInv
<1>23. QED
  BY <1>1, <1>2, <1>3, <1>4, <1>5, <1>6, <1>7, <1>8, <1>9, <1>10, <1>11,
     <1>12, <1>13, <1>14, <1>15, <1>16, <1>17, <1>18, <1>19, <1>20,
     <1>21, <1>22
     DEF Next, Worker, Analyses, Environment
-----------------------------------------------------------------------------
(* Answers: a result stays true to the problem it is about, for messages do *)
(* not change while calls are under way.                                    *)

AnswerInv ==
  /\ \A p \in Pods : Fits(p, problems[p]) /\ Fits(p, status.problems[p])
  /\ \A r \in results :
       /\ r.key = Key(PodOf[r.analysis.source])
       /\ r.analysis.about = problems[PodOf[r.analysis.source]].base
       /\ r.logs = LogsFor(r.analysis.source)

LEMMA EndPassAnswer ==
  ASSUME EndPass, status' = status, AnswerInv
  PROVE  AnswerInv'
<1>1. \A p \in Pods : problems'[p].analysis = NoAnswer
  BY NoPassFacts DEF EndPass
<1>2. QED
  BY <1>1 DEF EndPass, AnswerInv, Fits

LEMMA AnswerInit == Init => AnswerInv
<1> SUFFICES ASSUME Init PROVE AnswerInv
  OBVIOUS
<1>1. \A p \in Pods : NoProblem.analysis = NoAnswer
  BY DEF NoProblem, Found
<1>2. QED
  BY <1>1, NoPassFacts DEF Init, AnswerInv, Fits, BlankStatus

LEMMA AnswerStep ==
  ASSUME TypeOK, StageInv, StageInv', AnswerInv, [Next]_vars
  PROVE  AnswerInv'
<1>1. CASE Reconcile
  BY <1>1 DEF Reconcile, AnswerInv, Key
<1>2. CASE ListPods
  BY <1>2 DEF ListPods, AnswerInv, Key
<1>3. CASE ListFails
  BY <1>3, EndPassAnswer DEF ListFails, ReturnError, RequeueAfter
<1>4. ASSUME NEW p \in Pods, Inspect(p) PROVE AnswerInv'
  <2>1. results = {} /\ results' = {}
    BY <1>4 DEF Inspect, StageInv
  <2>2. \A q \in Pods : problems'[q].analysis = NoAnswer
    BY <1>4 DEF Inspect, StageInv
  <2>3. QED
    BY <1>4, <2>1, <2>2 DEF Inspect, AnswerInv, Fits
<1>5. CASE AllInspected
  BY <1>5 DEF AllInspected, AnswerInv, Key
<1>6. ASSUME NEW s \in Sources, Enrich(s) PROVE AnswerInv'
  <2>1. results = {} /\ results' = {}
    BY <1>6 DEF Enrich, StageInv
  <2>2. \A q \in Pods : problems'[q].analysis = NoAnswer
    BY <1>6 DEF Enrich, StageInv
  <2>3. QED
    BY <1>6, <2>1, <2>2 DEF Enrich, AnswerInv, Fits
<1>7. CASE StartAnalyses
  BY <1>7 DEF StartAnalyses, AnswerInv, Key
<1>8. CASE TakeResults
  <2>1. ASSUME NEW p \in Pods PROVE Fits(p, problems'[p])
    <3>1. CASE \E r \in results : r.key = Key(p)
      <4>1. PICK r \in results : /\ r.key = Key(p)
                                  /\ problems'[p] = Answered(problems[p], r)
        BY <1>8, <3>1 DEF TakeResults, Answered
      <4>2. /\ problems'[p].analysis = r.analysis /\ problems'[p].logs = r.logs
            /\ problems'[p].base = problems[p].base
        BY <4>1, AnswerFacts DEF TypeOK
      <4>3. Key(p) = Key(PodOf[r.analysis.source])
        BY <4>1 DEF AnswerInv
      <4>4. /\ NameOf[PodOf[r.analysis.source]] = NameOf[p]
            /\ problems[PodOf[r.analysis.source]].base = problems[p].base
        BY <4>3 DEF Key, Text
      <4>5. QED
        BY <4>2, <4>4 DEF AnswerInv, Fits
    <3>2. CASE ~\E r \in results : r.key = Key(p)
      BY <1>8, <3>2 DEF TakeResults, AnswerInv
    <3>3. QED
      BY <3>1, <3>2
  <2>2. QED
    BY <1>8, <2>1 DEF TakeResults, AnswerInv
<1>9. CASE UpdateStatus
  <2>1. \A p \in Pods : Fits(p, status'.problems[p])
    BY <1>9 DEF UpdateStatus, NewStatus, AnswerInv
  <2>2. results' = {}
    BY <1>9 DEF UpdateStatus, RequeueAfter, EndPass, StageInv
  <2>3. \A p \in Pods : Fits(p, problems'[p])
    <3>1. CASE Reported = {}
      BY <1>9, <3>1, NoPassFacts DEF UpdateStatus, RequeueAfter, EndPass, Fits
    <3>2. CASE Reported # {}
      BY <1>9, <3>2 DEF UpdateStatus, AnswerInv
    <3>3. QED
      BY <3>1, <3>2
  <2>4. QED
    BY <2>1, <2>2, <2>3 DEF AnswerInv
<1>10. CASE UpdateFails
  BY <1>10, EndPassAnswer DEF UpdateFails, ReturnError, RequeueAfter
<1>11. CASE SendSummary
  BY <1>11 DEF SendSummary, AnswerInv, Key
<1>12. CASE SummaryFails
  BY <1>12, EndPassAnswer DEF SummaryFails, ReturnError, RequeueAfter
<1>13. CASE ReportDone
  BY <1>13, EndPassAnswer DEF ReportDone, ReturnError, RequeueAfter
<1>14. ASSUME NEW n \in Namespaces, SendPages(n) PROVE AnswerInv'
  BY <1>14 DEF SendPages, AnswerInv, Key
<1>15. ASSUME NEW s \in Sources, AnalysisReturns(s) PROVE AnswerInv'
  <2>1. \A q \in Pods : Key(q)' = Key(q)
    BY <1>15 DEF AnalysisReturns, Key
  <2>2. PICK ok \in BOOLEAN :
          results' =
            {r \in results : r.key # Key(PodOf[s])} \cup
            {[key |-> Key(PodOf[s]), logs |-> LogsFor(s),
              analysis |-> [source |-> s, about |-> problems[PodOf[s]].base, ok |-> ok]]}
    BY <1>15 DEF AnalysisReturns, Analyze
  <2>3. ASSUME NEW r \in results'
        PROVE  /\ r.key = Key(PodOf[r.analysis.source])'
               /\ r.analysis.about = problems'[PodOf[r.analysis.source]].base
               /\ r.logs = LogsFor(r.analysis.source)
    <3>1. PodOf[s] \in Pods
      BY MonitorAssumption
    <3>2. CASE r \in results
      <4>1. PodOf[r.analysis.source] \in Pods
        BY <3>2, MonitorAssumption DEF TypeOK, Answers
      <4>2. QED
        BY <1>15, <2>1, <3>2, <4>1 DEF AnalysisReturns, AnswerInv
    <3>3. CASE r \notin results
      BY <1>15, <2>1, <2>2, <3>1, <3>3 DEF AnalysisReturns
    <3>4. QED
      BY <3>2, <3>3
  <2>4. QED
    BY <1>15, <2>3 DEF AnalysisReturns, AnswerInv
<1>16. CASE CacheSync
  BY <1>16 DEF CacheSync, AnswerInv, Key
<1>17. CASE TimerFires
  BY <1>17 DEF TimerFires, AnswerInv, Key
<1>18. CASE Restart
  BY <1>18, EndPassAnswer DEF Restart, ReturnError, RequeueAfter
<1>19. CASE EditSpec
  BY <1>19 DEF EditSpec, AnswerInv, Key
<1>20. ASSUME NEW p \in Pods, PodMoves(p) PROVE AnswerInv'
  BY <1>20 DEF PodMoves, AnswerInv, Key
<1>21. ASSUME NEW p \in Pods, NEW ms \in Troubles[p], TroubleMoves(p, ms) PROVE AnswerInv'
  BY <1>21 DEF TroubleMoves, AnswerInv, Key
<1>22. CASE UNCHANGED vars
  BY <1>22 DEF vars, AnswerInv, Key
<1>23. QED
  BY <1>1, <1>2, <1>3, <1>4, <1>5, <1>6, <1>7, <1>8, <1>9, <1>10, <1>11,
     <1>12, <1>13, <1>14, <1>15, <1>16, <1>17, <1>18, <1>19, <1>20,
     <1>21, <1>22
     DEF Next, Worker, Analyses, Environment

-----------------------------------------------------------------------------
(* Answers wanted: whatever edits come in between, the pass works for the  *)
(* specification of one generation.                                        *)

SameGeneration(read) ==
  /\ read.generation <= spec.generation
  /\ read.generation = spec.generation => read.ai = spec.ai

Awaited(s) == s \in calls \/ \E r \in results : r.key = Key(PodOf[s])

AskedInv ==
  /\ SameGeneration(cached)
  /\ pc # "idle" => SameGeneration(query)
  /\ status.observed <= spec.generation
  /\ pc = "analyse" /\ query.ai => \A s \in Reported : Awaited(s)
  /\ pc = "analyse" /\ ~query.ai => calls = {} /\ results = {}
  /\ pc = "write" => \A s \in entries : Asked(problems[PodOf[s]], query.ai)
  /\ AnalysedAsAsked

LEMMA EndPassAsked ==
  ASSUME EndPass, status' = status, spec' = spec, AskedInv, SameGeneration(cached')
  PROVE  AskedInv'
BY DEF EndPass, AskedInv, AnalysedAsAsked, SameGeneration

LEMMA AskedInit == Init => AskedInv
<1> SUFFICES ASSUME Init PROVE AskedInv
  OBVIOUS
<1>1. /\ spec.generation = 1 /\ cached = spec /\ pc = "idle"
      /\ status.observed = 0 /\ status.entries = {}
  BY DEF Init, BlankStatus
<1>2. QED
  BY <1>1 DEF AskedInv, AnalysedAsAsked, SameGeneration

LEMMA AskedStep ==
  ASSUME TypeOK, TypeOK', StageInv, AskedInv, [Next]_vars
  PROVE  AskedInv'
<1>1. CASE Reconcile
  BY <1>1 DEF Reconcile, AskedInv, AnalysedAsAsked, SameGeneration
<1>2. CASE ListPods
  BY <1>2 DEF ListPods, AskedInv, AnalysedAsAsked, SameGeneration, Awaited, Key, HasProblem, Reported
<1>3. CASE ListFails
  BY <1>3, EndPassAsked DEF ListFails, ReturnError, RequeueAfter, AskedInv
<1>4. ASSUME NEW p \in Pods, Inspect(p) PROVE AskedInv'
  BY <1>4 DEF Inspect, AskedInv, AnalysedAsAsked, SameGeneration, Awaited, Key, HasProblem, Reported
<1>5. CASE AllInspected
  BY <1>5 DEF AllInspected, AskedInv, AnalysedAsAsked, SameGeneration, Awaited, Key, HasProblem, Reported
<1>6. ASSUME NEW s \in Sources, Enrich(s) PROVE AskedInv'
  BY <1>6 DEF Enrich, AskedInv, AnalysedAsAsked, SameGeneration, Awaited, Key, HasProblem, Reported
<1>7. CASE StartAnalyses
  <2>1. /\ pc' = "analyse" /\ results = {} /\ results' = {}
        /\ calls' = IF query.ai THEN Reported ELSE {}
    BY <1>7 DEF StartAnalyses, StageInv
  <2>2. Reported' = Reported /\ query' = query /\ status' = status
        /\ spec' = spec /\ cached' = cached
    BY <1>7 DEF StartAnalyses, Reported, HasProblem
  <2>3. AnalysedAsAsked'
    BY <2>2 DEF AskedInv, AnalysedAsAsked
  <2>4. query.ai => \A s \in Reported : Awaited(s)'
    BY <2>1 DEF Awaited
  <2>5. QED
    BY <1>7, <2>1, <2>2, <2>3, <2>4 DEF StartAnalyses, AskedInv, SameGeneration
<1>8. CASE TakeResults
  <2>1. ASSUME NEW s \in entries PROVE Asked(problems'[PodOf[s]], query.ai)
    <3> DEFINE p == PodOf[s]
    <3>1. p \in Pods /\ problems[p].analysis = NoAnswer
      BY <1>8, MonitorAssumption DEF TakeResults, TypeOK, StageInv
    <3>2. CASE \E r \in results : r.key = Key(p)
      <4>1. PICK r \in results : problems'[p] = Answered(problems[p], r)
        BY <1>8, <3>1, <3>2 DEF TakeResults, Answered
      <4>2. problems'[p].analysis = r.analysis /\ r.analysis \in Answers
        BY <3>1, <4>1, AnswerFacts DEF TypeOK
      <4>3. r.analysis # NoAnswer
        BY <4>2, MonitorAssumption DEF Answers, NoAnswer
      <4>4. query.ai
        BY <1>8, <3>2, MonitorAssumption DEF TakeResults, AskedInv, TypeOK, Specifications
      <4>5. QED
        BY <4>2, <4>3, <4>4 DEF Asked
    <3>3. CASE ~\E r \in results : r.key = Key(p)
      <4>1. problems'[p] = problems[p]
        BY <1>8, <3>1, <3>3 DEF TakeResults
      <4>2. problems[p].base # None => ~query.ai
        BY <1>8, <3>3 DEF TakeResults, AskedInv, Awaited, Reported, HasProblem
      <4>3. QED
        BY <3>1, <4>1, <4>2 DEF Asked
    <3>4. QED
      BY <3>2, <3>3
  <2>2. QED
    BY <1>8, <2>1 DEF TakeResults, AskedInv, AnalysedAsAsked, SameGeneration
<1>9. CASE UpdateStatus
  <2>1. /\ status'.observed = query.generation /\ status'.entries = entries
        /\ status'.problems = problems /\ spec' = spec /\ cached' = cached
    BY <1>9 DEF UpdateStatus, NewStatus
  <2>2. AnalysedAsAsked' /\ status'.observed <= spec'.generation
    BY <1>9, <2>1 DEF UpdateStatus, AskedInv, AnalysedAsAsked, SameGeneration
  <2>3. pc' \in {"idle", "summary"} /\ (pc' # "idle" => query' = query)
    BY <1>9 DEF UpdateStatus, RequeueAfter, EndPass
  <2>4. QED
    BY <1>9, <2>1, <2>2, <2>3 DEF UpdateStatus, AskedInv, SameGeneration
<1>10. CASE UpdateFails
  BY <1>10, EndPassAsked DEF UpdateFails, ReturnError, RequeueAfter, AskedInv
<1>11. CASE SendSummary
  BY <1>11 DEF SendSummary, AskedInv, AnalysedAsAsked, SameGeneration, Awaited, Key, HasProblem, Reported
<1>12. CASE SummaryFails
  BY <1>12, EndPassAsked DEF SummaryFails, ReturnError, RequeueAfter, AskedInv
<1>13. CASE ReportDone
  BY <1>13, EndPassAsked DEF ReportDone, ReturnError, RequeueAfter, AskedInv
<1>14. ASSUME NEW n \in Namespaces, SendPages(n) PROVE AskedInv'
  BY <1>14 DEF SendPages, AskedInv, AnalysedAsAsked, SameGeneration, Awaited, Key, HasProblem, Reported
<1>15. ASSUME NEW s \in Sources, AnalysisReturns(s) PROVE AskedInv'
  <2>1. \A q \in Pods : Key(q)' = Key(q)
    BY <1>15 DEF AnalysisReturns, Key
  <2>2. ASSUME query.ai, NEW t \in Reported PROVE Awaited(t)'
    <3>1. PodOf[t] \in Pods /\ PodOf[s] \in Pods
      BY MonitorAssumption DEF Reported, TypeOK
    <3>2. CASE Key(PodOf[t]) = Key(PodOf[s])
      <4>1. \E r \in results' : r.key = Key(PodOf[s])
        <5> DEFINE Answer(ok) ==
              [key |-> Key(PodOf[s]), logs |-> LogsFor(s),
               analysis |-> [source |-> s, about |-> problems[PodOf[s]].base, ok |-> ok]]
        <5>1. PICK ok \in BOOLEAN :
                results' = {r \in results : r.key # Key(PodOf[s])} \cup {Answer(ok)}
          BY <1>15 DEF AnalysisReturns, Analyze
        <5>2. Answer(ok) \in results'
          BY <5>1
        <5>3. Answer(ok).key = Key(PodOf[s])
          OBVIOUS
        <5>4. QED
          BY <5>2, <5>3
      <4>2. QED
        BY <2>1, <3>1, <3>2, <4>1 DEF Awaited
    <3>3. CASE Key(PodOf[t]) # Key(PodOf[s])
      <4>1. Awaited(t) /\ t # s
        BY <1>15, <2>2, <3>3 DEF AnalysisReturns, AskedInv
      <4>2. CASE t \in calls
        BY <1>15, <4>1, <4>2 DEF AnalysisReturns, Awaited
      <4>3. CASE \E r \in results : r.key = Key(PodOf[t])
        <5>1. \E r \in results' : r.key = Key(PodOf[t])
          BY <1>15, <3>3, <4>3 DEF AnalysisReturns
        <5>2. QED
          BY <2>1, <3>1, <5>1 DEF Awaited
      <4>4. QED
        BY <4>1, <4>2, <4>3 DEF Awaited
    <3>4. QED
      BY <3>2, <3>3
  <2>3. query.ai
    BY <1>15 DEF AnalysisReturns, AskedInv
  <2>4. Reported' = Reported
    BY <1>15 DEF AnalysisReturns, Reported, HasProblem
  <2>5. QED
    BY <1>15, <2>2, <2>3, <2>4 DEF AnalysisReturns, AskedInv, AnalysedAsAsked, SameGeneration
<1>16. CASE CacheSync
  <2>1. SameGeneration(cached')
    BY <1>16 DEF CacheSync, SameGeneration, TypeOK, Specifications
  <2>2. /\ spec' = spec /\ query' = query /\ pc' = pc /\ status' = status
        /\ calls' = calls /\ results' = results /\ entries' = entries
        /\ problems' = problems
    BY <1>16 DEF CacheSync, passVars
  <2>3. QED
    BY <2>1, <2>2
       DEF AskedInv, AnalysedAsAsked, SameGeneration, Awaited, Key, HasProblem, Reported
<1>17. CASE TimerFires
  BY <1>17 DEF TimerFires, AskedInv, AnalysedAsAsked, SameGeneration, Awaited, Key, HasProblem, Reported
<1>18. CASE Restart
  BY <1>18, EndPassAsked DEF Restart, ReturnError, AskedInv, SameGeneration, TypeOK, Specifications
<1>19. CASE EditSpec
  <2>1. spec'.generation = spec.generation + 1 /\ status' = status /\ cached' = cached
        /\ query' = query
    BY <1>19 DEF EditSpec
  <2>2. /\ spec.generation \in Nat /\ status.observed \in Nat
        /\ cached.generation \in Nat /\ query.generation \in Nat
    BY MonitorAssumption DEF TypeOK, Specifications, Statuses
  <2>3. AnalysedAsAsked' /\ status'.observed <= spec'.generation
    BY <2>1, <2>2 DEF AskedInv, AnalysedAsAsked
  <2>4. SameGeneration(cached)' /\ (pc # "idle" => SameGeneration(query)')
    BY <2>1, <2>2 DEF AskedInv, SameGeneration
  <2>5. QED
    BY <1>19, <2>3, <2>4 DEF EditSpec, AskedInv, Awaited, Key, Reported, HasProblem
<1>20. ASSUME NEW p \in Pods, PodMoves(p) PROVE AskedInv'
  BY <1>20 DEF PodMoves, AskedInv, AnalysedAsAsked, SameGeneration, Awaited, Key, HasProblem, Reported
<1>21. ASSUME NEW p \in Pods, NEW ms \in Troubles[p], TroubleMoves(p, ms) PROVE AskedInv'
  BY <1>21 DEF TroubleMoves, AskedInv, AnalysedAsAsked, SameGeneration, Awaited, Key, HasProblem, Reported
<1>22. CASE UNCHANGED vars
  BY <1>22 DEF vars, AskedInv, AnalysedAsAsked, SameGeneration, Awaited, Key, HasProblem, Reported
<1>23. QED
  BY <1>1, <1>2, <1>3, <1>4, <1>5, <1>6, <1>7, <1>8, <1>9, <1>10, <1>11,
     <1>12, <1>13, <1>14, <1>15, <1>16, <1>17, <1>18, <1>19, <1>20,
     <1>21, <1>22
     DEF Next, Worker, Analyses, Environment
-----------------------------------------------------------------------------
(* Summaries: a source that is still to enrich is not yet in the message.  *)

SummaryInv ==
  /\ \A p \in Pods : Once(p, problems[p].summaries, entries)
  /\ pc \in {"list", "inspect"} => \A p \in Pods : problems[p].summaries = <<>>
  /\ \A s \in toEnrich :
       \A i \in DOMAIN problems[PodOf[s]].summaries : problems[PodOf[s]].summaries[i] # s
  /\ SummariesOnce

LEMMA EndPassSummary ==
  ASSUME EndPass, status' = status, SummaryInv
  PROVE  SummaryInv'
<1>1. \A p \in Pods : problems'[p].summaries = <<>>
  BY NoPassFacts DEF EndPass
<1>2. QED
  BY <1>1 DEF EndPass, SummaryInv, Once, SummariesOnce

LEMMA SummaryInit == Init => SummaryInv
<1> SUFFICES ASSUME Init PROVE SummaryInv
  OBVIOUS
<1>1. \A p \in Pods : NoProblem.summaries = <<>>
  BY DEF NoProblem, Found
<1>2. QED
  BY <1>1, NoPassFacts DEF Init, SummaryInv, Once, SummariesOnce, BlankStatus

LEMMA SummaryStep ==
  ASSUME TypeOK, TypeOK', StageInv, SummaryInv, [Next]_vars
  PROVE  SummaryInv'
<1>1. CASE Reconcile
  <2>1. problems = NoProblems /\ problems' = problems
    BY <1>1 DEF Reconcile, StageInv
  <2>2. \A p \in Pods : problems'[p].summaries = <<>>
    BY <2>1, NoPassFacts
  <2>3. QED
    BY <1>1, <2>2 DEF Reconcile, SummaryInv, SummariesOnce
<1>2. CASE ListPods
  BY <1>2 DEF ListPods, SummaryInv, SummariesOnce
<1>3. CASE ListFails
  BY <1>3, EndPassSummary DEF ListFails, ReturnError, RequeueAfter
<1>4. ASSUME NEW p \in Pods, Inspect(p) PROVE SummaryInv'
  <2>1. PICK found \in SUBSET SourcesOf(p), m \in trouble[p] \cup {None} :
          problems' = IF found = {} THEN problems ELSE WithProblem(p, m)
    BY <1>4 DEF Inspect
  <2>2. m \in Problems \cup {None}
    BY DEF TypeOK
  <2>3. \A q \in Pods : problems'[q].summaries = <<>>
    BY <1>4, <2>1, <2>2, FoundType DEF Inspect, WithProblem, SummaryInv, TypeOK
  <2>4. QED
    BY <1>4, <2>3 DEF Inspect, SummaryInv, Once, SummariesOnce, StageInv
<1>5. CASE AllInspected
  <2>1. \A s \in toEnrich' : problems'[PodOf[s]].summaries = <<>>
    BY <1>5, MonitorAssumption DEF AllInspected, SummaryInv, TypeOK, Reported
  <2>2. QED
    BY <1>5, <2>1 DEF AllInspected, SummaryInv, SummariesOnce
<1>6. ASSUME NEW s \in Sources, Enrich(s) PROVE SummaryInv'
  <2>1. PodOf[s] \in Pods /\ s \in entries /\ entries' = entries /\ status' = status
        /\ toEnrich' = toEnrich \ {s} /\ pc' = "enrich"
    BY <1>6, MonitorAssumption DEF Enrich, TypeOK
  <2>2. ASSUME NEW p \in Pods
        PROVE  /\ Once(p, problems'[p].summaries, entries)
               /\ \A t \in toEnrich' : PodOf[t] = p =>
                    \A i \in DOMAIN problems'[p].summaries : problems'[p].summaries[i] # t
    <3>1. CASE problems'[p].summaries = problems[p].summaries
      BY <2>1, <3>1 DEF SummaryInv, Enrich
    <3>2. CASE /\ p = PodOf[s]
               /\ problems'[p].summaries = Append(problems[p].summaries, s)
      <4> DEFINE old == problems[p].summaries
                 new == problems'[p].summaries
      <4>1. old \in Seq(Sources) /\ s \in Sources /\ new = Append(old, s)
        BY <3>2 DEF TypeOK, Details
      <4>2. Once(p, old, entries) /\ \A i \in DOMAIN old : old[i] # s
        BY <1>6, <3>2 DEF Enrich, SummaryInv
      <4>3. \A t \in toEnrich' : PodOf[t] = p => \A i \in DOMAIN old : old[i] # t
        BY <2>1 DEF SummaryInv
      <4> HIDE DEF old, new
      <4>4. /\ DOMAIN new = DOMAIN old \cup {Len(old) + 1} /\ new[Len(old) + 1] = s
            /\ Len(old) + 1 \notin DOMAIN old
            /\ \A i \in DOMAIN old : new[i] = old[i]
        BY <4>1
      <4>5. Once(p, new, entries)
        BY <2>1, <3>2, <4>2, <4>4 DEF Once
      <4>6. \A t \in toEnrich' : PodOf[t] = p => \A i \in DOMAIN new : new[i] # t
        BY <2>1, <4>3, <4>4
      <4>7. QED
        BY <4>5, <4>6 DEF new
    <3>3. QED
      BY <1>6, <3>1, <3>2, EnrichFrame
  <2>3. \A t \in toEnrich' : PodOf[t] \in Pods
    BY <2>1, MonitorAssumption DEF TypeOK
  <2>4. QED
    BY <2>1, <2>2, <2>3 DEF SummaryInv, SummariesOnce
<1>7. CASE StartAnalyses
  BY <1>7 DEF StartAnalyses, SummaryInv, SummariesOnce
<1>8. CASE TakeResults
  <2>1. \A p \in Pods : problems'[p].summaries = problems[p].summaries
    <3> SUFFICES ASSUME NEW p \in Pods
                 PROVE  problems'[p].summaries = problems[p].summaries
      OBVIOUS
    <3>1. CASE \E r \in results : r.key = Key(p)
      <4>1. PICK r \in results : problems'[p] = Answered(problems[p], r)
        BY <1>8, <3>1 DEF TakeResults, Answered
      <4>2. QED
        BY <4>1, AnswerFacts DEF TypeOK
    <3>2. CASE ~\E r \in results : r.key = Key(p)
      BY <1>8, <3>2 DEF TakeResults
    <3>3. QED
      BY <3>1, <3>2
  <2>2. toEnrich = {} /\ toEnrich' = {} /\ entries' = entries /\ status' = status
        /\ pc' = "write"
    BY <1>8 DEF TakeResults, StageInv
  <2>3. QED
    BY <2>1, <2>2 DEF SummaryInv, SummariesOnce
<1>9. CASE UpdateStatus
  <2>1. SummariesOnce'
    BY <1>9 DEF UpdateStatus, NewStatus, SummaryInv, SummariesOnce
  <2>2. CASE Reported = {}
    <3>1. EndPass
      BY <1>9, <2>2 DEF UpdateStatus, RequeueAfter
    <3>2. \A p \in Pods : problems'[p].summaries = <<>>
      BY <3>1, NoPassFacts DEF EndPass
    <3>3. QED
      BY <2>1, <3>1, <3>2 DEF EndPass, SummaryInv, Once
  <2>3. CASE Reported # {}
    BY <1>9, <2>1, <2>3 DEF UpdateStatus, SummaryInv
  <2>4. QED
    BY <2>2, <2>3
<1>10. CASE UpdateFails
  BY <1>10, EndPassSummary DEF UpdateFails, ReturnError, RequeueAfter
<1>11. CASE SendSummary
  BY <1>11 DEF SendSummary, SummaryInv, SummariesOnce
<1>12. CASE SummaryFails
  BY <1>12, EndPassSummary DEF SummaryFails, ReturnError, RequeueAfter
<1>13. CASE ReportDone
  BY <1>13, EndPassSummary DEF ReportDone, ReturnError, RequeueAfter
<1>14. ASSUME NEW n \in Namespaces, SendPages(n) PROVE SummaryInv'
  BY <1>14 DEF SendPages, SummaryInv, SummariesOnce
<1>15. ASSUME NEW s \in Sources, AnalysisReturns(s) PROVE SummaryInv'
  BY <1>15 DEF AnalysisReturns, SummaryInv, SummariesOnce
<1>16. CASE CacheSync
  BY <1>16 DEF CacheSync, SummaryInv, SummariesOnce
<1>17. CASE TimerFires
  BY <1>17 DEF TimerFires, SummaryInv, SummariesOnce
<1>18. CASE Restart
  BY <1>18, EndPassSummary DEF Restart, ReturnError, RequeueAfter
<1>19. CASE EditSpec
  BY <1>19 DEF EditSpec, SummaryInv, SummariesOnce
<1>20. ASSUME NEW p \in Pods, PodMoves(p) PROVE SummaryInv'
  BY <1>20 DEF PodMoves, SummaryInv, SummariesOnce
<1>21. ASSUME NEW p \in Pods, NEW ms \in Troubles[p], TroubleMoves(p, ms) PROVE SummaryInv'
  BY <1>21 DEF TroubleMoves, SummaryInv, SummariesOnce
<1>22. CASE UNCHANGED vars
  BY <1>22 DEF vars, SummaryInv, SummariesOnce
<1>23. QED
  BY <1>1, <1>2, <1>3, <1>4, <1>5, <1>6, <1>7, <1>8, <1>9, <1>10, <1>11,
     <1>12, <1>13, <1>14, <1>15, <1>16, <1>17, <1>18, <1>19, <1>20,
     <1>21, <1>22
     DEF Next, Worker, Analyses, Environment

-----------------------------------------------------------------------------
(* The invariants hold together, and the properties follow.                *)

PassInv == TypeOK /\ StageInv /\ AnswerInv /\ AskedInv /\ SummaryInv

LEMMA PassInvStep == PassInv /\ [Next]_vars => PassInv'
<1> SUFFICES ASSUME PassInv, [Next]_vars PROVE PassInv'
  OBVIOUS
<1>1. TypeOK'
  BY NextType DEF PassInv
<1>2. StageInv'
  BY <1>1, StageInvStep DEF PassInv
<1>3. AnswerInv' /\ AskedInv' /\ SummaryInv'
  BY <1>1, <1>2, AnswerStep, AskedStep, SummaryStep DEF PassInv
<1>4. QED
  BY <1>1, <1>2, <1>3 DEF PassInv

LEMMA PassInvariant == Spec => []PassInv
<1>1. Init => PassInv
  BY InitType, StageInit, AnswerInit, AskedInit, SummaryInit DEF PassInv
<1>2. QED
  BY <1>1, PassInvStep, PTL DEF Spec

\* An analysis in the status, and the broker logs beside it, are about the
\* problem they stand at, for every set of pods and in every order of answers.
THEOREM AnswersFitAlways == Spec => []AnswersFit
<1>1. PassInv => AnswersFit
  BY DEF PassInv, AnswerInv, AnswersFit
<1>2. QED
  BY <1>1, PassInvariant, PTL

\* A status that claims the current generation has answers exactly if that
\* generation asks for them.
THEOREM AnalysedAsAskedAlways == Spec => []AnalysedAsAsked
<1>1. PassInv => AnalysedAsAsked
  BY DEF PassInv, AskedInv
<1>2. QED
  BY <1>1, PassInvariant, PTL

\* No broker summary is appended twice, or for a pod that is not listed.
THEOREM SummariesOnceAlways == Spec => []SummariesOnce
<1>1. PassInv => SummariesOnce
  BY DEF PassInv, SummaryInv
<1>2. QED
  BY <1>1, PassInvariant, PTL

\* Slack hears of an entry only after the status shows it, whatever fails.
THEOREM ReportsFollow == Spec => ReportFollowsRecord
<1> DEFINE Told == \A s \in told' \ told :
                     s \in status.entries /\ status.problems[PodOf[s]] = problems[PodOf[s]]
<1>1. ASSUME PassInv, Next PROVE Told
  <2>1. CASE \E n \in Namespaces : SendPages(n)
    BY <1>1, <2>1 DEF PassInv, StageInv, SendPages, Reported
  <2>2. CASE ~\E n \in Namespaces : SendPages(n)
    <3>1. told' \subseteq told
      BY <1>1, <2>2 DEF Next, Worker, Analyses, Environment, Reconcile, EndPass,
           ReturnError, RequeueAfter, ListPods, ListFails, Inspect, AllInspected,
           Enrich, StartAnalyses, AnalysisReturns, TakeResults, UpdateStatus,
           UpdateFails, SendSummary, SummaryFails, ReportDone, Restart, CacheSync,
           TimerFires, EditSpec, PodMoves, TroubleMoves
    <3>2. QED
      BY <3>1
  <2>3. QED
    BY <2>1, <2>2
<1>2. PassInv /\ [Next]_vars => [Told]_vars
  BY <1>1
<1>3. QED
  BY <1>2, PassInvariant, PTL DEF Spec, ReportFollowsRecord

-----------------------------------------------------------------------------
(***************************************************************************)
(* The reconcile loop implements KafkaSurvey: each of its steps is a step  *)
(* of the survey, or none.                                                 *)
(***************************************************************************)

\* The mapped variables of the survey.
Surveying == pc \in SurveyStages
Notes == IF Surveying THEN NotesOf(entries, problems) ELSE {}
Published == NotesOf(status.entries, status.problems)

\* A step that leaves the mapped variables alone.
LEMMA SurveyStutter ==
  ASSUME running' = running, trouble' = trouble, Surveying' = Surveying,
         toInspect' = toInspect, Notes' = Notes, Published' = Published
  PROVE  [Survey!Next]_Survey!vars
BY DEF Survey!vars, Surveying, Notes, Published

\* Notes need only the base texts of the problems.
LEMMA NotesFrame ==
  ASSUME TypeOK, entries' = entries,
         \A p \in Pods : problems'[p].base = problems[p].base
  PROVE  NotesOf(entries, problems)' = NotesOf(entries, problems)
BY MonitorAssumption DEF NotesOf, TypeOK

LEMMA EndPassSurvey ==
  ASSUME EndPass, running' = running, trouble' = trouble, status' = status
  PROVE  [Survey!Next]_Survey!vars
<1>1. Survey!GiveUp
  BY DEF EndPass, Survey!GiveUp, SurveyStages
<1>2. QED
  BY <1>1 DEF Survey!Next

LEMMA SurveyInit == Init => Survey!Init
<1> SUFFICES ASSUME Init PROVE Survey!Init
  OBVIOUS
<1>1. running \in SUBSET Pods
  BY MonitorAssumption DEF Init
<1>2. QED
  BY <1>1 DEF Init, Survey!Init, SurveyStages, NotesOf, BlankStatus

LEMMA SurveyStep ==
  ASSUME PassInv, [Next]_vars
  PROVE  [Survey!Next]_Survey!vars
<1>1. CASE Reconcile
  BY <1>1, SurveyStutter DEF Reconcile, Surveying, Notes, Published, SurveyStages, NotesOf
<1>2. CASE ListPods
  <2>1. entries = {} /\ entries' = {}
    BY <1>2 DEF ListPods, PassInv, StageInv
  <2>2. Survey!Begin
    BY <1>2, <2>1 DEF ListPods, Survey!Begin, SurveyStages, NotesOf
  <2>3. QED
    BY <2>2 DEF Survey!Next
<1>3. CASE ListFails
  BY <1>3, EndPassSurvey DEF ListFails, ReturnError, RequeueAfter
<1>4. ASSUME NEW p \in Pods, Inspect(p) PROVE [Survey!Next]_Survey!vars
  <2>1. PICK found \in SUBSET SourcesOf(p), m \in trouble[p] \cup {None} :
          /\ entries' = entries \cup found
          /\ problems' = IF found = {} THEN problems ELSE WithProblem(p, m)
    BY <1>4 DEF Inspect
  <2>2. \A s \in entries : PodOf[s] # p /\ PodOf[s] \in Pods
    BY <1>4, MonitorAssumption DEF Inspect, PassInv, StageInv, TypeOK
  <2>3. NotesOf(entries, problems)' \in
          {NotesOf(entries, problems), NotesOf(entries, problems) \cup {Survey!Note(p, m)}}
    <3>1. CASE found = {}
      BY <2>1, <3>1 DEF NotesOf
    <3>2. CASE found # {}
      <4>1. \A s \in found : PodOf[s] = p
        BY DEF SourcesOf
      <4>2. problems'[p].base = m
        BY <2>1, <3>2 DEF WithProblem, Found, PassInv, TypeOK
      <4>3. \A s \in entries : problems'[PodOf[s]] = problems[PodOf[s]]
        BY <2>1, <2>2, <3>2 DEF WithProblem, PassInv, TypeOK
      <4>4. NotesOf(entries, problems)' =
              NotesOf(entries, problems) \cup {Survey!Note(p, m)}
        BY <2>1, <3>2, <4>1, <4>2, <4>3 DEF NotesOf, Survey!Note
      <4>5. QED
        BY <4>4
    <3>3. QED
      BY <3>1, <3>2
  <2>4. Survey!Look(p)
    BY <1>4, <2>3 DEF Inspect, Survey!Look, SurveyStages
  <2>5. QED
    BY <2>4 DEF Survey!Next
<1>5. CASE AllInspected
  BY <1>5, SurveyStutter DEF AllInspected, Surveying, Notes, Published, SurveyStages, NotesOf
<1>6. ASSUME NEW s \in Sources, Enrich(s) PROVE [Survey!Next]_Survey!vars
  <2>1. NotesOf(entries, problems)' = NotesOf(entries, problems)
    BY <1>6, EnrichFrame, NotesFrame DEF Enrich, PassInv
  <2>2. QED
    BY <1>6, <2>1, SurveyStutter DEF Enrich, Surveying, Notes, Published
<1>7. CASE StartAnalyses
  BY <1>7, SurveyStutter DEF StartAnalyses, Surveying, Notes, Published, SurveyStages, NotesOf
<1>8. CASE TakeResults
  <2>1. \A p \in Pods : problems'[p].base = problems[p].base
    <3> SUFFICES ASSUME NEW p \in Pods PROVE problems'[p].base = problems[p].base
      OBVIOUS
    <3>1. CASE \E r \in results : r.key = Key(p)
      <4>1. PICK r \in results : problems'[p] = Answered(problems[p], r)
        BY <1>8, <3>1 DEF TakeResults, Answered
      <4>2. QED
        BY <4>1, AnswerFacts DEF PassInv, TypeOK
    <3>2. CASE ~\E r \in results : r.key = Key(p)
      BY <1>8, <3>2 DEF TakeResults
    <3>3. QED
      BY <3>1, <3>2
  <2>2. NotesOf(entries, problems)' = NotesOf(entries, problems)
    BY <1>8, <2>1, NotesFrame DEF TakeResults, PassInv
  <2>3. Surveying /\ Surveying'
    BY <1>8, SurveyStutter DEF TakeResults, Surveying, SurveyStages
  <2>4. Notes' = Notes
    BY <2>2, <2>3 DEF Notes
  <2>5. Published' = Published
    BY <1>8 DEF TakeResults, Published, NotesOf
  <2>6. QED
    BY <1>8, <2>3, <2>4, <2>5, SurveyStutter DEF TakeResults
<1>9. CASE UpdateStatus
  <2>1. toInspect = {} /\ toInspect' = {} /\ pc' \in {"idle", "summary"}
    BY <1>9 DEF UpdateStatus, RequeueAfter, EndPass, PassInv, StageInv
  <2>2. Survey!Publish
    BY <1>9, <2>1 DEF UpdateStatus, NewStatus, Survey!Publish, SurveyStages
  <2>3. QED
    BY <2>2 DEF Survey!Next
<1>10. CASE UpdateFails
  BY <1>10, EndPassSurvey DEF UpdateFails, ReturnError, RequeueAfter
<1>11. CASE SendSummary
  BY <1>11, SurveyStutter DEF SendSummary, Surveying, Notes, Published, SurveyStages, NotesOf
<1>12. CASE SummaryFails
  BY <1>12, EndPassSurvey DEF SummaryFails, ReturnError, RequeueAfter
<1>13. CASE ReportDone
  BY <1>13, EndPassSurvey DEF ReportDone, ReturnError, RequeueAfter
<1>14. ASSUME NEW n \in Namespaces, SendPages(n) PROVE [Survey!Next]_Survey!vars
  BY <1>14, SurveyStutter DEF SendPages, Surveying, Notes, Published, SurveyStages, NotesOf
<1>15. ASSUME NEW s \in Sources, AnalysisReturns(s) PROVE [Survey!Next]_Survey!vars
  BY <1>15, SurveyStutter DEF AnalysisReturns, Surveying, Notes, Published, SurveyStages, NotesOf
<1>16. CASE CacheSync
  BY <1>16, SurveyStutter DEF CacheSync, Surveying, Notes, Published, SurveyStages, NotesOf
<1>17. CASE TimerFires
  BY <1>17, SurveyStutter DEF TimerFires, Surveying, Notes, Published, SurveyStages, NotesOf
<1>18. CASE Restart
  BY <1>18, EndPassSurvey DEF Restart, ReturnError, RequeueAfter
<1>19. CASE EditSpec
  BY <1>19, SurveyStutter DEF EditSpec, Surveying, Notes, Published, SurveyStages, NotesOf
<1>20. ASSUME NEW p \in Pods, PodMoves(p) PROVE [Survey!Next]_Survey!vars
  <2>1. running' \in SUBSET Pods /\ trouble' \in [Pods -> SUBSET Problems]
    BY NextType DEF PassInv, TypeOK
  <2>2. Survey!WorldMoves
    BY <1>20, <2>1 DEF PodMoves, Survey!WorldMoves
  <2>3. QED
    BY <2>2 DEF Survey!Next
<1>21. ASSUME NEW p \in Pods, NEW ms \in Troubles[p], TroubleMoves(p, ms) PROVE [Survey!Next]_Survey!vars
  <2>1. running' \in SUBSET Pods /\ trouble' \in [Pods -> SUBSET Problems]
    BY NextType DEF PassInv, TypeOK
  <2>2. Survey!WorldMoves
    BY <1>21, <2>1 DEF TroubleMoves, Survey!WorldMoves
  <2>3. QED
    BY <2>2 DEF Survey!Next
<1>22. CASE UNCHANGED vars
  BY <1>22, SurveyStutter DEF vars, Surveying, Notes, Published, SurveyStages, NotesOf
<1>23. QED
  BY <1>1, <1>2, <1>3, <1>4, <1>5, <1>6, <1>7, <1>8, <1>9, <1>10, <1>11,
     <1>12, <1>13, <1>14, <1>15, <1>16, <1>17, <1>18, <1>19, <1>20,
     <1>21, <1>22
     DEF Next, Worker, Analyses, Environment

\* Every behaviour of the loop, with all its failures and restarts, is one of
\* the survey: the status is always the whole result of one pass.
THEOREM StatusIsSurvey == Spec => ImplementsSurvey
<1>1. PassInv /\ [Next]_vars => [Survey!Next]_Survey!vars
  BY SurveyStep
<1>2. QED
  BY <1>1, SurveyInit, PassInvariant, PTL DEF Spec, ImplementsSurvey, Survey!Spec
=============================================================================

-------------------------- MODULE KafkaAccessMonitor --------------------------
(***************************************************************************)
(* The reconcile loop of the Kafka access monitor for one custom resource. *)
(* A pass lists the pods, inspects them one at a time, adds broker metrics *)
(* to the problems it found, has every problem analysed by a goroutine of  *)
(* its own, writes the status and reports to Slack.  The status write      *)
(* wakes the watch, which starts the next pass.  Pods, problems and the    *)
(* specification move meanwhile; calls fail; the process restarts.         *)
(*                                                                         *)
(* A source is one place in a pod that names Kafka brokers: the variables  *)
(* of a container, or a key of a mounted config map.  Each gives an entry  *)
(* of the status, and the entries of a pod share one slice of problems.    *)
(***************************************************************************)
EXTENDS Naturals, Sequences, FiniteSets

CONSTANTS
  Pods, Names, Namespaces,
  NameOf, NamespaceOf,   \* of each pod; namesakes live in different namespaces
  Sources,
  PodOf, ClusterOf,      \* of each source: its pod, the cluster of its brokers,
  ClientOf,              \* its group or client id
  Mounted,               \* the sources that are keys of config maps
  Clusters, Clients,
  Problems,              \* messages of logs and events
  Troubles,              \* for each pod, the sets of problems it may show
  None,                  \* an absent value; the cluster "unknown", the id ""
  InitialRunning,        \* sets of pods that may run at first
  MaxMoves,              \* bound on moves of pods and problems, and edits
  MaxFaults              \* bound on failed calls and restarts

ASSUME MonitorAssumption ==
  /\ NameOf \in [Pods -> Names] /\ NamespaceOf \in [Pods -> Namespaces]
  /\ \A p, q \in Pods :
       NameOf[p] = NameOf[q] /\ NamespaceOf[p] = NamespaceOf[q] => p = q
  /\ PodOf \in [Sources -> Pods]
  /\ ClusterOf \in [Sources -> Clusters \cup {None}]
  /\ ClientOf \in [Sources -> Clients \cup {None}]
  /\ Mounted \subseteq Sources
  /\ None \notin Problems \cup Clusters \cup Clients \cup Sources
  /\ Troubles \in [Pods -> SUBSET SUBSET Problems]
  /\ InitialRunning \subseteq SUBSET Pods
  /\ MaxMoves \in Nat /\ MaxFaults \in Nat

\* What the status needs of the specification: AIAnalysisEnabled and the
\* generation.
Specifications == [ai : BOOLEAN, generation : 1..(MaxMoves + 1)]

\* The answer of one call about one problem; failed answers are texts too.
Answers == [source : Sources, about : Problems \cup {None}, ok : BOOLEAN]
NoAnswer == [source |-> None, about |-> None, ok |-> FALSE]

\* ProblemDetail.  Message is the base text and one broker summary for each
\* source that was enriched; the last summary gives the Broker... fields.
Details ==
  [base : Problems \cup {None}, summaries : Seq(Sources),
   analysis : Answers \cup {NoAnswer},
   logs : (Clusters \X Clients) \cup {None}]
Found(m) ==
  [base |-> m, summaries |-> <<>>, analysis |-> NoAnswer, logs |-> None]
NoProblem == Found(None)

\* KafkaAccessQueryStatus: the sources of AccessingPods, RecentProblems (one
\* slot for each pod, which its entries share), whether AuthorizedTenants
\* could be filled in, and ObservedGeneration (0 before the first pass).
Statuses ==
  [entries : SUBSET Sources, problems : [Pods -> Details], tenants : BOOLEAN,
   observed : 0..(MaxMoves + 1)]
BlankStatus ==
  [entries |-> {}, problems |-> [p \in Pods |-> NoProblem], tenants |-> FALSE,
   observed |-> 0]

VARIABLES
  running,      \* pods that run and are not being deleted
  trouble,      \* problems a scan of each pod's logs and events would find
  spec, status, \* the resource on the API server
  cached,       \* the specification in the informer's copy
  fresh,        \* whether that copy has the current resourceVersion
  pc, query,    \* the worker, and the specification its pass works for
  tenants,      \* the tenant map was loaded
  toInspect, entries, problems, toEnrich,
  calls,        \* sources whose analysis is under way
  results,      \* allAIResults and allBrokerLogs: answers by key
  sameSecond,   \* the second of the stored LastUpdateTime may not be over yet
  stampSame,    \* LastUpdateTime of the pass equals the stored one
  toSend,       \* namespaces still to report
  wait, queued, \* the requeue timer is set; the work queue holds the resource
  faults, moves,
  told          \* entries Slack accepted in this pass, for the properties

worldVars == <<running, trouble>>
crVars == <<spec, status, cached, fresh>>
passVars == <<query, tenants, toInspect, entries, problems, toEnrich, calls,
              results, stampSame, toSend>>
queueVars == <<wait, queued>>
bounds == <<faults, moves>>
vars == <<worldVars, crVars, pc, passVars, sameSecond, queueVars, bounds, told>>

Stages == {"idle", "list", "inspect", "enrich", "analyse", "write", "summary",
           "pages"}

SourcesOf(p) == {s \in Sources : PodOf[s] = p}
\* Mutant: a problem the status shows already is no news.
HasNewProblem(s) == problems[PodOf[s]].base \notin {None, status.problems[PodOf[s]].base}
HasProblem(s) == problems[PodOf[s]].base # None
Reported == {s \in entries : HasProblem(s)}    \* podsToReport

Fault == faults < MaxFaults /\ faults' = faults + 1
Works(ok) == IF ok THEN UNCHANGED faults ELSE Fault

NoQuery == [ai |-> FALSE, generation |-> 1]
NoProblems == [p \in Pods |-> NoProblem]

Init ==
  /\ running \in InitialRunning
  /\ trouble \in [Pods -> SUBSET Problems] /\ \A p \in Pods : trouble[p] \in Troubles[p]
  /\ spec \in [ai : BOOLEAN, generation : {1}] /\ status = BlankStatus
  /\ cached = spec /\ fresh = TRUE
  /\ pc = "idle" /\ query = NoQuery /\ tenants = FALSE
  /\ toInspect = {} /\ entries = {} /\ problems = NoProblems
  /\ toEnrich = {} /\ calls = {} /\ results = {}
  /\ stampSame = FALSE /\ toSend = {}
  /\ sameSecond = FALSE /\ wait = FALSE /\ queued = TRUE
  /\ faults = 0 /\ moves = 0 /\ told = {}

-----------------------------------------------------------------------------
(***************************************************************************)
(* The pass.                                                               *)
(***************************************************************************)

\* The resource is read from the cache; the tenant map is loaded, or the pass
\* goes on without it.
Reconcile ==
  /\ pc = "idle" /\ queued
  /\ pc' = "list" /\ queued' = FALSE /\ query' = cached
  /\ \E ok \in BOOLEAN : Works(ok) /\ tenants' = ok
  /\ UNCHANGED <<worldVars, crVars, toInspect, entries, problems, toEnrich,
                 calls, results, stampSame, toSend, sameSecond, wait,
                 moves, told>>

\* A pass is over: its variables go out of scope.
EndPass ==
  /\ pc' = "idle" /\ query' = NoQuery /\ tenants' = FALSE
  /\ toInspect' = {} /\ entries' = {} /\ problems' = NoProblems
  /\ toEnrich' = {} /\ calls' = {} /\ results' = {}
  /\ stampSame' = FALSE /\ toSend' = {} /\ told' = {}
ReturnError == EndPass /\ queued' = TRUE
RequeueAfter == EndPass /\ wait' = TRUE

\* Pods that do not run in this listing are skipped.
ListPods ==
  /\ pc = "list"
  /\ pc' = "inspect" /\ toInspect' = running
  /\ UNCHANGED <<worldVars, crVars, query, tenants, entries, problems,
                 toEnrich, calls, results, stampSame, toSend,
                 sameSecond, queueVars, bounds, told>>

ListFails ==
  /\ pc = "list" /\ Fault
  /\ ReturnError
  /\ UNCHANGED <<worldVars, crVars, sameSecond, wait, moves>>

\* Mutant: the details of a known problem are carried over from the status.
WithProblemKept(p, m) ==
  [problems EXCEPT ![p] = IF status.problems[p].base = m
                          THEN status.problems[p] ELSE Found(m)]
\* Problems are found anew in each pass.
WithProblem(p, m) == [problems EXCEPT ![p] = Found(m)]

\* One pod: the first problem of a map in random order, the containers'
\* variables and the mounted config maps.  Whatever cannot be read is missing,
\* without an error.
Inspect(p) ==
  /\ pc = "inspect" /\ p \in toInspect
  /\ toInspect' = toInspect \ {p}
  /\ \E found \in SUBSET SourcesOf(p), m \in trouble[p] \cup {None} :
       /\ Works(found = SourcesOf(p) /\ (m = None => trouble[p] = {}))
       /\ entries' = entries \cup found
       /\ problems' = IF found = {} THEN problems ELSE WithProblem(p, m)
  /\ UNCHANGED <<worldVars, crVars, pc, query, tenants, toEnrich, calls,
                 results, stampSame, toSend, sameSecond, queueVars,
                 moves, told>>

\* Mutant: the entries to enrich are taken from the status of the last pass.
AllInspectedFormer ==
  /\ pc = "inspect" /\ toInspect = {}
  /\ pc' = "enrich" /\ toEnrich' = {s \in status.entries : HasProblem(s)}
  /\ stampSame' \in {FALSE, sameSecond}
  /\ UNCHANGED <<worldVars, crVars, query, tenants, toInspect, entries,
                 problems, calls, results, toSend, sameSecond, queueVars,
                 bounds, told>>
\* The slice of entries is complete, and LastUpdateTime is taken.
AllInspected ==
  /\ pc = "inspect" /\ toInspect = {}
  /\ pc' = "enrich" /\ toEnrich' = Reported
  /\ stampSame' \in {FALSE, sameSecond}
  /\ UNCHANGED <<worldVars, crVars, query, tenants, toInspect, entries,
                 problems, calls, results, toSend, sameSecond, queueVars,
                 bounds, told>>

\* The metrics of one entry's brokers are appended to the message it shares
\* with the other entries of its pod.  Lists and maps have any order, but the
\* containers of a pod come before its config maps.
Enrich(s) ==
  /\ pc = "enrich" /\ s \in toEnrich
  /\ s \in Mounted => toEnrich \cap SourcesOf(PodOf[s]) \subseteq Mounted
  /\ toEnrich' = toEnrich \ {s}
  /\ \E ok \in BOOLEAN :
       /\ ClusterOf[s] = None => ok
       /\ Works(ok)
       /\ problems' =
            IF ok /\ ClusterOf[s] # None
            THEN [problems EXCEPT ![PodOf[s]].summaries = Append(@, s)]
            ELSE problems
  /\ UNCHANGED <<worldVars, crVars, pc, query, tenants, toInspect, entries,
                 calls, results, stampSame, toSend, sameSecond,
                 queueVars, moves, told>>

\* Every problem is analysed, for AIAnalysis is empty in all of them.
StartAnalyses ==
  /\ pc = "enrich" /\ toEnrich = {}
  /\ pc' = "analyse" /\ calls' = IF query.ai THEN Reported ELSE {}
  /\ UNCHANGED <<worldVars, crVars, query, tenants, toInspect, entries,
                 problems, toEnrich, results, stampSame, toSend,
                 sameSecond, queueVars, bounds, told>>

\* Mutant: the message is left out.
KeyByPod(p) == <<NameOf[p]>>
\* The key of a result: PodName and Message, without the namespace.
Text(d) == <<d.base, [i \in DOMAIN d.summaries |-> ClusterOf[d.summaries[i]]]>>
Key(p) == <<NameOf[p], Text(problems[p])>>

\* brokerLogsCache, filled before the goroutines start.
LogsFor(s) ==
  IF ClientOf[s] = None \/ ClusterOf[s] = None
  THEN None ELSE <<ClusterOf[s], ClientOf[s]>>

\* One call about the problem of a source: the first text of the answer, or the
\* error of the call, its timeout, its status code, its decoding, a blocked
\* prompt or an answer without text.
Analyze(s, ok) == [source |-> s, about |-> problems[PodOf[s]].base, ok |-> ok]

\* A goroutine's answer, its error or its timeout arrives in the channel and
\* replaces what an earlier one with the same key left.
AnalysisReturns(s) ==
  /\ pc = "analyse" /\ s \in calls
  /\ calls' = calls \ {s}
  /\ \E ok \in BOOLEAN :
       /\ Works(ok)
       /\ results' =
            {r \in results : r.key # Key(PodOf[s])} \cup
            {[key |-> Key(PodOf[s]), logs |-> LogsFor(s),
              analysis |-> Analyze(s, ok)]}
  /\ UNCHANGED <<worldVars, crVars, pc, query, tenants, toInspect, entries,
                 problems, toEnrich, stampSame, toSend, sameSecond,
                 queueVars, moves, told>>

\* The channel is closed: each problem takes the result of its key.
TakeResults ==
  /\ pc = "analyse" /\ calls = {}
  /\ pc' = "write" /\ results' = {}
  /\ problems' =
       [p \in Pods |->
          IF \E r \in results : r.key = Key(p)
          THEN LET r == CHOOSE r \in results : r.key = Key(p)
               IN  [problems[p] EXCEPT !.analysis = r.analysis, !.logs = r.logs]
          ELSE problems[p]]
  /\ UNCHANGED <<worldVars, crVars, query, tenants, toInspect, entries,
                 toEnrich, calls, stampSame, toSend,
                 sameSecond, queueVars, bounds, told>>

\* Mutants: the generation is that of the copy the update is put on; entries are
\* added to those of the status that was read.
NewStatusLatest ==
  [entries |-> entries, problems |-> problems, tenants |-> tenants,
   observed |-> cached.generation]
NewStatusAdded ==
  [entries |-> status.entries \cup entries, problems |-> problems,
   tenants |-> tenants, observed |-> query.generation]
NewStatus ==
  [entries |-> entries, problems |-> problems, tenants |-> tenants,
   observed |-> query.generation]

\* RetryOnConflict puts the status on the newest copy of the cache and updates.
\* LastUpdateTime makes it differ from the one read, always; the API server
\* drops an update that changes nothing, which needs two passes within one
\* second and entries in the same order.
UpdateStatus ==
  /\ pc = "write" /\ fresh
  /\ \E same \in BOOLEAN :
       /\ same => stampSame /\ NewStatus = status
       /\ stampSame /\ NewStatus = status /\ Cardinality(entries) < 2 => same
       /\ fresh' = same
  /\ status' = NewStatus /\ sameSecond' = TRUE
  /\ IF Reported = {}
     THEN RequeueAfter
     ELSE /\ pc' = "summary" /\ stampSame' = FALSE
          /\ UNCHANGED <<query, tenants, toInspect, entries, problems, toEnrich,
                         calls, results, toSend, wait, told>>
  /\ UNCHANGED <<worldVars, spec, cached, queued, bounds>>

\* Mutant: the error is logged and the pass goes on to its report.
UpdateFailsReports ==
  /\ pc = "write"
  /\ Works(~fresh)
  /\ pc' = "summary"
  /\ UNCHANGED <<worldVars, crVars, passVars, sameSecond, queueVars, moves,
                 told>>
\* Five conflicts in some 50 milliseconds, or any other error.
UpdateFails ==
  /\ pc = "write"
  /\ Works(~fresh)
  /\ ReturnError
  /\ UNCHANGED <<worldVars, crVars, sameSecond, wait, moves>>

\* SendReport: without the summary there is no report.
SendSummary ==
  /\ pc = "summary"
  /\ pc' = "pages" /\ toSend' = {NamespaceOf[PodOf[s]] : s \in Reported}
  /\ UNCHANGED <<worldVars, crVars, query, tenants, toInspect, entries,
                 problems, toEnrich, calls, results, stampSame,
                 sameSecond, queueVars, bounds, told>>

SummaryFails ==
  /\ pc = "summary" /\ Fault
  /\ RequeueAfter
  /\ UNCHANGED <<worldVars, crVars, sameSecond, queued, moves>>

\* The pages of one namespace, each after a second's pause; a page that Slack
\* refuses is lost.
SendPages(n) ==
  /\ pc = "pages" /\ n \in toSend
  /\ toSend' = toSend \ {n}
  /\ sameSecond' = FALSE
  /\ LET due == {s \in Reported : NamespaceOf[PodOf[s]] = n}
     IN  \E accepted \in SUBSET due :
           Works(accepted = due) /\ told' = told \cup accepted
  /\ UNCHANGED <<worldVars, crVars, pc, query, tenants, toInspect, entries,
                 problems, toEnrich, calls, results, stampSame,
                 queueVars, moves>>

ReportDone ==
  /\ pc = "pages" /\ toSend = {}
  /\ RequeueAfter
  /\ UNCHANGED <<worldVars, crVars, sameSecond, queued, bounds>>

Worker ==
  \/ Reconcile \/ ListPods \/ ListFails \/ AllInspected
  \/ \E p \in Pods : Inspect(p)
  \/ \E s \in Sources : Enrich(s)
  \/ StartAnalyses \/ TakeResults \/ UpdateStatus \/ UpdateFails
  \/ SendSummary \/ SummaryFails \/ ReportDone
  \/ \E n \in Namespaces : SendPages(n)

-----------------------------------------------------------------------------
(***************************************************************************)
(* The world around it.                                                    *)
(***************************************************************************)

\* A restart reads everything anew and queues every resource.
Restart ==
  /\ Fault
  /\ ReturnError
  /\ cached' = spec /\ fresh' = TRUE /\ wait' = FALSE
  /\ UNCHANGED <<worldVars, spec, status, sameSecond, moves>>

\* The watch event reaches the informer.  Without a predicate every change of
\* the resource, that of its own status too, goes to the queue.
CacheSync ==
  /\ ~fresh /\ fresh' = TRUE
  /\ cached' = spec /\ queued' = TRUE
  /\ UNCHANGED <<worldVars, spec, status, pc, passVars, sameSecond, wait,
                 bounds, told>>

TimerFires ==
  /\ wait /\ wait' = FALSE /\ queued' = TRUE
  /\ UNCHANGED <<worldVars, crVars, pc, passVars, sameSecond, bounds, told>>

\* An administrator turns the analysis on or off.
EditSpec ==
  /\ moves < MaxMoves /\ moves' = moves + 1
  /\ spec' = [ai |-> ~spec.ai, generation |-> spec.generation + 1]
  /\ fresh' = FALSE
  /\ UNCHANGED <<worldVars, status, cached, pc, passVars, sameSecond,
                 queueVars, faults, told>>

\* A pod starts or goes away.
PodMoves(p) ==
  /\ moves < MaxMoves /\ moves' = moves + 1
  /\ running' = IF p \in running THEN running \ {p} ELSE running \cup {p}
  /\ UNCHANGED <<trouble, crVars, pc, passVars, sameSecond, queueVars, faults,
                 told>>

\* Problems are logged, or get older than ErrorLogScanInterval.
TroubleMoves(p, ms) ==
  /\ moves < MaxMoves /\ moves' = moves + 1
  /\ trouble' = [trouble EXCEPT ![p] = ms]
  /\ UNCHANGED <<running, crVars, pc, passVars, sameSecond, queueVars, faults,
                 told>>

Environment ==
  \/ Restart \/ EditSpec
  \/ \E p \in Pods : PodMoves(p) \/ \E ms \in Troubles[p] : TroubleMoves(p, ms)

Analyses == \E s \in Sources : AnalysisReturns(s)

Next == Worker \/ Analyses \/ CacheSync \/ TimerFires \/ Environment

Spec == Init /\ [][Next]_vars

\* The work queue hands the resource to a worker; every analysis ends, by its
\* own timeout if need be; watches deliver and the timer fires.
FairSpec ==
  Spec /\ WF_vars(Worker) /\ WF_vars(Analyses) /\ WF_vars(CacheSync)
       /\ WF_vars(TimerFires)
-----------------------------------------------------------------------------
(***************************************************************************)
(* Properties.                                                             *)
(***************************************************************************)

\* Every variable keeps its type.
TypeOK ==
  /\ running \subseteq Pods /\ trouble \in [Pods -> SUBSET Problems]
  /\ spec \in Specifications /\ spec.generation <= moves + 1
  /\ status \in Statuses /\ cached \in Specifications
  /\ fresh \in BOOLEAN /\ pc \in Stages /\ query \in Specifications
  /\ tenants \in BOOLEAN /\ toInspect \subseteq Pods /\ entries \subseteq Sources
  /\ problems \in [Pods -> Details]
  /\ toEnrich \subseteq entries /\ calls \subseteq entries
  /\ \A r \in results :
       r.analysis \in Answers /\ r.logs \in (Clusters \X Clients) \cup {None}
  /\ sameSecond \in BOOLEAN /\ stampSame \in BOOLEAN
  /\ toSend \subseteq Namespaces /\ wait \in BOOLEAN /\ queued \in BOOLEAN
  /\ faults \in 0..MaxFaults /\ moves \in 0..MaxMoves
  /\ told \subseteq Sources

\* The analysis of a problem, and the broker logs stored with it, answer one
\* call that was made about this very message for a pod of this name: results
\* that arrive in any order never cross to another problem (L374-400).  That
\* the pod is the same one is not promised: the key lacks the namespace.
Fits(p, d) ==
  d.analysis # NoAnswer =>
    /\ d.analysis.about = d.base
    /\ NameOf[PodOf[d.analysis.source]] = NameOf[p]
    /\ d.logs = LogsFor(d.analysis.source)
AnswersFit == \A p \in Pods : Fits(p, status.problems[p])

\* A status that claims the current generation was computed for the current
\* specification, though that may be edited at any point of the pass: every
\* problem in it has an answer if and only if the analysis is enabled
\* (ObservedGeneration, L210; AI switch, L79-83).
Asked(d, ai) == d.base # None => (d.analysis # NoAnswer <=> ai)
AnalysedAsAsked ==
  status.observed = spec.generation =>
    \A s \in status.entries : Asked(status.problems[PodOf[s]], spec.ai)

\* The entries of a pod append to one shared message, each at most once and
\* only entries that are listed: summaries do not pile up from pass to pass
\* (L226-285).
Once(p, seq, listed) ==
  /\ \A i, j \in DOMAIN seq : seq[i] = seq[j] => i = j
  /\ \A i \in DOMAIN seq : seq[i] \in listed /\ PodOf[seq[i]] = p
SummariesOnce ==
  \A p \in Pods : Once(p, status.problems[p].summaries, status.entries)

\* Slack is told only what the status already says, with the same details
\* (L404-425).
ReportFollowsRecord ==
  [][\A s \in told' \ told :
       s \in status.entries /\ status.problems[PodOf[s]] = problems[PodOf[s]]]_vars

\* The status is a complete survey, replaced as a whole.
SurveyStages == {"inspect", "enrich", "analyse", "write"}
NotesOf(es, ds) == {[pod |-> PodOf[s], problem |-> ds[PodOf[s]].base] : s \in es}
Survey == INSTANCE KafkaSurvey WITH
  surveying <- pc \in SurveyStages,
  todo <- toInspect,
  notes <- IF pc \in SurveyStages THEN NotesOf(entries, problems) ELSE {},
  published <- NotesOf(status.entries, status.problems)

\* A pass is a survey of the running pods, and the status never shows a part of
\* one or a mixture of two, whatever fails or restarts (L117-208, L404-417).
ImplementsSurvey == Survey!Spec

\* When the set of running pods settles, so does the status: all entries of
\* these pods and no others, with their tenants.  What one pass lost to a
\* failed read comes back (L96, L160), by the requeue if by nothing else.
Converges ==
  \A ps \in SUBSET Pods :
    <>[](running = ps) =>
      <>[](status.entries = UNION {SourcesOf(p) : p \in ps} /\ status.tenants)

\* A pod that stays in trouble is reported to Slack again and again.
TroubleIsReported ==
  \A p \in Pods :
    <>[](p \in running /\ trouble[p] # {}) /\ SourcesOf(p) # {} =>
      []<>(\E s \in told : PodOf[s] = p)
=============================================================================

---------------------------- MODULE KafkaPassProofs ----------------------------
(***************************************************************************)
(* The inspection, call by call: what is carried from pod to pod, that it  *)
(* implements KafkaSurvey, and whose tenants an entry shows.               *)
(***************************************************************************)
EXTENDS KafkaPass, FiniteSetTheorems, WellFoundedInduction, TLAPS

USE DEF worldVars, podVars, inspectVars, slackVars

-----------------------------------------------------------------------------
(***************************************************************************)
(* The inductive invariant of the inspection.                              *)
(***************************************************************************)

\* Stages in which one pod is being inspected.
Inspecting == {"events", "logs", "variables", "files"}

\* The pods that are done, the one being inspected and those to come are
\* disjoint, and nothing is carried from one to the next.
PodsInv ==
  /\ pc \in {"idle", "next", "report"} \cup Inspecting
  /\ todo \subseteq Pods /\ pod \notin todo
  /\ pod \in IF pc \in Inspecting THEN Pods ELSE {None}
  /\ pc \in {"idle", "report"} => todo = {}
  /\ pc = "idle" => infos = {}
  /\ \A i \in infos :
       /\ i.pod \in Pods \ todo
       /\ pc \in {"events", "logs"} => i.pod # pod
       /\ i.pod = pod => i.problems = kept

Problem == [type : {"Warning", "Error", "Panic"}, count : Nat \ {0}]

\* What is found and kept are messages of the pod.
ProblemsInv ==
  /\ journal \in [Logged -> UNION {Journals[c] : c \in Logged}]
  /\ \A c \in Logged : journal[c] \in Journals[c]
  /\ read \in [Containers -> Nat]
  /\ unread \subseteq Logged
  /\ \A m \in DOMAIN found : found[m] \in Problem
  /\ pc = "events" => found = Nothing
  /\ pc \in {"logs", "variables", "files"} => DOMAIN found \subseteq MessagesOf(pod)
  /\ pc = "logs" => unread \subseteq {c \in Logged : PodOf[c] = pod}
  /\ kept \subseteq DOMAIN found
  /\ kept = {} \/ \E m \in kept : kept = {m}
  /\ pc \notin {"variables", "files"} => kept = {}

\* Entries have their shape.
EntriesInv ==
  /\ unchecked \subseteq Containers /\ unparsed \subseteq Files
  /\ IsFiniteSet(infos) /\ IsFiniteSet(listed)
  /\ \A i \in infos \cup listed :
       /\ i.pod \in Pods /\ i.source \in Containers \cup Files
       /\ i.brokers # <<>> /\ i.clientType \in {"Consumer", "Producer", "Unknown"}
       /\ Cardinality(i.problems) <= 1
  /\ faults \in 0..MaxFaults

InspectInv == PodsInv /\ ProblemsInv /\ EntriesInv

LEMMA InspectInit == PassInit => InspectInv
<1> SUFFICES ASSUME PassInit PROVE InspectInv
  OBVIOUS
<1>1. PodsInv
  BY DEF PassInit, Init, PodsInv, Inspecting
<1>2. ProblemsInv
  BY DEF PassInit, Init, ProblemsInv, Nothing, NothingRead
<1>3. EntriesInv
  BY FS_EmptySet, InspectionAssumption DEF PassInit, Init, EntriesInv
<1>4. QED
  BY <1>1, <1>2, <1>3 DEF InspectInv

\* A failed call costs at most one fault.
LEMMA WorksType ==
  ASSUME NEW ok, Works(ok), faults \in 0..MaxFaults
  PROVE  faults' \in 0..MaxFaults
BY InspectionAssumption DEF Works

\* Entering an occurrence keeps the types of the map.
LEMMA WithProblemType ==
  ASSUME NEW problems, NEW message, NEW type \in {"Warning", "Error", "Panic"},
         \A m \in DOMAIN problems : problems[m] \in Problem
  PROVE  LET q == WithProblem(problems, message, type)
         IN  /\ DOMAIN q = DOMAIN problems \cup {message}
             /\ \A m \in DOMAIN q : q[m] \in Problem
BY DEF WithProblem, Problem

LEMMA WithEventsType ==
  ASSUME NEW problems, NEW p \in Pods,
         \A m \in DOMAIN problems : problems[m] \in Problem
  PROVE  LET q == WithEvents(problems, p)
         IN  /\ DOMAIN q = DOMAIN problems \cup {EventMessage(p, i) : i \in DOMAIN Events[p]}
             /\ \A m \in DOMAIN q : q[m] \in Problem
<1> DEFINE these(m) == {i \in DOMAIN Events[p] : EventMessage(p, i) = m}
<1> DEFINE q == WithEvents(problems, p)
<1>1. DOMAIN q = DOMAIN problems \cup {EventMessage(p, i) : i \in DOMAIN Events[p]}
  BY DEF WithEvents
<1>2. ASSUME NEW m \in DOMAIN q PROVE q[m] \in Problem
  <2>1. IsFiniteSet(these(m))
    BY FS_Subset, InspectionAssumption
  <2>2. Cardinality(these(m)) \in Nat
    BY <2>1, FS_CardinalityType
  <2>3. CASE m \in DOMAIN problems
    <3>1. q[m] = [problems[m] EXCEPT !.count = @ + Cardinality(these(m))]
      BY <1>1, <2>3 DEF WithEvents
    <3>2. problems[m] \in Problem
      BY <2>3
    <3>3. QED
      BY <2>2, <3>1, <3>2 DEF Problem
  <2>4. CASE m \notin DOMAIN problems
    <3>1. q[m] = [type |-> "Warning", count |-> Cardinality(these(m))]
      BY <1>1, <2>4 DEF WithEvents
    <3>2. these(m) # {}
      BY <1>1, <2>4
    <3>3. Cardinality(these(m)) # 0
      BY <2>1, <3>2, FS_EmptySet
    <3>4. QED
      BY <2>2, <3>1, <3>3 DEF Problem
  <2>5. QED
    BY <2>3, <2>4
<1>3. QED
  BY <1>1, <1>2

LEMMA PodsStep ==
  ASSUME PodsInv, InspectionStep
  PROVE  PodsInv'
<1>1. CASE Begin
  BY <1>1, InspectionAssumption DEF Begin, ListPods, PodsInv, Inspecting
<1>2. CASE ListFails
  BY <1>2 DEF ListFails, PodsInv, Inspecting
<1>3. CASE ListEvents
  BY <1>3 DEF ListEvents, PodsInv, Inspecting
<1>4. CASE KeepProblems
  BY <1>4 DEF KeepProblems, PodsInv, Inspecting
<1>5. CASE GetMountedConfigMaps
  BY <1>5 DEF GetMountedConfigMaps, PodsInv, Inspecting
<1>6. CASE PodDone
  BY <1>6, InspectionAssumption DEF PodDone, PodsInv, Inspecting
<1>7. CASE Conclude
  BY <1>7 DEF Conclude, PodsInv, Inspecting
<1>8. ASSUME NEW p \in Pods, NextPod(p) PROVE PodsInv'
  BY <1>8 DEF NextPod, PodsInv, Inspecting
<1>9. ASSUME NEW c \in Containers, ReadLine(c) PROVE PodsInv'
  BY <1>9 DEF ReadLine, PodsInv, Inspecting
<1>10. ASSUME NEW c \in Containers, LogEnds(c) PROVE PodsInv'
  BY <1>10 DEF LogEnds, PodsInv, Inspecting
<1>11. ASSUME NEW c \in Containers, CheckContainer(c) PROVE PodsInv'
  <2>1. PICK hosts : infos' \in {infos, infos \cup {Info(c, HostsAlone(hosts))}}
    BY <1>11 DEF CheckContainer
  <2>2. QED
    BY <1>11, <2>1 DEF CheckContainer, PodsInv, Inspecting, Info
<1>12. ASSUME NEW f \in Files, ParseFile(f) PROVE PodsInv'
  <2>1. PICK d : infos' \in {infos, infos \cup {Info(f, d)}}
    BY <1>12 DEF ParseFile
  <2>2. QED
    BY <1>12, <2>1 DEF ParseFile, PodsInv, Inspecting, Info
<1>13. QED
  BY <1>1, <1>2, <1>3, <1>4, <1>5, <1>6, <1>7, <1>8, <1>9, <1>10, <1>11, <1>12
     DEF InspectionStep

LEMMA KeptFew ==
  ASSUME InspectInv
  PROVE  Cardinality(kept) <= 1
<1>1. CASE kept = {}
  BY <1>1, FS_EmptySet
<1>2. CASE \E m \in kept : kept = {m}
  <2>1. PICK m \in kept : kept = {m}
    BY <1>2
  <2>2. Cardinality({m}) = 1
    BY FS_Singleton
  <2>3. QED
    BY <2>1, <2>2
<1>3. QED
  BY <1>1, <1>2 DEF InspectInv, ProblemsInv

LEMMA EntriesStep ==
  ASSUME InspectInv, InspectionStep
  PROVE  EntriesInv'
<1> USE DEF InspectInv, EntriesInv
<1>1. CASE Begin
  BY <1>1, WorksType DEF Begin
<1>2. CASE ListFails
  BY <1>2, WorksType DEF ListFails
<1>3. CASE ListEvents
  BY <1>3, WorksType DEF ListEvents
<1>4. CASE KeepProblems
  BY <1>4 DEF KeepProblems
<1>5. CASE GetMountedConfigMaps
  BY <1>5, WorksType, InspectionAssumption DEF GetMountedConfigMaps, PodsInv, Inspecting
<1>6. CASE PodDone
  BY <1>6 DEF PodDone
<1>7. CASE Conclude
  BY <1>7 DEF Conclude
<1>8. ASSUME NEW p \in Pods, NextPod(p) PROVE EntriesInv'
  BY <1>8, WorksType DEF NextPod, LoginFound
<1>9. ASSUME NEW c \in Containers, ReadLine(c) PROVE EntriesInv'
  BY <1>9 DEF ReadLine
<1>10. ASSUME NEW c \in Containers, LogEnds(c) PROVE EntriesInv'
  BY <1>10, WorksType DEF LogEnds
<1>11. Cardinality(kept) <= 1
  BY KeptFew
<1>12. ASSUME NEW c \in Containers, CheckContainer(c) PROVE EntriesInv'
  <2>1. PICK failed \in SUBSET References(c) :
          /\ \E ok : Works(ok)
          /\ infos' = IF Endpoints(c, failed) = <<>> THEN infos
                      ELSE infos \cup {Info(c, HostsAlone(Endpoints(c, failed)))}
    BY <1>12 DEF CheckContainer
  <2>2. IsFiniteSet(infos')
    BY <2>1, FS_AddElement
  <2>3. faults' \in 0..MaxFaults
    BY <2>1, WorksType
  <2>4. QED
    BY <1>11, <1>12, <2>1, <2>2, <2>3 DEF CheckContainer, Info, HostsAlone, PodsInv, Inspecting
<1>13. ASSUME NEW f \in Files, ParseFile(f) PROVE EntriesInv'
  <2>1. PICK d \in Parse(content[f]) :
          infos' = IF d.brokers = <<>> THEN infos
                   ELSE infos \cup {Info(f, d)}
    BY <1>13 DEF ParseFile
  <2>2. IsFiniteSet(infos')
    BY <2>1, FS_AddElement
  <2>3. d.clientType \in {"Consumer", "Producer", "Unknown"}
    BY <2>1 DEF Parse, ClientType
  <2>4. QED
    BY <1>11, <1>13, <2>1, <2>2, <2>3 DEF ParseFile, Info, PodsInv, Inspecting
<1>14. QED
  BY <1>1, <1>2, <1>3, <1>4, <1>5, <1>6, <1>7, <1>8, <1>9, <1>10, <1>12, <1>13
     DEF InspectionStep

\* Messages of a line belong to its pod as soon as they are read.
LEMMA LineIsOfPod ==
  ASSUME ProblemsInv, NEW c \in Logged, NEW i \in 1..Len(journal[c]),
         Matters(journal[c][i])
  PROVE  LineMessage(c, journal[c][i]) \in MessagesOf(PodOf[c])
<1>1. DOMAIN journal[c] = 1..Len(journal[c])
  BY InspectionAssumption DEF ProblemsInv
<1>2. QED
  BY <1>1 DEF MessagesOf

LEMMA ProblemsStep ==
  ASSUME InspectInv, InspectionStep
  PROVE  ProblemsInv'
<1> USE DEF InspectInv, ProblemsInv
<1>1. CASE Begin
  BY <1>1 DEF Begin, MessagesOf
<1>2. CASE ListFails
  BY <1>2 DEF ListFails, MessagesOf
<1>3. CASE ListEvents
  <2>1. found = Nothing /\ pod \in Pods
    BY <1>3 DEF ListEvents, PodsInv, Inspecting
  <2>2. CASE found' = found
    BY <1>3, <2>1, <2>2 DEF ListEvents, MessagesOf, Nothing
  <2>3. CASE found' = WithEvents(found, pod)
    <3>1. DOMAIN found' = {EventMessage(pod, i) : i \in DOMAIN Events[pod]}
      <4>1. DOMAIN found = {}
        BY <2>1 DEF Nothing
      <4>2. DOMAIN found' = DOMAIN found \cup {EventMessage(pod, i) : i \in DOMAIN Events[pod]}
        BY <2>1, <2>3, WithEventsType
      <4>3. QED
        BY <4>1, <4>2
    <3>2. DOMAIN found' \subseteq MessagesOf(pod)'
      BY <1>3, <3>1 DEF ListEvents, MessagesOf
    <3>3. \A m \in DOMAIN found' : found'[m] \in Problem
      BY <2>1, <2>3, WithEventsType
    <3>4. QED
      BY <1>3, <3>2, <3>3 DEF ListEvents
  <2>4. QED
    BY <1>3, <2>2, <2>3 DEF ListEvents
<1>4. CASE KeepProblems
  <2>1. MessagesOf(pod)' = MessagesOf(pod)
    BY <1>4 DEF KeepProblems, MessagesOf
  <2>2. QED
    BY <1>4, <2>1 DEF KeepProblems
<1>5. CASE GetMountedConfigMaps
  <2>1. MessagesOf(pod)' = MessagesOf(pod)
    BY <1>5 DEF GetMountedConfigMaps, MessagesOf
  <2>2. QED
    BY <1>5, <2>1 DEF GetMountedConfigMaps
<1>6. CASE PodDone
  BY <1>6 DEF PodDone
<1>7. CASE Conclude
  BY <1>7 DEF Conclude
<1>8. ASSUME NEW p \in Pods, NextPod(p) PROVE ProblemsInv'
  BY <1>8 DEF NextPod, Nothing, NothingRead
<1>9. ASSUME NEW c \in Containers, ReadLine(c) PROVE ProblemsInv'
  <2>1. MessagesOf(pod)' = MessagesOf(pod)
    BY <1>9 DEF ReadLine, MessagesOf
  <2>2. c \in Logged /\ PodOf[c] = pod
    BY <1>9 DEF ReadLine, Reading
  <2>3. read[c] + 1 \in 1..Len(journal[c])
    BY <1>9, <2>2, InspectionAssumption DEF ReadLine
  <2>4. read' \in [Containers -> Nat]
    BY <1>9 DEF ReadLine
  <2>5. CASE Matters(journal[c][read[c] + 1])
    <3> DEFINE line == journal[c][read[c] + 1]
    <3>1. found' = WithProblem(found, LineMessage(c, line), LineType(line))
      BY <1>9, <2>5 DEF ReadLine
    <3>2. LineMessage(c, line) \in MessagesOf(pod)
      BY <2>2, <2>3, <2>5, LineIsOfPod
    <3>3. LineType(line) \in {"Warning", "Error", "Panic"}
      BY DEF LineType
    <3>4. /\ DOMAIN found' = DOMAIN found \cup {LineMessage(c, line)}
          /\ \A m \in DOMAIN found' : found'[m] \in Problem
      BY <3>1, <3>3, WithProblemType
    <3>5. QED
      BY <1>9, <2>1, <2>4, <3>2, <3>4 DEF ReadLine
  <2>6. CASE ~Matters(journal[c][read[c] + 1])
    BY <1>9, <2>1, <2>4, <2>6 DEF ReadLine
  <2>7. QED
    BY <2>5, <2>6
<1>10. ASSUME NEW c \in Containers, LogEnds(c) PROVE ProblemsInv'
  <2>1. MessagesOf(pod)' = MessagesOf(pod)
    BY <1>10 DEF LogEnds, MessagesOf
  <2>2. QED
    BY <1>10, <2>1 DEF LogEnds
<1>11. ASSUME NEW c \in Containers, CheckContainer(c) PROVE ProblemsInv'
  <2>1. MessagesOf(pod)' = MessagesOf(pod)
    BY <1>11 DEF CheckContainer, MessagesOf
  <2>2. QED
    BY <1>11, <2>1 DEF CheckContainer
<1>12. ASSUME NEW f \in Files, ParseFile(f) PROVE ProblemsInv'
  <2>1. MessagesOf(pod)' = MessagesOf(pod)
    BY <1>12 DEF ParseFile, MessagesOf
  <2>2. QED
    BY <1>12, <2>1 DEF ParseFile
<1>13. QED
  BY <1>1, <1>2, <1>3, <1>4, <1>5, <1>6, <1>7, <1>8, <1>9, <1>10, <1>11, <1>12
     DEF InspectionStep

LEMMA InspectStep ==
  ASSUME InspectInv, [PassNext]_vars
  PROVE  InspectInv'
<1>1. CASE InspectionStep
  BY <1>1, PodsStep, EntriesStep, ProblemsStep DEF InspectInv
<1>2. CASE ReportStep
  <2>1. PodsInv' /\ ProblemsInv'
    BY <1>2 DEF ReportStep, InspectInv, PodsInv, ProblemsInv, Inspecting, MessagesOf
  <2>2. EntriesInv'
    BY <1>2, WorksType DEF ReportStep, InspectInv, EntriesInv
  <2>3. QED
    BY <2>1, <2>2 DEF InspectInv
<1>3. CASE PassEnds
  BY <1>3, FS_EmptySet
     DEF PassEnds, InspectInv, PodsInv, ProblemsInv, EntriesInv, Inspecting, MessagesOf
<1>4. CASE UNCHANGED vars
  BY <1>4 DEF vars, InspectInv, PodsInv, ProblemsInv, EntriesInv, Inspecting, MessagesOf
<1>5. QED
  BY <1>1, <1>2, <1>3, <1>4 DEF PassNext

\* Nothing is carried from one pod to the next (NextPod, FetchRecentProblems).
THEOREM InspectInvariant == PassSpec => []InspectInv
BY InspectInit, InspectStep, PTL DEF PassSpec

-----------------------------------------------------------------------------
(***************************************************************************)
(* The inspection implements KafkaSurvey.                                  *)
(***************************************************************************)

\* The mapped variables of the survey.
Trouble == [p \in Pods |-> MessagesOf(p)]
Surveying == pc \notin {"idle", "report"}
ToSurvey == IF pod = None THEN todo ELSE todo \cup {pod}
Notes == IF pc \in {"idle", "report"} THEN {} ELSE NotesOf({i \in infos : i.pod # pod})
Published == NotesOf(listed)

\* Messages of a pod come from its events and from the journals of the
\* containers, which never change in a pass.
LEMMA WorldStays == UNCHANGED journal => Trouble' = Trouble
BY DEF Trouble, MessagesOf

LEMMA SurveyStutter ==
  ASSUME UNCHANGED journal, Surveying' = Surveying, ToSurvey' = ToSurvey,
         Notes' = Notes, Published' = Published
  PROVE  [Survey!Next]_Survey!vars
BY WorldStays DEF Survey!vars, Trouble, Surveying, ToSurvey, Notes, Published

LEMMA SurveyInit == PassInit => Survey!Init
<1> SUFFICES ASSUME PassInit PROVE Survey!Init
  OBVIOUS
<1>1. ListPods \in SUBSET Pods
  BY DEF ListPods
<1>2. ASSUME NEW p \in Pods PROVE MessagesOf(p) \subseteq Messages
  <2> SUFFICES ASSUME NEW m \in MessagesOf(p) PROVE m \in Messages
    OBVIOUS
  <2>1. CASE m \in {EventMessage(p, i) : i \in DOMAIN Events[p]}
    BY <2>1 DEF Messages
  <2>2. ASSUME NEW c \in Logged, NEW i \in DOMAIN journal[c], m = LineMessage(c, journal[c][i])
        PROVE  m \in Messages
    <3>1. journal[c] \in Journals[c]
      BY InspectInit DEF InspectInv, ProblemsInv
    <3> DEFINE of(d) == UNION {{LineMessage(d, log[j]) : j \in DOMAIN log} : log \in Journals[d]}
    <3>2. m \in {LineMessage(c, journal[c][j]) : j \in DOMAIN journal[c]}
      BY <2>2
    <3>3. m \in of(c)
      BY <3>1, <3>2, Zenon
    <3> HIDE DEF of
    <3>4. m \in UNION {of(d) : d \in Logged}
      BY <3>3
    <3>5. QED
      BY <3>4, Zenon DEF Messages, of
  <2>3. \/ m \in {EventMessage(p, i) : i \in DOMAIN Events[p]}
        \/ \E c \in Logged : \E i \in DOMAIN journal[c] : m = LineMessage(c, journal[c][i])
    BY Zenon DEF MessagesOf
  <2>4. QED
    BY <2>1, <2>2, <2>3
<1>3. Trouble \in [Pods -> SUBSET Messages]
  BY <1>2 DEF Trouble
<1>4. QED
  BY <1>1, <1>3 DEF PassInit, Init, Survey!Init, NotesOf, Trouble

\* The entries of the pod that is done become its note.
LEMMA PodIsLookedAt ==
  ASSUME InspectInv, PodDone
  PROVE  [Survey!Next]_Survey!vars
<1> DEFINE m == IF kept = {} THEN None ELSE CHOOSE x \in kept : TRUE
<1> DEFINE mine == {i \in infos : i.pod = pod}
<1> USE DEF InspectInv
<1>1. pod \in Pods /\ pod # None /\ pod \notin todo
  BY InspectionAssumption DEF PodDone, PodsInv, Inspecting
<1>2. m \in Trouble[pod] \cup {None}
  BY <1>1 DEF PodDone, ProblemsInv, Trouble
<1>3. NotesOf(mine) \in {{}, {Survey!Note(pod, m)}}
  BY DEF NotesOf, ProblemOf, PodsInv, Survey!Note
<1>4. NotesOf(infos) = NotesOf({i \in infos : i.pod # pod}) \cup NotesOf(mine)
  BY DEF NotesOf
<1>5. Notes = NotesOf({i \in infos : i.pod # pod})
  BY DEF Notes, PodDone
<1>6. Notes' = NotesOf(infos)
  <2>1. {i \in infos : i.pod # None} = infos
    BY InspectionAssumption DEF PodsInv
  <2>2. QED
    BY <2>1 DEF Notes, PodDone
<1>7. Notes' \in {Notes, Notes \cup {Survey!Note(pod, m)}}
  BY <1>3, <1>4, <1>5, <1>6
<1>8. Surveying /\ Surveying' /\ ToSurvey = todo \cup {pod} /\ ToSurvey' = todo
  BY <1>1 DEF PodDone, Surveying, ToSurvey
<1>9. Trouble' = Trouble /\ Published' = Published
  BY WorldStays DEF PodDone, Published
<1>10. Survey!Look(pod)
  <2>1. \E n \in Trouble[pod] \cup {None} : Notes' \in {Notes, Notes \cup {Survey!Note(pod, n)}}
    BY <1>2, <1>7
  <2>2. Surveying /\ pod \in ToSurvey /\ ToSurvey' = ToSurvey \ {pod}
    BY <1>1, <1>8
  <2>3. QED
    BY <1>8, <1>9, <2>1, <2>2, Zenon
       DEF Survey!Look, Survey!Note, Trouble, Surveying, ToSurvey, Notes, Published
<1>11. QED
  BY <1>1, <1>10 DEF Survey!Next

LEMMA InspectionStutters ==
  ASSUME InspectInv, InspectionStep
  PROVE  [Survey!Next]_Survey!vars
<1> USE DEF InspectInv
<1> USE InspectionAssumption
<1>1. CASE Begin
  <2>1. Trouble' = Trouble
    BY <1>1, WorldStays DEF Begin
  <2>2. pod = None /\ infos = {}
    BY <1>1 DEF Begin, PodsInv, Inspecting
  <2>3. Survey!Begin
    BY <1>1, <2>1, <2>2 DEF Begin, Survey!Begin, Trouble, NotesOf
  <2>4. QED
    BY <2>3 DEF Survey!Next
<1>2. CASE ListFails
  BY <1>2, SurveyStutter DEF ListFails, Surveying, ToSurvey, Notes, Published
<1>3. CASE ListEvents
  BY <1>3, SurveyStutter DEF ListEvents, Surveying, ToSurvey, Notes, Published
<1>4. CASE KeepProblems
  BY <1>4, SurveyStutter DEF KeepProblems, Surveying, ToSurvey, Notes, Published
<1>5. CASE GetMountedConfigMaps
  BY <1>5, SurveyStutter DEF GetMountedConfigMaps, Surveying, ToSurvey, Notes, Published
<1>6. CASE PodDone
  BY <1>6, PodIsLookedAt
<1>7. CASE Conclude
  <2>1. Trouble' = Trouble
    BY <1>7, WorldStays DEF Conclude
  <2>2. pod = None /\ {i \in infos : i.pod # None} = infos
    BY <1>7 DEF Conclude, PodsInv, Inspecting
  <2>3. Survey!Publish
    BY <1>7, <2>1, <2>2 DEF Conclude, Survey!Publish, Trouble
  <2>4. QED
    BY <2>3 DEF Survey!Next
<1>8. ASSUME NEW p \in Pods, NextPod(p) PROVE [Survey!Next]_Survey!vars
  <2>1. pod = None
    BY <1>8 DEF NextPod, PodsInv, Inspecting
  <2>2. {i \in infos : i.pod # p} = {i \in infos : i.pod # pod}
    BY <1>8, <2>1 DEF NextPod, PodsInv
  <2>3. Notes' = Notes
    BY <1>8, <2>2 DEF NextPod, Notes
  <2>4. ToSurvey' = ToSurvey
    BY <1>8, <2>1 DEF NextPod, ToSurvey
  <2>5. QED
    BY <1>8, <2>3, <2>4, SurveyStutter DEF NextPod, Surveying, Published
<1>9. ASSUME NEW c \in Containers, ReadLine(c) PROVE [Survey!Next]_Survey!vars
  BY <1>9, SurveyStutter DEF ReadLine, Surveying, ToSurvey, Notes, Published
<1>10. ASSUME NEW c \in Containers, LogEnds(c) PROVE [Survey!Next]_Survey!vars
  BY <1>10, SurveyStutter DEF LogEnds, Surveying, ToSurvey, Notes, Published
<1>11. ASSUME NEW c \in Containers, CheckContainer(c) PROVE [Survey!Next]_Survey!vars
  <2>1. {i \in infos' : i.pod # pod} = {i \in infos : i.pod # pod}
    BY <1>11 DEF CheckContainer, Info
  <2>2. Notes' = Notes
    BY <1>11, <2>1 DEF CheckContainer, Notes
  <2>3. QED
    BY <1>11, <2>2, SurveyStutter DEF CheckContainer, Surveying, ToSurvey, Published
<1>12. ASSUME NEW f \in Files, ParseFile(f) PROVE [Survey!Next]_Survey!vars
  <2>1. {i \in infos' : i.pod # pod} = {i \in infos : i.pod # pod}
    BY <1>12 DEF ParseFile, Info
  <2>2. Notes' = Notes
    BY <1>12, <2>1 DEF ParseFile, Notes
  <2>3. QED
    BY <1>12, <2>2, SurveyStutter DEF ParseFile, Surveying, ToSurvey, Published
<1>13. QED
  BY <1>1, <1>2, <1>3, <1>4, <1>5, <1>6, <1>7, <1>8, <1>9, <1>10, <1>11, <1>12
     DEF InspectionStep

LEMMA SurveyStep ==
  ASSUME InspectInv, [PassNext]_vars
  PROVE  [Survey!Next]_Survey!vars
<1>1. CASE InspectionStep
  BY <1>1, InspectionStutters
<1>2. CASE ReportStep
  BY <1>2, SurveyStutter DEF ReportStep, Surveying, ToSurvey, Notes, Published
<1>3. CASE PassEnds
  BY <1>3, SurveyStutter DEF PassEnds, Surveying, ToSurvey, Notes, Published
<1>4. CASE UNCHANGED vars
  BY <1>4, SurveyStutter DEF vars, Surveying, ToSurvey, Notes, Published
<1>5. QED
  BY <1>1, <1>2, <1>3, <1>4 DEF PassNext

\* Whatever calls fail and in whatever order maps give their entries, a pass is
\* a survey: each pod that was listed is looked at once, and has at most one
\* problem, one of its own (Reconcile, L106-211).
THEOREM PassIsSurvey == PassSpec => InspectionIsSurvey
<1>1. InspectInv /\ [PassNext]_vars => [Survey!Next]_Survey!vars
  BY SurveyStep
<1>2. QED
  BY <1>1, SurveyInit, InspectInvariant, PTL DEF PassSpec, InspectionIsSurvey, Survey!Spec

-----------------------------------------------------------------------------
(***************************************************************************)
(* Tenants.                                                                *)
(***************************************************************************)

\* Of accounts that were entered in turn, one is the last.
LEMMA OneIsLast ==
  ASSUME NEW turn \in [Accounts -> 1..Cardinality(Accounts)],
         NEW S, S \subseteq Accounts, S # {}
  PROVE  \E a \in S : \A b \in S : turn[b] <= turn[a]
<1> DEFINE n == Cardinality(Accounts)
<1> DEFINE left == {n - turn[a] : a \in S}
<1>1. n \in Nat
  BY FS_CardinalityType, InspectionAssumption
<1>2. \A a \in Accounts : turn[a] \in Nat /\ turn[a] <= n
  BY <1>1
<1>3. left \subseteq Nat /\ left # {}
  BY <1>1, <1>2
<1>4. PICK x \in left : \A y \in left : ~(<<y, x>> \in OpToRel(<, Nat))
  BY <1>3, WFMin, NatLessThanWellFounded
<1>5. PICK a \in S : x = n - turn[a]
  BY <1>4
<1>6. ASSUME NEW b \in S PROVE turn[b] <= turn[a]
  <2>1. n - turn[b] \in left
    OBVIOUS
  <2>2. ~(n - turn[b] < x)
    BY <1>3, <1>4, <2>1 DEF OpToRel
  <2>3. QED
    BY <1>1, <1>2, <1>5, <2>2
<1>7. QED
  BY <1>6

\* The map has every name that an account goes by, and only tenants of accounts
\* that go by it.
LEMMA TenantsByName ==
  ASSUME NEW map \in TenantMaps
  PROVE  \A name : /\ name \in DOMAIN map <=> Bearers(name) # {}
                   /\ name \in DOMAIN map => \E a \in Bearers(name) : map[name] = a.tenants
<1> DEFINE names == UNION {{a.address, a.name} : a \in Accounts}
<1> DEFINE Entered(a, n) == n \in {a.address, a.name}
<1> DEFINE Last(turn, n) == CHOOSE a \in Accounts :
             Entered(a, n) /\ \A b \in Accounts : Entered(b, n) => turn[b] <= turn[a]
<1>1. PICK turn \in [Accounts -> 1..Cardinality(Accounts)] :
        map = [n \in names |-> Last(turn, n).tenants]
  BY DEF TenantMaps
<1>2. ASSUME NEW name PROVE name \in names <=> Bearers(name) # {}
  BY DEF Bearers
<1>3. ASSUME NEW name \in names PROVE Last(turn, name) \in Bearers(name)
  <2>1. Bearers(name) # {} /\ Bearers(name) \subseteq Accounts
    BY <1>2 DEF Bearers
  <2>2. PICK a \in Bearers(name) : \A b \in Bearers(name) : turn[b] <= turn[a]
    BY <2>1, OneIsLast
  <2>3. /\ a \in Accounts /\ Entered(a, name)
        /\ \A b \in Accounts : Entered(b, name) => turn[b] <= turn[a]
    BY <2>2 DEF Bearers
  <2>4. Last(turn, name) \in Accounts /\ Entered(Last(turn, name), name)
    BY <2>3
  <2>5. QED
    BY <2>4 DEF Bearers
<1>4. QED
  <2> HIDE DEF names, Last
  <2>1. DOMAIN map = names /\ \A name \in names : map[name] = Last(turn, name).tenants
    BY <1>1
  <2>2. QED
    BY <1>2, <1>3, <2>1

NameOf(p) == PreferredName[FindAuthnServiceAccountEmail(p)]

\* The name in use is that of the pod, and the map is that of the accounts,
\* unless a call has failed.
NamesInv ==
  /\ tenantMap \in TenantMaps \cup {Nobody}
  /\ pc # "idle" /\ faults = 0 => tenantMap \in TenantMaps
  /\ pc \in Inspecting =>
       login \in {NameOf(pod), NoText} /\ (faults = 0 => login = NameOf(pod))

\* What TenantsAreOneAccounts says of one entry.
AreThoseOf(i, name) == \E a \in Bearers(name) : i.tenants = a.tenants
RightTenants(i) ==
  LET name == NameOf(i.pod)
  IN  /\ i.login # NoText => i.login = name /\ (i.tenants = {} \/ AreThoseOf(i, name))
      /\ i.login = NoText => i.tenants = {} \/ AreThoseOf(i, NoText)
      /\ faults = 0 =>
           i.login = name /\ (name # NoText /\ Bearers(name) # {} => AreThoseOf(i, name))

\* Faults are never taken back.
LEMMA FaultsStay ==
  ASSUME NEW ok, Works(ok), faults \in 0..MaxFaults
  PROVE  faults' = 0 => faults = 0 /\ ok
BY InspectionAssumption DEF Works

LEMMA EntryHasTenants ==
  ASSUME NamesInv, pc \in {"variables", "files"},
         NEW s, NEW d
  PROVE  RightTenants(Info(s, d))
<1> DEFINE i == Info(s, d)
<1>1. i.pod = pod /\ i.login = login /\ i.tenants = TenantsFor(login)
  BY DEF Info
<1>2. login \in {NameOf(pod), NoText} /\ (faults = 0 => login = NameOf(pod))
  BY DEF NamesInv, Inspecting
<1>3. ASSUME login \in DOMAIN tenantMap
      PROVE  \E a \in Bearers(login) : TenantsFor(login) = a.tenants
  <2>1. tenantMap \in TenantMaps
    BY <1>3 DEF NamesInv, Nobody
  <2>2. QED
    BY <1>3, <2>1, TenantsByName DEF TenantsFor
<1>4. TenantsFor(login) = {} \/ \E a \in Bearers(login) : TenantsFor(login) = a.tenants
  BY <1>3 DEF TenantsFor
<1>5. ASSUME faults = 0, Bearers(NameOf(pod)) # {}
      PROVE  \E a \in Bearers(NameOf(pod)) : TenantsFor(login) = a.tenants
  <2>1. login \in DOMAIN tenantMap /\ login = NameOf(pod)
    BY <1>2, <1>5, TenantsByName DEF NamesInv
  <2>2. QED
    BY <1>3, <2>1
<1> HIDE DEF i
<1>6. QED
  BY <1>1, <1>2, <1>4, <1>5 DEF RightTenants, AreThoseOf, i

LEMMA NamesStep ==
  ASSUME InspectInv, NamesInv, [PassNext]_vars
  PROVE  NamesInv' /\ (faults' = 0 => faults = 0)
<1> USE DEF NamesInv, InspectInv
<1>0. faults \in 0..MaxFaults /\ faults \in Nat
  BY InspectionAssumption DEF EntriesInv
<1>1. TenantMaps' = TenantMaps /\ \A p : NameOf(p)' = NameOf(p)
  BY DEF TenantMaps, NameOf, FindAuthnServiceAccountEmail
<1>2. CASE InspectionStep
  <2>1. CASE Begin
    BY <1>0, <1>1, <2>1, FaultsStay DEF Begin, Inspecting
  <2>2. CASE ListFails
    BY <1>0, <1>1, <2>2, FaultsStay DEF ListFails, Inspecting
  <2>3. CASE ListEvents
    BY <1>0, <1>1, <2>3, FaultsStay DEF ListEvents, Inspecting
  <2>4. CASE KeepProblems
    BY <1>0, <1>1, <2>4 DEF KeepProblems, Inspecting
  <2>5. CASE GetMountedConfigMaps
    BY <1>0, <1>1, <2>5, FaultsStay DEF GetMountedConfigMaps, Inspecting
  <2>6. CASE PodDone
    BY <1>1, <2>6 DEF PodDone, Inspecting
  <2>7. CASE Conclude
    BY <1>1, <2>7 DEF Conclude, Inspecting
  <2>8. ASSUME NEW p \in Pods, NextPod(p) PROVE NamesInv' /\ (faults' = 0 => faults = 0)
    <3>1. PICK ok \in BOOLEAN :
            Works(ok) /\ login' = IF ok THEN NameOf(p) ELSE NoText
      BY <2>8 DEF NextPod, LoginFound, NameOf
    <3>2. faults' = 0 => faults = 0 /\ ok
      BY <1>0, <3>1, FaultsStay
    <3>3. QED
      BY <1>1, <2>8, <3>1, <3>2 DEF NextPod, Inspecting
  <2>9. ASSUME NEW c \in Containers, ReadLine(c) PROVE NamesInv' /\ (faults' = 0 => faults = 0)
    BY <1>1, <2>9 DEF ReadLine, Inspecting
  <2>10. ASSUME NEW c \in Containers, LogEnds(c) PROVE NamesInv' /\ (faults' = 0 => faults = 0)
    BY <1>0, <1>1, <2>10, FaultsStay DEF LogEnds, Inspecting
  <2>11. ASSUME NEW c \in Containers, CheckContainer(c)
         PROVE  NamesInv' /\ (faults' = 0 => faults = 0)
    BY <1>0, <1>1, <2>11, FaultsStay DEF CheckContainer, Inspecting
  <2>12. ASSUME NEW f \in Files, ParseFile(f) PROVE NamesInv' /\ (faults' = 0 => faults = 0)
    BY <1>1, <2>12 DEF ParseFile, Inspecting
  <2>13. QED
    BY <1>2, <2>1, <2>2, <2>3, <2>4, <2>5, <2>6, <2>7, <2>8, <2>9, <2>10, <2>11, <2>12
       DEF InspectionStep
<1>3. CASE ReportStep
  BY <1>0, <1>1, <1>3, FaultsStay DEF ReportStep, Inspecting
<1>4. CASE PassEnds
  BY <1>1, <1>4 DEF PassEnds, Inspecting, Nobody
<1>5. CASE UNCHANGED vars
  BY <1>1, <1>5 DEF vars, Inspecting
<1>6. QED
  BY <1>2, <1>3, <1>4, <1>5 DEF PassNext

\* New entries are of the pod that is inspected.
LEMMA NewEntries ==
  ASSUME InspectInv, [PassNext]_vars, NEW i \in (infos \cup listed)', i \notin infos \cup listed
  PROVE  /\ pc \in {"variables", "files"}
         /\ \E s, d : i = Info(s, d)
<1>1. CASE InspectionStep
  <2>1. ASSUME NEW c \in Containers, CheckContainer(c)
        PROVE  /\ pc \in {"variables", "files"}
               /\ \E s, d : i = Info(s, d)
    BY <2>1 DEF CheckContainer
  <2>2. ASSUME NEW f \in Files, ParseFile(f)
        PROVE  /\ pc \in {"variables", "files"}
               /\ \E s, d : i = Info(s, d)
    BY <2>2 DEF ParseFile
  <2>3. QED
    BY <1>1, <2>1, <2>2 DEF InspectionStep, Begin, ListFails, ListEvents, KeepProblems,
       GetMountedConfigMaps, PodDone, Conclude, NextPod, ReadLine, LogEnds
<1>2. QED
  BY <1>1 DEF PassNext, ReportStep, PassEnds, vars

\* An entry that is right stays right: it promises the most while nothing failed.
LEMMA TenantsStep ==
  ASSUME InspectInv, NamesInv, TenantsAreOneAccounts, [PassNext]_vars
  PROVE  NamesInv' /\ TenantsAreOneAccounts'
<1>1. NamesInv' /\ (faults' = 0 => faults = 0)
  BY NamesStep
<1>2. \A i \in infos \cup listed : RightTenants(i)
  BY DEF TenantsAreOneAccounts, RightTenants, AreThoseOf, NameOf
<1>3. ASSUME NEW i, RightTenants(i) PROVE RightTenants(i)'
  BY <1>1, <1>3 DEF RightTenants, AreThoseOf, NameOf, FindAuthnServiceAccountEmail, Bearers
<1>4. ASSUME NEW i \in (infos \cup listed)' PROVE RightTenants(i)
  BY <1>2, NewEntries, EntryHasTenants
<1>5. \A i \in (infos \cup listed)' : RightTenants(i)'
  BY <1>3, <1>4
<1>6. QED
  BY <1>1, <1>5 DEF TenantsAreOneAccounts, RightTenants, AreThoseOf, NameOf, Bearers

\* In whatever order accounts are entered and whatever calls fail, a login is
\* that of the pod's own secret and the tenants beside it are those of one
\* account that goes by it; beside no login there are at most those of an
\* account that is entered under the empty name.  A pass in which nothing
\* failed finds both (Reconcile, L90-129, and LoadAndGetTenantMap).
THEOREM TenantsAlwaysRight == PassSpec => []TenantsAreOneAccounts
<1>1. PassInit => NamesInv /\ TenantsAreOneAccounts
  BY DEF PassInit, Init, NamesInv, TenantsAreOneAccounts, Inspecting
<1>2. InspectInv /\ NamesInv /\ TenantsAreOneAccounts /\ [PassNext]_vars
        => NamesInv' /\ TenantsAreOneAccounts'
  BY TenantsStep
<1>3. QED
  BY <1>1, <1>2, InspectInvariant, PTL DEF PassSpec

-----------------------------------------------------------------------------
(***************************************************************************)
(* Counts of problems.                                                     *)
(***************************************************************************)

\* Nothing is read before the logs are, and what is counted is finite.
CountsInv ==
  /\ pc = "events" => read = NothingRead
  /\ pc = "logs" => \A m \in DOMAIN found : IsFiniteSet(Occurrences(m))
  /\ CountsOccurrences

\* No line gives the message of an event.
LEMMA EventIsNoLine ==
  ASSUME NEW c \in Containers, NEW line, NEW p, NEW i
  PROVE  EventMessage(p, i) # LineMessage(c, line)
<1>1. EventMessage(p, i)[2] = "event" /\ LineMessage(c, line)[2] = c
  BY DEF EventMessage, LineMessage
<1>2. QED
  BY <1>1, InspectionAssumption

LEMMA FirstCounts ==
  ASSUME InspectInv, CountsInv, ListEvents
  PROVE  CountsInv'
<1> USE DEF InspectInv
<1>1. found = Nothing /\ read = NothingRead /\ pod \in Pods
  BY DEF ListEvents, PodsInv, ProblemsInv, CountsInv, Inspecting
<1>2. LinesRead(pod)' = {}
  <2>1. \A c \in Logged : read'[c] = 0 /\ c \in Containers
    BY <1>1, InspectionAssumption DEF ListEvents, NothingRead
  <2>2. QED
    BY <2>1 DEF LinesRead
<1>3. \A m : Occurrences(m)' = {}
  BY <1>2 DEF Occurrences
<1>4. ASSUME NEW m \in DOMAIN found'
      PROVE  found'[m].count = Cardinality({i \in DOMAIN Events[pod] : EventMessage(pod, i) = m})
  <2>1. found' = WithEvents(found, pod)
    BY <1>1, <1>4 DEF ListEvents, Nothing
  <2>2. m \notin DOMAIN found
    BY <1>1 DEF Nothing
  <2>3. QED
    BY <1>4, <2>1, <2>2 DEF WithEvents
<1>5. \A m \in DOMAIN found' : found'[m].count \in Nat
  BY ProblemsStep DEF InspectionStep, ProblemsInv, Problem
<1>6. UNCHANGED pod /\ pc' = "logs"
  BY DEF ListEvents
<1>7. CountsOccurrences'
  <2>1. ASSUME NEW m \in DOMAIN found'
        PROVE  found'[m].count = Cardinality(Occurrences(m)')
                 + Cardinality({i \in DOMAIN Events[pod] : EventMessage(pod, i) = m})
    <3>1. Cardinality(Occurrences(m)') = 0
      BY <1>3, FS_EmptySet
    <3>2. PICK n \in Nat : n = found'[m].count
      BY <1>5
    <3>3. Cardinality({i \in DOMAIN Events[pod] : EventMessage(pod, i) = m}) = n
      BY <1>4, <3>2
    <3>4. found'[m].count = 0 + n
      BY <3>2
    <3>5. QED
      BY <3>1, <3>3, <3>4
  <2>2. QED
    BY <1>2, <1>3, <1>6, <2>1 DEF CountsOccurrences
<1>8. QED
  BY <1>3, <1>6, <1>7, FS_EmptySet DEF CountsInv

LEMMA NextCounts ==
  ASSUME InspectInv, CountsInv, NEW c \in Containers, ReadLine(c)
  PROVE  CountsInv'
<1> SUFFICES ASSUME NEW n, n = read[c] + 1,
                    NEW line, line = journal[c][n],
                    NEW message, message = LineMessage(c, line),
                    NEW new, new = [at |-> c, line |-> n]
             PROVE  CountsInv'
  OBVIOUS
<1> USE DEF InspectInv
<1>1. /\ c \in Logged /\ PodOf[c] = pod /\ read[c] \in Nat /\ pc = "logs"
      /\ UNCHANGED <<journal, pod, pc>>
      /\ read' = [read EXCEPT ![c] = @ + 1] /\ read \in [Containers -> Nat]
  BY DEF ReadLine, Reading, ProblemsInv
<1>2. LinesRead(pod)' = LinesRead(pod) \cup {new}
  <2>1. (1..read'[c]) = (1..read[c]) \cup {n}
    BY <1>1
  <2>2. \A d \in Containers \ {c} : read'[d] = read[d]
    BY <1>1
  <2>3. ASSUME NEW o PROVE o \in LinesRead(pod)' <=> o \in LinesRead(pod) \cup {new}
    <3>1. o \in LinesRead(pod)' <=>
            \E d \in Logged : PodOf[d] = pod /\ \E i \in 1..read'[d] : o = [at |-> d, line |-> i]
      BY <1>1 DEF LinesRead
    <3>2. o \in LinesRead(pod) <=>
            \E d \in Logged : PodOf[d] = pod /\ \E i \in 1..read[d] : o = [at |-> d, line |-> i]
      BY DEF LinesRead
    <3>3. QED
      BY <1>1, <2>1, <2>2, <3>1, <3>2, InspectionAssumption
  <2>4. QED
    BY <2>3
<1>3. new \notin LinesRead(pod) /\ \A o \in LinesRead(pod) : o.at = c => o.line < new.line
  <2>1. \A o \in LinesRead(pod) : o.line \in 1..read[o.at]
    BY DEF LinesRead
  <2>2. \A o \in LinesRead(pod) : o.at = c => o.line < n
    BY <1>1, <2>1
  <2>3. new.at = c /\ new.line = n /\ ~(n < n)
    BY <1>1
  <2>4. QED
    BY <2>2, <2>3
<1>4. \A o : LineAt(o)' = LineAt(o)
  BY <1>1 DEF LineAt
<1>5. LineAt(new) = line
  BY DEF LineAt
<1>6. \A m : Occurrences(m)' = {o \in LinesRead(pod) \cup {new} :
                                   Matters(LineAt(o)) /\ LineMessage(o.at, LineAt(o)) = m}
  BY <1>2, <1>4 DEF Occurrences
<1>7. CASE ~Matters(line)
  <2>1. found' = found
    BY <1>7 DEF ReadLine
  <2>2. \A m : Occurrences(m)' = Occurrences(m)
    BY <1>5, <1>6, <1>7 DEF Occurrences
  <2>3. CountsOccurrences'
    BY <1>1, <1>2, <1>4, <1>5, <1>7, <2>1, <2>2 DEF CountsInv, CountsOccurrences
  <2>4. QED
    BY <1>1, <2>1, <2>2, <2>3 DEF CountsInv
<1>8. CASE Matters(line)
  <2>1. found' = WithProblem(found, message, LineType(line))
    BY <1>8 DEF ReadLine
  <2>2. DOMAIN found' = DOMAIN found \cup {message}
    BY <2>1 DEF WithProblem
  <2>3. /\ Occurrences(message)' = Occurrences(message) \cup {new}
        /\ \A m : m # message => Occurrences(m)' = Occurrences(m)
    BY <1>5, <1>6, <1>8 DEF Occurrences
  <2>4. \A m \in DOMAIN found : m # message => found'[m] = found[m]
    BY <2>1 DEF WithProblem
  <2>5. new \notin Occurrences(message)
    BY <1>3 DEF Occurrences
  <2>6. \A o \in Occurrences(message) : o.at = c /\ o.line < new.line
    BY <1>3 DEF Occurrences, LineMessage
  <2> DEFINE events == {i \in DOMAIN Events[pod] : EventMessage(pod, i) = message}
  <2>7. events = {}
    BY EventIsNoLine
  <2>8. Cardinality(events) = 0
    BY <2>7, FS_EmptySet
  <2>9. IsFiniteSet(Occurrences(message)')
        /\ found'[message].count = Cardinality(Occurrences(message)') + Cardinality(events)
        /\ \A o \in Occurrences(message)' :
             (\A q \in Occurrences(message)' : o.line <= q.line)
               => found'[message].type = LineType(LineAt(o))
    <3>1. CASE message \in DOMAIN found
      <4>1. found'[message] = [found[message] EXCEPT !.count = @ + 1]
        BY <2>1, <3>1 DEF WithProblem
      <4>2. /\ found[message].count = Cardinality(Occurrences(message)) + Cardinality(events)
            /\ IsFiniteSet(Occurrences(message)) /\ found[message] \in Problem
        BY <1>1, <3>1 DEF CountsInv, CountsOccurrences, ProblemsInv
      <4>3. Cardinality(Occurrences(message)) \in Nat
        BY <4>2, FS_CardinalityType
      <4>4. Cardinality(Occurrences(message)') = Cardinality(Occurrences(message)) + 1
            /\ IsFiniteSet(Occurrences(message)')
        BY <2>3, <2>5, <4>2, FS_AddElement
      <4>5. found'[message].count = found[message].count + 1
            /\ found'[message].type = found[message].type
        BY <4>1, <4>2 DEF Problem
      <4>6. PICK q \in Occurrences(message) : TRUE
        BY <2>8, <4>2, FS_EmptySet DEF Problem
      <4>7. ASSUME NEW o \in Occurrences(message)',
                   \A r \in Occurrences(message)' : o.line <= r.line
            PROVE  found'[message].type = LineType(LineAt(o))
        <5>1. o \in Occurrences(message)
          <6>1. q \in Occurrences(message)' /\ q.line < new.line /\ q.line \in Nat
            BY <2>3, <2>6 DEF Occurrences, LinesRead
          <6>2. o # new
            BY <1>1, <4>7, <6>1
          <6>3. QED
            BY <2>3, <6>2
        <5>2. \A r \in Occurrences(message) : o.line <= r.line
          BY <2>3, <4>7
        <5>3. found[message].type = LineType(LineAt(o))
          BY <1>1, <3>1, <5>1, <5>2 DEF CountsInv, CountsOccurrences
        <5>4. QED
          BY <4>5, <5>3
      <4>8. QED
        BY <2>8, <4>2, <4>3, <4>4, <4>5, <4>7
    <3>2. CASE message \notin DOMAIN found
      <4>1. found'[message] = [type |-> LineType(line), count |-> 1]
        BY <2>1, <3>2 DEF WithProblem
      <4>2. Occurrences(message) = {}
        BY <1>1, <3>2 DEF CountsInv, CountsOccurrences, Occurrences
      <4>3. Occurrences(message)' = {new}
        BY <2>3, <4>2
      <4>4. Cardinality(Occurrences(message)') = 1 /\ IsFiniteSet(Occurrences(message)')
        BY <4>3, FS_Singleton
      <4>5. QED
        BY <1>5, <2>8, <4>1, <4>3, <4>4
    <3>3. QED
      BY <3>1, <3>2
  <2>10. ASSUME NEW m \in DOMAIN found', m # message
         PROVE  /\ m \in DOMAIN found /\ found'[m] = found[m] /\ Occurrences(m)' = Occurrences(m)
    BY <2>2, <2>3, <2>4, <2>10
  <2>11. \A o \in LinesRead(pod)' :
           Matters(LineAt(o)) => LineMessage(o.at, LineAt(o)) \in DOMAIN found'
    BY <1>1, <1>2, <1>5, <2>2 DEF CountsInv, CountsOccurrences
  <2>12. CountsOccurrences'
    <3>1. ASSUME NEW m \in DOMAIN found'
          PROVE  /\ found'[m].count = Cardinality(Occurrences(m)')
                      + Cardinality({i \in DOMAIN Events[pod] : EventMessage(pod, i) = m})
                 /\ \A o \in Occurrences(m)' :
                      (\A q \in Occurrences(m)' : o.line <= q.line)
                        => found'[m].type = LineType(LineAt(o))
      <4>1. CASE m = message
        BY <2>9, <4>1
      <4>2. CASE m # message
        BY <1>1, <2>10, <4>2 DEF CountsInv, CountsOccurrences
      <4>3. QED
        BY <4>1, <4>2
    <3>2. QED
      BY <1>1, <1>4, <2>11, <3>1 DEF CountsOccurrences
  <2>13. \A m \in DOMAIN found' : IsFiniteSet(Occurrences(m)')
    BY <1>1, <2>9, <2>10 DEF CountsInv
  <2>14. QED
    BY <1>1, <2>12, <2>13 DEF CountsInv
<1>9. QED
  BY <1>7, <1>8

LEMMA CountsStep ==
  ASSUME InspectInv, CountsInv, [PassNext]_vars
  PROVE  CountsInv'
<1>1. ASSUME UNCHANGED <<journal, pod, found, read>>, pc' = pc PROVE CountsInv'
  <2>1. LinesRead(pod)' = LinesRead(pod) /\ \A o : LineAt(o)' = LineAt(o)
    BY <1>1 DEF LinesRead, LineAt
  <2>2. \A m : Occurrences(m)' = Occurrences(m)
    BY <1>1, <2>1 DEF Occurrences
  <2>3. CountsOccurrences'
    BY <1>1, <2>1, <2>2 DEF CountsInv, CountsOccurrences
  <2>4. QED
    BY <1>1, <2>2, <2>3 DEF CountsInv, NothingRead
<1>2. ASSUME pc' \notin {"events", "logs"} PROVE CountsInv'
  BY <1>2 DEF CountsInv, CountsOccurrences
<1>3. CASE InspectionStep
  <2>1. CASE ListFails
    BY <1>1, <2>1 DEF ListFails
  <2>2. CASE ListEvents
    BY <2>2, FirstCounts
  <2>3. ASSUME NEW p \in Pods, NextPod(p) PROVE CountsInv'
    BY <2>3 DEF NextPod, CountsInv, CountsOccurrences, NothingRead
  <2>4. ASSUME NEW c \in Containers, ReadLine(c) PROVE CountsInv'
    BY <2>4, NextCounts
  <2>5. ASSUME NEW c \in Containers, LogEnds(c) PROVE CountsInv'
    BY <1>1, <2>5 DEF LogEnds
  <2>6. CASE Begin \/ KeepProblems \/ GetMountedConfigMaps \/ PodDone \/ Conclude
    BY <1>2, <2>6 DEF Begin, KeepProblems, GetMountedConfigMaps, PodDone, Conclude
  <2>7. ASSUME NEW c \in Containers, CheckContainer(c) PROVE CountsInv'
    BY <1>2, <2>7 DEF CheckContainer
  <2>8. ASSUME NEW f \in Files, ParseFile(f) PROVE CountsInv'
    BY <1>2, <2>8 DEF ParseFile
  <2>9. QED
    BY <1>3, <2>1, <2>2, <2>3, <2>4, <2>5, <2>6, <2>7, <2>8 DEF InspectionStep
<1>4. CASE ReportStep
  BY <1>1, <1>4 DEF ReportStep
<1>5. CASE PassEnds
  BY <1>2, <1>5 DEF PassEnds
<1>6. CASE UNCHANGED vars
  BY <1>1, <1>6 DEF vars
<1>7. QED
  BY <1>3, <1>4, <1>5, <1>6 DEF PassNext

\* However long the logs are and wherever one breaks off, a problem is counted
\* as often as its message was read in this pod, and keeps the type of its
\* first line (FetchRecentProblems, L42-57, L104-131).
THEOREM CountsAlwaysRight == PassSpec => []CountsOccurrences
<1>1. PassInit => CountsInv
  BY DEF PassInit, Init, CountsInv, CountsOccurrences
<1>2. InspectInv /\ CountsInv /\ [PassNext]_vars => CountsInv'
  BY CountsStep
<1>3. CountsInv => CountsOccurrences
  BY DEF CountsInv
<1>4. QED
  BY <1>1, <1>2, <1>3, InspectInvariant, PTL DEF PassSpec
=============================================================================

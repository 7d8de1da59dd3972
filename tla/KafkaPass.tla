------------------------------- MODULE KafkaPass -------------------------------
(***************************************************************************)
(* A pass of the Kafka access monitor in detail, without its analyses: the *)
(* inspection of the pods, and the report of those with problems.          *)
(***************************************************************************)
EXTENDS PodInspection

CONSTANTS
  Namespace,   \* of each pod
  Characters,  \* of the table of each source
  Header, PageHeader, SlackCharLimit

\* The headers of the first and of later pages differ by a number and a few
\* letters; a table has a frame, titles and several lines.
ASSUME PassAssumption ==
  /\ Characters \in [Containers \cup Files -> Nat]
  /\ \A s \in Containers \cup Files : Characters[s] > 0 /\ PageHeader + Characters[s] > Header
  /\ Header \in Nat /\ PageHeader \in Nat /\ SlackCharLimit \in Nat

VARIABLES stage, clients, groups, queue, chunk, length, page, sent

TypePlace(i) ==
  CASE i.clientType = "Consumer" -> 1
    [] i.clientType = "Producer" -> 2
    [] OTHER -> 3
SizeOf(i) == Characters[i.source]
NamespaceOf(i) == Namespace[i.pod]

Report == INSTANCE SlackReport WITH Size <- SizeOf, TypeOf <- TypePlace

slackVars == <<stage, clients, groups, queue, chunk, length, page, sent>>
vars == <<inspectVars, slackVars>>

PassInit == Init /\ Report!Init

PodsToReport == {i \in listed : i.problems # {}}

\* The pass ends with the report, or without one if there are no problems.
PassEnds ==
  /\ pc = "report"
  /\ stage = "over" \/ PodsToReport = {}
  /\ pc' = "idle" /\ infos' = {} /\ tenantMap' = Nobody
  /\ stage' = "quiet" /\ clients' = {} /\ sent' = <<>>
  /\ UNCHANGED <<worldVars, todo, podVars, listed, faults, groups, queue, chunk,
                 length, page>>

ReportStep ==
  /\ pc = "report"
  /\ \E ok \in BOOLEAN :
       /\ Works(ok)
       /\ \/ Report!SendSummary(PodsToReport, ok)
          \/ Report!Add(ok) \/ Report!CloseGroup(ok)
          \/ ok /\ Report!EndReport
          \/ ok /\ \E n \in {Namespace[p] : p \in Pods} : Report!OpenGroup(n)
  /\ UNCHANGED <<worldVars, pc, todo, podVars, tenantMap, infos, listed>>

PassNext ==
  \/ InspectionStep /\ UNCHANGED slackVars
  \/ ReportStep
  \/ PassEnds

PassSpec == PassInit /\ [][PassNext]_vars

TypeOK == InspectionTypeOK /\ Report!ReportTypeOK
PagesCover == Report!PagesCover
PagesFit == Report!PagesFit
=============================================================================

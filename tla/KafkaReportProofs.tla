------------------------- MODULE KafkaReportProofs --------------------------
(***************************************************************************)
(* The report of a pass: its pages are within the limit, and have every    *)
(* client once.                                                            *)
(***************************************************************************)
EXTENDS KafkaPassProofs

USE DEF worldVars, podVars, inspectVars, slackVars

Page == [clients : Seq(clients), length : Nat, ok : BOOLEAN]
OnlyOf(q, n) == \A j \in DOMAIN q : NamespaceOf(q[j]) = n

\* What is on the page being written and what is to come are of one namespace,
\* and a page that holds more than one client is within the limit.
PagesInv ==
  /\ stage \in {"quiet", "groups", "page", "over"}
  /\ IsFiniteSet(clients) /\ \A c \in clients : c.source \in Containers \cup Files
  /\ groups \subseteq {NamespaceOf(c) : c \in clients}
  /\ stage = "quiet" => clients = {} /\ sent = <<>>
  /\ stage \in {"quiet", "over"} => groups = {}
  /\ queue \in Seq(clients) /\ chunk \in Seq(clients)
  /\ stage # "page" => queue = <<>> /\ chunk = <<>>
  /\ length \in Nat /\ page \in Nat
  /\ sent \in Seq(Page)
  /\ \E n : OnlyOf(chunk, n) /\ OnlyOf(queue, n)
  /\ length <= SlackCharLimit \/ Len(chunk) <= 1
  /\ PagesFit

\* The sequences of clients that OpenGroup chooses from.
LEMMA OrdersType ==
  ASSUME NEW cs, IsFiniteSet(cs), NEW order, order \in Report!Orders(cs)
  PROVE  order \in Seq(cs)
<1>1. Cardinality(cs) \in Nat
  BY FS_CardinalityType
<1>2. Report!Cardinality(cs) = Cardinality(cs)
  BY Zenon DEF Report!Cardinality, Cardinality
<1>3. order \in [1..Cardinality(cs) -> cs]
  BY <1>2 DEF Report!Orders
<1>4. QED
  BY <1>1, <1>3

\* A report is of the pass that runs.
OfPass == stage # "quiet" => pc = "report" /\ PodsToReport # {}

\* A page that is sent as it stands keeps PagesFit.
LEMMA PageIsSent ==
  ASSUME PagesInv, NEW ok \in BOOLEAN, sent' = Append(sent, Report!Sent(ok)),
         clients' = clients
  PROVE  sent' \in Seq(Page)' /\ PagesFit'
<1>1. Report!Sent(ok) \in Page
  BY DEF Report!Sent, Page, PagesInv
<1>2. Page' = Page
  BY DEF Page
<1>3. sent' \in Seq(Page)'
  BY <1>1, <1>2 DEF PagesInv
<1>4. \E n : OnlyOf(chunk, n)
  BY DEF PagesInv
<1>5. ASSUME NEW i \in DOMAIN sent'
      PROVE  /\ sent'[i].length <= SlackCharLimit \/ Len(sent'[i].clients) <= 1
             /\ \A j, k \in DOMAIN sent'[i].clients :
                  NamespaceOf(sent'[i].clients[j]) = NamespaceOf(sent'[i].clients[k])
  <2>1. CASE i \in DOMAIN sent
    <3>1. sent'[i] = sent[i]
      BY <2>1 DEF PagesInv
    <3>2. QED
      BY <2>1, <3>1 DEF PagesInv, PagesFit, Report!PagesFit
  <2>2. CASE i \notin DOMAIN sent
    <3>1. sent'[i] = Report!Sent(ok)
      BY <2>2 DEF PagesInv
    <3>2. QED
      BY <1>4, <3>1 DEF Report!Sent, PagesInv, OnlyOf
  <2>3. QED
    BY <2>1, <2>2
<1>6. QED
  BY <1>3, <1>5 DEF PagesFit, Report!PagesFit

LEMMA AddStep ==
  ASSUME PagesInv, NEW ok \in BOOLEAN, Report!Add(ok)
  PROVE  PagesInv'
<1> USE DEF PagesInv
<1> DEFINE c == Head(queue)
<1>1. c \in clients /\ queue' = Tail(queue) /\ queue # <<>> /\ stage' = "page" /\ stage = "page"
  BY DEF Report!Add
<1>2. queue' \in Seq(clients) /\ clients' = clients /\ groups' = groups
  BY <1>1 DEF Report!Add
<1>3. SizeOf(c) \in Nat
  BY <1>1, PassAssumption DEF SizeOf
<1>6. \E n : OnlyOf(chunk, n) /\ OnlyOf(queue', n) /\ NamespaceOf(c) = n
  <2>1. PICK n : OnlyOf(chunk, n) /\ OnlyOf(queue, n)
    OBVIOUS
  <2>2. NamespaceOf(c) = n
    BY <1>1, <2>1 DEF OnlyOf
  <2>3. \A j \in DOMAIN queue' : j + 1 \in DOMAIN queue /\ queue'[j] = queue[j + 1]
    BY <1>1
  <2>4. OnlyOf(queue', n)
    BY <2>1, <2>3 DEF OnlyOf
  <2>5. QED
    BY <2>1, <2>2, <2>4
<1>4. CASE length + SizeOf(c) > SlackCharLimit
  <2>1. /\ sent' = Append(sent, Report!Sent(ok)) /\ page' = page + 1
        /\ chunk' = <<c>> /\ length' = PageHeader + SizeOf(c)
    BY <1>4 DEF Report!Add
  <2>2. sent' \in Seq(Page)' /\ PagesFit'
    BY <1>2, <2>1, PageIsSent
  <2>3. \E n : OnlyOf(chunk', n) /\ OnlyOf(queue', n)
    BY <1>6, <2>1 DEF OnlyOf
  <2>4. chunk' \in Seq(clients) /\ Len(chunk') = 1 /\ length' \in Nat
    BY <1>1, <1>3, <2>1, PassAssumption
  <2>5. QED
    BY <1>1, <1>2, <2>1, <2>2, <2>3, <2>4
<1>5. CASE ~(length + SizeOf(c) > SlackCharLimit)
  <2>1. /\ sent' = sent /\ page' = page
        /\ chunk' = Append(chunk, c) /\ length' = length + SizeOf(c)
    BY <1>5 DEF Report!Add
  <2>2. \E n : OnlyOf(chunk', n) /\ OnlyOf(queue', n)
    <3>1. \A j \in DOMAIN chunk' : chunk'[j] = c \/ (j \in DOMAIN chunk /\ chunk'[j] = chunk[j])
      BY <1>1, <2>1
    <3>2. QED
      BY <1>6, <3>1 DEF OnlyOf
  <2>3. chunk' \in Seq(clients) /\ length' \in Nat /\ length' <= SlackCharLimit
    BY <1>1, <1>3, <1>5, <2>1, PassAssumption
  <2>4. sent' \in Seq(Page)' /\ PagesFit'
    BY <1>2, <2>1 DEF Page, PagesFit, Report!PagesFit
  <2>5. QED
    BY <1>1, <1>2, <2>1, <2>2, <2>3, <2>4
<1>7. QED
  BY <1>4, <1>5

LEMMA OpenStep ==
  ASSUME PagesInv, NEW n, Report!OpenGroup(n)
  PROVE  PagesInv'
<1> USE DEF PagesInv
<1> DEFINE cs == {c \in clients : NamespaceOf(c) = n}
<1>1. IsFiniteSet(cs)
  BY FS_Subset
<1>2. queue' \in Seq(cs)
  BY <1>1, OrdersType DEF Report!OpenGroup
<1>3. queue' \in Seq(clients) /\ OnlyOf(queue', n)
  BY <1>2 DEF OnlyOf
<1>4. /\ clients' = clients /\ sent' = sent /\ stage' = "page" /\ groups' \subseteq groups
      /\ chunk' = <<>> /\ length' = Header /\ page' = 1
  BY DEF Report!OpenGroup
<1>5. sent' \in Seq(Page)' /\ PagesFit'
  BY <1>4 DEF Page, PagesFit, Report!PagesFit
<1>6. OnlyOf(chunk', n)
  BY <1>4 DEF OnlyOf
<1>7. QED
  BY <1>3, <1>4, <1>5, <1>6, PassAssumption

LEMMA CloseStep ==
  ASSUME PagesInv, NEW ok \in BOOLEAN, Report!CloseGroup(ok)
  PROVE  PagesInv'
<1> USE DEF PagesInv
<1>1. /\ clients' = clients /\ groups' = groups /\ queue' = <<>> /\ chunk' = <<>>
      /\ length' = 0 /\ page' = 0 /\ stage' = "groups"
      /\ sent' \in {sent, Append(sent, Report!Sent(ok))}
  BY DEF Report!CloseGroup
<1>2. sent' \in Seq(Page)' /\ PagesFit'
  <2>1. CASE sent' = sent
    BY <1>1, <2>1 DEF Page, PagesFit, Report!PagesFit
  <2>2. CASE sent' = Append(sent, Report!Sent(ok))
    BY <1>1, <2>2, PageIsSent
  <2>3. QED
    BY <1>1, <2>1, <2>2
<1>3. \E n : OnlyOf(chunk', n) /\ OnlyOf(queue', n)
  BY <1>1 DEF OnlyOf
<1>4. QED
  BY <1>1, <1>2, <1>3, PassAssumption

LEMMA PagesFrame ==
  ASSUME PagesInv, UNCHANGED slackVars
  PROVE  PagesInv'
<1>1. sent' \in Seq(Page)'
  BY DEF Page, PagesInv
<1>2. PagesFit'
  BY DEF PagesInv, PagesFit, Report!PagesFit
<1>3. \E n : OnlyOf(chunk', n) /\ OnlyOf(queue', n)
  BY DEF PagesInv
<1>4. QED
  BY <1>1, <1>2, <1>3 DEF PagesInv

LEMMA PagesStep ==
  ASSUME InspectInv, PagesInv, OfPass, [PassNext]_vars
  PROVE  PagesInv' /\ OfPass'
<1>1. CASE InspectionStep /\ UNCHANGED slackVars
  <2>1. pc # "report"
    BY <1>1 DEF InspectionStep, Begin, ListFails, ListEvents, KeepProblems,
         GetMountedConfigMaps, PodDone, Conclude, NextPod, ReadLine, LogEnds,
         CheckContainer, ParseFile
  <2>2. QED
    BY <1>1, <2>1, PagesFrame DEF OfPass
<1>2. CASE ReportStep
  <2> USE DEF PagesInv
  <2>1. pc = "report" /\ pc' = pc /\ PodsToReport' = PodsToReport
    BY <1>2 DEF ReportStep, PodsToReport
  <2>2. ASSUME NEW ok \in BOOLEAN, Report!SendSummary(PodsToReport, ok)
        PROVE  PagesInv' /\ OfPass'
    <3>1. /\ sent = <<>> /\ sent' = <<>> /\ queue' = <<>> /\ chunk' = <<>>
          /\ length' = length /\ page' = page
          /\ clients' = PodsToReport /\ PodsToReport # {}
          /\ \/ stage' = "groups" /\ groups' = {NamespaceOf(c) : c \in PodsToReport}
             \/ stage' = "over" /\ groups' = {}
      BY <2>2 DEF Report!SendSummary
    <3>2. IsFiniteSet(PodsToReport) /\ \A c \in PodsToReport : c.source \in Containers \cup Files
      BY FS_Subset DEF PodsToReport, InspectInv, EntriesInv
    <3>3. PagesFit' /\ \E n : OnlyOf(chunk', n) /\ OnlyOf(queue', n)
      BY <3>1 DEF PagesFit, Report!PagesFit, OnlyOf
    <3>4. QED
      BY <2>1, <3>1, <3>2, <3>3, PassAssumption DEF OfPass
  <2>3. CASE Report!EndReport
    <3>1. PagesFit' /\ sent' \in Seq(Page)'
      BY <2>3 DEF Report!EndReport, PagesFit, Report!PagesFit, Page
    <3>2. \E n : OnlyOf(chunk', n) /\ OnlyOf(queue', n)
      BY <2>3 DEF Report!EndReport
    <3>3. QED
      BY <2>1, <2>3, <3>1, <3>2 DEF Report!EndReport, OfPass
  <2>4. ASSUME NEW ok \in BOOLEAN, Report!Add(ok) PROVE PagesInv' /\ OfPass'
    BY <2>1, <2>4, AddStep DEF Report!Add, OfPass
  <2>5. ASSUME NEW ok \in BOOLEAN, Report!CloseGroup(ok) PROVE PagesInv' /\ OfPass'
    BY <2>1, <2>5, CloseStep DEF Report!CloseGroup, OfPass
  <2>6. ASSUME NEW n, Report!OpenGroup(n) PROVE PagesInv' /\ OfPass'
    BY <2>1, <2>6, OpenStep DEF Report!OpenGroup, OfPass
  <2>7. QED
    BY <1>2, <2>2, <2>3, <2>4, <2>5, <2>6 DEF ReportStep
<1>3. CASE PassEnds
  <2>1. /\ clients' = {} /\ sent' = <<>> /\ stage' = "quiet" /\ queue' = queue
        /\ chunk' = chunk /\ groups' = groups /\ length' = length /\ page' = page
    BY <1>3 DEF PassEnds
  <2>2. queue = <<>> /\ chunk = <<>> /\ groups = {}
    BY <1>3 DEF PassEnds, OfPass, PagesInv
  <2>3. sent' \in Seq(Page)' /\ PagesFit'
    BY <2>1 DEF PagesFit, Report!PagesFit
  <2>4. \E n : OnlyOf(chunk', n) /\ OnlyOf(queue', n)
    BY <2>1 DEF PagesInv
  <2>5. QED
    BY <2>1, <2>2, <2>3, <2>4, FS_EmptySet DEF PagesInv, OfPass
<1>4. CASE UNCHANGED vars
  BY <1>4, PagesFrame DEF vars, OfPass, PodsToReport
<1>5. QED
  BY <1>1, <1>2, <1>3, <1>4 DEF PassNext

LEMMA PagesInit == PassInit => PagesInv /\ OfPass
<1> SUFFICES ASSUME PassInit PROVE PagesInv /\ OfPass
  OBVIOUS
<1>1. PagesFit /\ \E n : OnlyOf(chunk, n) /\ OnlyOf(queue, n)
  BY DEF PassInit, Report!Init, PagesFit, Report!PagesFit, OnlyOf
<1>2. QED
  BY <1>1, FS_EmptySet DEF PassInit, Report!Init, PagesInv, OfPass

\* Pages, while they are written, are within the limit and of one namespace.
THEOREM PagesInvariant == PassSpec => [](PagesInv /\ OfPass)
<1>1. PassInit => PagesInv /\ OfPass
  BY PagesInit
<1>2. InspectInv /\ PagesInv /\ OfPass /\ [PassNext]_vars => (PagesInv /\ OfPass)'
  BY PagesStep
<1>3. QED
  BY <1>1, <1>2, InspectInvariant, PTL DEF PassSpec

\* The state has its shape: at most one problem of a pod is kept, and what is
\* kept is in the map of its problems.
THEOREM PassTyped == PassSpec => []TypeOK
<1>1. InspectInv /\ PagesInv => TypeOK
  <2> SUFFICES ASSUME InspectInv, PagesInv PROVE TypeOK
    OBVIOUS
  <2>1. InspectionTypeOK
    BY DEF InspectInv, PodsInv, ProblemsInv, EntriesInv, InspectionTypeOK, Inspecting, Problem
  <2>2. Report!ReportTypeOK
    <3>1. \A i \in DOMAIN sent : sent[i] \in Page
      BY DEF PagesInv
    <3>2. \A i \in DOMAIN queue : queue[i] \in clients
      BY DEF PagesInv
    <3>3. \A i \in DOMAIN sent : sent[i].ok \in BOOLEAN
      BY <3>1 DEF Page
    <3>4. QED
      BY <3>2, <3>3 DEF PagesInv, Report!ReportTypeOK
  <2>3. QED
    BY <2>1, <2>2 DEF TypeOK
<1>2. QED
  BY <1>1, InspectInvariant, PagesInvariant, PTL

\* Whatever clients there are and however long their tables, no page of a report
\* is over Slack's limit unless it has one client alone, and no page mixes
\* namespaces (SendReport, L69-84).
THEOREM PagesAlwaysFit == PassSpec => []PagesFit
<1>1. PagesInv => PagesFit
  BY DEF PagesInv
<1>2. QED
  BY <1>1, PagesInvariant, PTL

-----------------------------------------------------------------------------
(***************************************************************************)
(* Every client is on one page.                                            *)
(***************************************************************************)

Spots(q, c) == {k \in DOMAIN q : q[k] = c}
SentSpots(c) ==
  {w \in (DOMAIN sent) \X Nat :
     w[2] \in DOMAIN sent[w[1]].clients /\ sent[w[1]].clients[w[2]] = c}
Once(S) == \E x : S = {x}

Blank(c) == SentSpots(c) = {} /\ Spots(chunk, c) = {} /\ Spots(queue, c) = {}
Spotted(c) ==
  \/ SentSpots(c) = {} /\ Spots(chunk, c) = {} /\ Once(Spots(queue, c))
  \/ SentSpots(c) = {} /\ Once(Spots(chunk, c)) /\ Spots(queue, c) = {}
  \/ Once(SentSpots(c)) /\ Spots(chunk, c) = {} /\ Spots(queue, c) = {}

\* Clients of namespaces that are still to come are nowhere, all others at one
\* place, and a page with a client on it is longer than a header.
CoverInv ==
  /\ stage = "page" => length >= Header /\ (chunk # <<>> => length > Header)
  /\ stage \in {"groups", "page"} \/ (stage = "over" /\ sent # <<>>) =>
       \A c \in clients : IF NamespaceOf(c) \in groups THEN Blank(c) ELSE Spotted(c)

LEMMA SameCardinality == \A S : Report!Cardinality(S) = Cardinality(S)
BY Zenon DEF Report!Cardinality, Cardinality

\* The clients of a namespace are each in the queue once.
LEMMA OrderIsComplete ==
  ASSUME NEW cs, IsFiniteSet(cs), NEW order, order \in Report!Orders(cs), NEW c \in cs
  PROVE  Once(Spots(order, c))
<1> DEFINE D == 1..Cardinality(cs)
<1>1. Cardinality(cs) \in Nat
  BY FS_CardinalityType
<1>2. /\ order \in [D -> cs]
      /\ \A i, j \in DOMAIN order : order[i] = order[j] => i = j
  BY SameCardinality DEF Report!Orders
<1>3. order \in Injection(D, cs)
  BY <1>2 DEF Injection, IsInjective
<1>4. Cardinality(D) = Cardinality(cs) /\ IsFiniteSet(D)
  BY <1>1, FS_Interval
<1>5. order \in Surjection(D, cs)
  BY <1>3, <1>4, FS_Injection
<1>6. PICK k \in D : order[k] = c
  BY <1>5 DEF Surjection
<1>7. Spots(order, c) = {k}
  BY <1>2, <1>6 DEF Spots
<1>8. QED
  BY <1>7 DEF Once

\* Where clients are after a page was sent.
LEMMA SpotsSent ==
  ASSUME PagesInv, NEW ok \in BOOLEAN, sent' = Append(sent, Report!Sent(ok)), NEW c
  PROVE  /\ Spots(chunk, c) = {} => SentSpots(c)' = SentSpots(c)
         /\ SentSpots(c) = {} /\ Once(Spots(chunk, c)) => Once(SentSpots(c)')
<1> DEFINE n == Len(sent) + 1
<1>1. /\ DOMAIN sent' = DOMAIN sent \cup {n} /\ n \notin DOMAIN sent
      /\ \A i \in DOMAIN sent : sent'[i] = sent[i]
      /\ sent'[n] = Report!Sent(ok)
  BY DEF PagesInv
<1>2. sent'[n].clients = chunk
  BY <1>1 DEF Report!Sent
<1>3. \A k \in Spots(chunk, c) : k \in Nat
  BY DEF Spots, PagesInv
<1>4. SentSpots(c)' = SentSpots(c) \cup {<<n, k>> : k \in Spots(chunk, c)}
  <2>1. ASSUME NEW w \in SentSpots(c)' PROVE w \in SentSpots(c) \cup {<<n, k>> : k \in Spots(chunk, c)}
    BY <1>1, <1>2 DEF SentSpots, Spots
  <2>2. ASSUME NEW w \in SentSpots(c) PROVE w \in SentSpots(c)'
    BY <1>1 DEF SentSpots
  <2>3. ASSUME NEW k \in Spots(chunk, c) PROVE <<n, k>> \in SentSpots(c)'
    BY <1>1, <1>2, <1>3 DEF SentSpots, Spots
  <2>4. QED
    BY <2>1, <2>2, <2>3
<1>5. ASSUME Spots(chunk, c) = {} PROVE SentSpots(c)' = SentSpots(c)
  BY <1>4, <1>5
<1>6. ASSUME SentSpots(c) = {}, Once(Spots(chunk, c)) PROVE Once(SentSpots(c)')
  <2>1. PICK x : Spots(chunk, c) = {x}
    BY <1>6 DEF Once
  <2>2. SentSpots(c)' = {<<n, x>>}
    BY <1>4, <1>6, <2>1
  <2>3. QED
    BY <2>2 DEF Once
<1>7. QED
  BY <1>5, <1>6

LEMMA SpotsShift ==
  ASSUME NEW q \in Seq(clients), q # <<>>, NEW c
  PROVE  /\ c # Head(q) /\ Spots(q, c) = {} => Spots(Tail(q), c) = {}
         /\ c # Head(q) /\ Once(Spots(q, c)) => Once(Spots(Tail(q), c))
         /\ c = Head(q) => Spots(q, c) # {}
         /\ c = Head(q) /\ Once(Spots(q, c)) => Spots(Tail(q), c) = {}
<1>1. \A k \in DOMAIN Tail(q) : k + 1 \in DOMAIN q /\ Tail(q)[k] = q[k + 1]
  OBVIOUS
<1>2. \A k \in DOMAIN q : k = 1 \/ (k - 1 \in DOMAIN Tail(q) /\ Tail(q)[k - 1] = q[k])
  OBVIOUS
<1>3. 1 \in DOMAIN q /\ q[1] = Head(q) /\ \A k \in DOMAIN q \cup DOMAIN Tail(q) : k \in Nat /\ k # 0
  OBVIOUS
<1>4. \A k : k \in Spots(Tail(q), c) => k + 1 \in Spots(q, c) /\ k + 1 # 1 /\ k \in Nat
  BY <1>1, <1>3 DEF Spots
<1>5. ASSUME c # Head(q), Spots(q, c) = {} PROVE Spots(Tail(q), c) = {}
  BY <1>4, <1>5
<1>6. ASSUME c # Head(q), Once(Spots(q, c)) PROVE Once(Spots(Tail(q), c))
  <2>1. PICK x : Spots(q, c) = {x}
    BY <1>6 DEF Once
  <2>2. x \in Nat /\ x - 1 \in Spots(Tail(q), c)
    BY <1>2, <1>3, <1>6, <2>1 DEF Spots
  <2>3. \A k \in Spots(Tail(q), c) : k = x - 1
    BY <1>4, <2>1, <2>2
  <2>4. Spots(Tail(q), c) = {x - 1}
    BY <2>2, <2>3
  <2>5. QED
    BY <2>4 DEF Once
<1>7. ASSUME c = Head(q) PROVE 1 \in Spots(q, c)
  BY <1>3, <1>7 DEF Spots
<1>8. ASSUME c = Head(q), Once(Spots(q, c)) PROVE Spots(Tail(q), c) = {}
  <2>1. Spots(q, c) = {1}
    BY <1>7, <1>8 DEF Once
  <2>2. QED
    BY <1>4, <2>1
<1>9. QED
  BY <1>5, <1>6, <1>7, <1>8

LEMMA SpotsAppended ==
  ASSUME NEW q \in Seq(clients), NEW d \in clients, NEW c
  PROVE  /\ c # d => Spots(Append(q, d), c) = Spots(q, c)
         /\ c = d /\ Spots(q, c) = {} => Once(Spots(Append(q, d), c))
<1> DEFINE n == Len(q) + 1
<1>1. /\ DOMAIN Append(q, d) = DOMAIN q \cup {n} /\ n \notin DOMAIN q
      /\ \A i \in DOMAIN q : Append(q, d)[i] = q[i]
      /\ Append(q, d)[n] = d
  OBVIOUS
<1>2. ASSUME c # d PROVE Spots(Append(q, d), c) = Spots(q, c)
  BY <1>1, <1>2 DEF Spots
<1>3. ASSUME c = d, Spots(q, c) = {} PROVE Spots(Append(q, d), c) = {n}
  BY <1>1, <1>3 DEF Spots
<1>4. QED
  BY <1>2, <1>3 DEF Once

LEMMA AddCovers ==
  ASSUME PagesInv, CoverInv, NEW ok \in BOOLEAN, Report!Add(ok)
  PROVE  CoverInv'
<1> USE DEF PagesInv
<1>0. PICK d : d = Head(queue)
  OBVIOUS
<1>1. /\ stage = "page" /\ stage' = "page" /\ queue # <<>> /\ queue' = Tail(queue)
      /\ clients' = clients /\ groups' = groups /\ d \in clients
  BY <1>0 DEF Report!Add
<1>2. d.source \in Containers \cup Files /\ SizeOf(d) \in Nat /\ SizeOf(d) > 0
      /\ PageHeader + SizeOf(d) > Header
  BY <1>1, PassAssumption DEF SizeOf
<1>3. Blank(d) \/ Spotted(d)
  BY <1>1 DEF CoverInv
<1>4. Spots(queue, d) # {}
  BY <1>0, <1>1, SpotsShift
<1>5. SentSpots(d) = {} /\ Spots(chunk, d) = {} /\ Once(Spots(queue, d)) /\ ~Blank(d)
  BY <1>3, <1>4 DEF Blank, Spotted
<1>6. Spots(queue', d) = {}
  BY <1>0, <1>1, <1>5, SpotsShift
<1>7. \A c \in clients : c # d =>
        /\ Spots(queue, c) = {} => Spots(queue', c) = {}
        /\ Once(Spots(queue, c)) => Once(Spots(queue', c))
  BY <1>0, <1>1, SpotsShift
<1>8. NamespaceOf(d) \notin groups
  BY <1>1, <1>5 DEF CoverInv
<1>9. CASE length + SizeOf(d) > SlackCharLimit
  <2>1. /\ sent' = Append(sent, Report!Sent(ok))
        /\ chunk' = <<d>> /\ length' = PageHeader + SizeOf(d)
    BY <1>0, <1>9 DEF Report!Add
  <2>2. Spots(chunk', d) = {1} /\ \A c : c # d => Spots(chunk', c) = {}
    BY <2>1 DEF Spots
  <2>3. Spotted(d)'
    BY <1>5, <1>6, <2>1, <2>2, SpotsSent DEF Spotted, Once
  <2>4. ASSUME NEW c \in clients, c # d PROVE (Blank(c) => Blank(c)') /\ (Spotted(c) => Spotted(c)')
    BY <1>7, <2>1, <2>2, <2>4, SpotsSent DEF Spotted, Blank
  <2>5. length' > Header /\ length' >= Header
    BY <1>2, <2>1, PassAssumption
  <2>6. ASSUME NEW c \in clients
        PROVE  IF NamespaceOf(c) \in groups THEN Blank(c)' ELSE Spotted(c)'
    <3>1. CASE c = d
      BY <1>8, <2>3, <3>1
    <3>2. CASE c # d
      BY <1>1, <2>4, <3>2 DEF CoverInv
    <3>3. QED
      BY <3>1, <3>2
  <2>7. \A c : NamespaceOf(c)' = NamespaceOf(c)
    BY DEF NamespaceOf
  <2>8. \A c \in clients' : IF NamespaceOf(c)' \in groups' THEN Blank(c)' ELSE Spotted(c)'
    BY <1>1, <2>6, <2>7
  <2>9. QED
    BY <1>1, <2>5, <2>8 DEF CoverInv
<1>10. CASE ~(length + SizeOf(d) > SlackCharLimit)
  <2>1. /\ sent' = sent /\ chunk' = Append(chunk, d) /\ length' = length + SizeOf(d)
    BY <1>0, <1>10 DEF Report!Add
  <2>2. \A c : SentSpots(c)' = SentSpots(c)
    BY <2>1 DEF SentSpots
  <2>3. Spotted(d)'
    BY <1>1, <1>5, <1>6, <2>1, <2>2, SpotsAppended DEF Spotted
  <2>4. ASSUME NEW c \in clients, c # d PROVE (Blank(c) => Blank(c)') /\ (Spotted(c) => Spotted(c)')
    BY <1>1, <1>7, <2>1, <2>2, <2>4, SpotsAppended DEF Spotted, Blank
  <2>5. length' > Header /\ length' >= Header
    BY <1>1, <1>2, <2>1, PassAssumption DEF CoverInv
  <2>6. ASSUME NEW c \in clients
        PROVE  IF NamespaceOf(c) \in groups THEN Blank(c)' ELSE Spotted(c)'
    <3>1. CASE c = d
      BY <1>8, <2>3, <3>1
    <3>2. CASE c # d
      BY <1>1, <2>4, <3>2 DEF CoverInv
    <3>3. QED
      BY <3>1, <3>2
  <2>7. \A c : NamespaceOf(c)' = NamespaceOf(c)
    BY DEF NamespaceOf
  <2>8. \A c \in clients' : IF NamespaceOf(c)' \in groups' THEN Blank(c)' ELSE Spotted(c)'
    BY <1>1, <2>6, <2>7
  <2>9. QED
    BY <1>1, <2>5, <2>8 DEF CoverInv
<1>11. QED
  BY <1>9, <1>10

LEMMA OpenCovers ==
  ASSUME PagesInv, CoverInv, NEW n, Report!OpenGroup(n)
  PROVE  CoverInv'
<1> USE DEF PagesInv
<1> DEFINE cs == {c \in clients : NamespaceOf(c) = n}
<1>1. /\ stage = "groups" /\ stage' = "page" /\ n \in groups
      /\ clients' = clients /\ groups' = groups \ {n} /\ sent' = sent
      /\ chunk = <<>> /\ queue = <<>> /\ chunk' = <<>> /\ length' = Header
      /\ queue' \in Report!Orders(cs)
  BY DEF Report!OpenGroup
<1>2. IsFiniteSet(cs) /\ queue' \in Seq(cs)
  BY <1>1, FS_Subset, OrdersType
<1>3. \A c : SentSpots(c)' = SentSpots(c) /\ Spots(chunk', c) = {}
  BY <1>1 DEF SentSpots, Spots
<1>4. ASSUME NEW c \in clients
      PROVE  IF NamespaceOf(c) \in groups' THEN Blank(c)' ELSE Spotted(c)'
  <2>1. Spots(chunk, c) = {} /\ Spots(queue, c) = {}
    BY <1>1 DEF Spots
  <2>2. IF NamespaceOf(c) \in groups THEN Blank(c) ELSE Spotted(c)
    BY <1>1 DEF CoverInv
  <2>3. CASE NamespaceOf(c) = n
    <3>1. Once(Spots(queue', c))
      BY <1>1, <1>2, <2>3, OrderIsComplete
    <3>2. SentSpots(c) = {}
      BY <1>1, <2>2, <2>3 DEF Blank
    <3>3. QED
      BY <1>1, <1>3, <2>3, <3>1, <3>2 DEF Spotted
  <2>4. CASE NamespaceOf(c) # n
    <3>1. Spots(queue', c) = {}
      BY <1>2, <2>4 DEF Spots
    <3>2. CASE NamespaceOf(c) \in groups
      BY <1>1, <1>3, <2>2, <2>4, <3>1, <3>2 DEF Blank
    <3>3. CASE NamespaceOf(c) \notin groups
      <4>1. Once(SentSpots(c))
        BY <2>1, <2>2, <3>3 DEF Spotted, Once
      <4>2. QED
        BY <1>1, <1>3, <3>1, <3>3, <4>1 DEF Spotted
    <3>4. QED
      BY <3>2, <3>3
  <2>5. QED
    BY <2>3, <2>4
<1>5. \A c : NamespaceOf(c)' = NamespaceOf(c)
  BY DEF NamespaceOf
<1>6. \A c \in clients' : IF NamespaceOf(c)' \in groups' THEN Blank(c)' ELSE Spotted(c)'
  BY <1>1, <1>4, <1>5
<1>7. QED
  BY <1>1, <1>6, PassAssumption DEF CoverInv

LEMMA CloseCovers ==
  ASSUME PagesInv, CoverInv, NEW ok \in BOOLEAN, Report!CloseGroup(ok)
  PROVE  CoverInv'
<1> USE DEF PagesInv
<1>1. /\ stage = "page" /\ stage' = "groups" /\ clients' = clients /\ groups' = groups
      /\ queue = <<>> /\ queue' = <<>> /\ chunk' = <<>>
      /\ IF length > Header THEN sent' = Append(sent, Report!Sent(ok)) ELSE sent' = sent
  BY DEF Report!CloseGroup
<1>2. \A c : Spots(chunk', c) = {} /\ Spots(queue', c) = {} /\ Spots(queue, c) = {}
  BY <1>1 DEF Spots
<1>3. ASSUME NEW c PROVE /\ Spots(chunk, c) = {} => SentSpots(c)' = SentSpots(c)
                         /\ SentSpots(c) = {} /\ Once(Spots(chunk, c)) => Once(SentSpots(c)')
  <2>1. CASE length > Header
    BY <1>1, <2>1, SpotsSent
  <2>2. CASE ~(length > Header)
    <3>1. chunk = <<>> /\ sent' = sent
      BY <1>1, <2>2 DEF CoverInv
    <3>2. Spots(chunk, c) = {} /\ SentSpots(c)' = SentSpots(c)
      BY <3>1 DEF Spots, SentSpots
    <3>3. QED
      BY <3>2 DEF Once
  <2>3. QED
    BY <2>1, <2>2
<1>4. ASSUME NEW c \in clients PROVE (Blank(c) => Blank(c)') /\ (Spotted(c) => Spotted(c)')
  <2>1. ~Once({})
    BY DEF Once
  <2>2. QED
    BY <1>2, <1>3, <2>1 DEF Blank, Spotted
<1>5. \A c : NamespaceOf(c)' = NamespaceOf(c)
  BY DEF NamespaceOf
<1>6. \A c \in clients' : IF NamespaceOf(c)' \in groups' THEN Blank(c)' ELSE Spotted(c)'
  BY <1>1, <1>4, <1>5 DEF CoverInv
<1>7. QED
  BY <1>1, <1>6 DEF CoverInv

LEMMA CoverFrame ==
  ASSUME CoverInv, UNCHANGED slackVars
  PROVE  CoverInv'
<1>1. \A c : (Blank(c) => Blank(c)') /\ (Spotted(c) => Spotted(c)')
  BY DEF Blank, Spotted, SentSpots, Spots, Once
<1>2. \A c : NamespaceOf(c)' = NamespaceOf(c)
  BY DEF NamespaceOf
<1>3. QED
  BY <1>1, <1>2 DEF CoverInv

LEMMA CoverStep ==
  ASSUME PagesInv, CoverInv, [PassNext]_vars
  PROVE  CoverInv'
<1> USE DEF PagesInv
<1>1. CASE InspectionStep /\ UNCHANGED slackVars
  BY <1>1, CoverFrame
<1>2. CASE ReportStep
  <2>1. ASSUME NEW ok \in BOOLEAN, Report!SendSummary(PodsToReport, ok) PROVE CoverInv'
    <3>1. /\ sent = <<>> /\ sent' = <<>> /\ queue' = <<>> /\ chunk' = <<>>
          /\ clients' = PodsToReport
          /\ \/ stage' = "groups" /\ groups' = {NamespaceOf(c) : c \in PodsToReport}
             \/ stage' = "over"
      BY <2>1 DEF Report!SendSummary
    <3>2. \A c : Blank(c)'
      BY <3>1 DEF Blank, SentSpots, Spots
    <3>3. CASE stage' = "groups"
      <4>1. \A c \in clients' : NamespaceOf(c)' \in groups'
        BY <3>1, <3>3 DEF NamespaceOf
      <4>2. QED
        BY <3>2, <3>3, <4>1 DEF CoverInv
    <3>4. CASE stage' = "over"
      BY <3>1, <3>4 DEF CoverInv
    <3>5. QED
      BY <3>1, <3>3, <3>4
  <2>2. CASE Report!EndReport
    <3>1. \A c : (Blank(c) => Blank(c)') /\ (Spotted(c) => Spotted(c)')
      BY <2>2 DEF Report!EndReport, Blank, Spotted, SentSpots, Spots, Once
    <3>2. \A c : NamespaceOf(c)' = NamespaceOf(c)
      BY DEF NamespaceOf
    <3>3. QED
      BY <2>2, <3>1, <3>2 DEF Report!EndReport, CoverInv
  <2>3. QED
    BY <1>2, <2>1, <2>2, AddCovers, CloseCovers, OpenCovers DEF ReportStep
<1>3. CASE PassEnds
  BY <1>3 DEF PassEnds, CoverInv
<1>4. CASE UNCHANGED vars
  BY <1>4, CoverFrame DEF vars
<1>5. QED
  BY <1>1, <1>2, <1>3, <1>4 DEF PassNext

\* A page has no more clients than there are, since none is on it twice.
LEMMA PagesAreShort ==
  ASSUME PagesInv, CoverInv, stage \in {"groups", "page"} \/ (stage = "over" /\ sent # <<>>),
         NEW i \in DOMAIN sent
  PROVE  Len(sent[i].clients) <= Cardinality(clients)
<1> DEFINE q == sent[i].clients
<1> DEFINE D == 1..Len(q)
<1>1. q \in Seq(clients) /\ Len(q) \in Nat /\ q \in [D -> clients]
  <2>1. sent[i] \in Page
    BY DEF PagesInv
  <2>2. q \in Seq(clients)
    BY <2>1 DEF Page
  <2>3. QED
    BY <2>2
<1>2. ASSUME NEW j \in D, NEW k \in D, q[j] = q[k] PROVE j = k
  <2> DEFINE c == q[j]
  <2>1. <<i, j>> \in SentSpots(c) /\ <<i, k>> \in SentSpots(c) /\ c \in clients
    BY <1>1, <1>2 DEF SentSpots
  <2>2. Once(SentSpots(c))
    BY <2>1 DEF CoverInv, Blank, Spotted
  <2>3. QED
    BY <2>1, <2>2 DEF Once
<1>3. q \in Injection(D, clients)
  BY <1>1, <1>2 DEF Injection, IsInjective
<1>4. Cardinality(D) <= Cardinality(clients)
  BY <1>3, FS_Injection DEF PagesInv
<1>5. Cardinality(D) = Len(q)
  BY <1>1, FS_Interval
<1>6. QED
  BY <1>4, <1>5

LEMMA CoverIsCover ==
  ASSUME PagesInv, CoverInv
  PROVE  PagesCover
<1> SUFFICES ASSUME stage \in {"groups", "page"} \/ (stage = "over" /\ sent # <<>>),
                    NEW c \in clients
             PROVE  Report!Cardinality(Report!Places(c)) =
                      IF NamespaceOf(c) \in groups THEN 0 ELSE 1
  BY DEF PagesCover, Report!PagesCover
<1> DEFINE OnPages == {w \in {<<i, j>> : i \in DOMAIN sent, j \in 1..Cardinality(clients)} :
                        w[2] \in DOMAIN sent[w[1]].clients /\ sent[w[1]].clients[w[2]] = c}
<1>1. OnPages = SentSpots(c)
  <2>1. Cardinality(clients) \in Nat
    BY FS_CardinalityType DEF PagesInv
  <2>2. ASSUME NEW i \in DOMAIN sent, NEW j \in DOMAIN sent[i].clients
        PROVE  j \in 1..Cardinality(clients)
    <3>1. sent[i].clients \in Seq(clients)
      <4>1. sent[i] \in Page
        BY DEF PagesInv
      <4>2. QED
        BY <4>1 DEF Page
    <3>2. Len(sent[i].clients) <= Cardinality(clients)
      BY PagesAreShort
    <3>3. QED
      BY <2>1, <3>1, <3>2
  <2>3. QED
    BY <2>1, <2>2 DEF SentSpots
<1>2. Report!Places(c) = OnPages \cup {<<"chunk", j>> : j \in Spots(chunk, c)}
                           \cup {<<"queue", j>> : j \in Spots(queue, c)}
  BY SameCardinality DEF Report!Places, Spots
<1>3. CASE NamespaceOf(c) \in groups
  <2>1. Report!Places(c) = {}
    BY <1>1, <1>2, <1>3 DEF CoverInv, Blank
  <2>2. QED
    BY <1>3, <2>1, SameCardinality, FS_EmptySet
<1>4. CASE NamespaceOf(c) \notin groups
  <2>1. \E x : Report!Places(c) = {x}
    <3>1. Spotted(c)
      BY <1>4 DEF CoverInv
    <3> DEFINE chunks == {<<"chunk", j>> : j \in Spots(chunk, c)}
    <3> DEFINE queued == {<<"queue", j>> : j \in Spots(queue, c)}
    <3>2. /\ Spots(chunk, c) = {} => chunks = {}
          /\ Spots(queue, c) = {} => queued = {}
      OBVIOUS
    <3>3. /\ Once(Spots(chunk, c)) => Once(chunks)
          /\ Once(Spots(queue, c)) => Once(queued)
      <4>1. ASSUME NEW x, Spots(chunk, c) = {x} PROVE chunks = {<<"chunk", x>>}
        BY <4>1
      <4>2. ASSUME NEW x, Spots(queue, c) = {x} PROVE queued = {<<"queue", x>>}
        BY <4>2
      <4>3. QED
        BY <4>1, <4>2 DEF Once
    <3>4. Report!Places(c) = SentSpots(c) \cup chunks \cup queued
      BY <1>1, <1>2
    <3> HIDE DEF chunks, queued
    <3>5. Once(Report!Places(c))
      <4>1. CASE SentSpots(c) = {} /\ Spots(chunk, c) = {} /\ Once(Spots(queue, c))
        <5>1. Report!Places(c) = queued
          BY <3>2, <3>4, <4>1
        <5>2. QED
          BY <3>3, <4>1, <5>1
      <4>2. CASE SentSpots(c) = {} /\ Once(Spots(chunk, c)) /\ Spots(queue, c) = {}
        <5>1. Report!Places(c) = chunks
          BY <3>2, <3>4, <4>2
        <5>2. QED
          BY <3>3, <4>2, <5>1
      <4>3. CASE Once(SentSpots(c)) /\ Spots(chunk, c) = {} /\ Spots(queue, c) = {}
        <5>1. Report!Places(c) = SentSpots(c)
          BY <3>2, <3>4, <4>3
        <5>2. QED
          BY <4>3, <5>1
      <4>4. QED
        BY <3>1, <4>1, <4>2, <4>3 DEF Spotted
    <3>6. QED
      BY <3>5 DEF Once
  <2>2. QED
    BY <1>4, <2>1, SameCardinality, FS_Singleton
<1>5. QED
  BY <1>3, <1>4

\* However the clients fall on pages and whichever page fails to be sent, none is
\* lost and none is written twice (SendReport, L49-85): as long as a table makes
\* a page longer than the header of the first.
THEOREM PagesAlwaysCover == PassSpec => []PagesCover
<1>1. PassInit => CoverInv
  BY DEF PassInit, Report!Init, CoverInv
<1>2. PagesInv /\ CoverInv /\ [PassNext]_vars => CoverInv'
  BY CoverStep
<1>3. PagesInv /\ CoverInv => PagesCover
  BY CoverIsCover
<1>4. QED
  BY <1>1, <1>2, <1>3, PagesInvariant, PTL DEF PassSpec
=============================================================================

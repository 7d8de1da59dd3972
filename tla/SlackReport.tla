------------------------------ MODULE SlackReport ------------------------------
(***************************************************************************)
(* SendReport: a summary, and then for each namespace its clients, sorted  *)
(* by type, on as many pages as they need.  A page is sent when the next   *)
(* client does not fit any more.  The report ends if the summary fails; a  *)
(* page that fails is lost.                                                *)
(***************************************************************************)
EXTENDS Naturals, Sequences, FiniteSets

CONSTANTS
  Size(_), TypeOf(_), NamespaceOf(_),  \* of a client: characters of its table,
                                       \* place of its type in order, namespace
  Header, PageHeader,                  \* characters of the page headers
  SlackCharLimit

VARIABLES
  stage,
  clients,       \* podsToReport
  groups,        \* namespaces still to come
  queue,         \* clients of this namespace that are not on a page yet
  chunk, length, \* the page being written, and its characters
  page,          \* its number
  sent           \* pages handed to Slack

reportVars == <<stage, clients, groups, queue, chunk, length, page, sent>>

Init ==
  /\ stage = "quiet" /\ clients = {} /\ groups = {} /\ queue = <<>>
  /\ chunk = <<>> /\ length = 0 /\ page = 0 /\ sent = <<>>

SendSummary(cs, ok) ==
  /\ stage = "quiet" /\ cs # {}
  /\ clients' = cs
  /\ stage' = IF ok THEN "groups" ELSE "over"
  /\ groups' = IF ok THEN {NamespaceOf(c) : c \in cs} ELSE {}
  /\ UNCHANGED <<queue, chunk, length, page, sent>>

\* sort.Slice orders by type and is not stable.
Orders(cs) ==
  {q \in [1..Cardinality(cs) -> cs] :
     /\ \A i, j \in DOMAIN q : q[i] = q[j] => i = j
     /\ \A i, j \in DOMAIN q : i < j => TypeOf(q[i]) <= TypeOf(q[j])}

OpenGroup(n) ==
  /\ stage = "groups" /\ n \in groups
  /\ stage' = "page" /\ groups' = groups \ {n}
  /\ queue' \in Orders({c \in clients : NamespaceOf(c) = n})
  /\ chunk' = <<>> /\ length' = Header /\ page' = 1
  /\ UNCHANGED <<clients, sent>>

Sent(ok) == [clients |-> chunk, length |-> length, ok |-> ok]

\* Mutant: the client is written before its page is measured.
AddLate(ok) ==
  /\ stage = "page" /\ queue # <<>>
  /\ queue' = Tail(queue)
  /\ IF length > SlackCharLimit
     THEN /\ sent' = Append(sent, Sent(ok)) /\ page' = page + 1
          /\ chunk' = <<Head(queue)>> /\ length' = PageHeader + Size(Head(queue))
     ELSE /\ ok /\ UNCHANGED <<sent, page>>
          /\ chunk' = Append(chunk, Head(queue)) /\ length' = length + Size(Head(queue))
  /\ UNCHANGED <<stage, clients, groups>>
\* One client: where it does not fit, the page is sent first, even if it has
\* only a header.
Add(ok) ==
  /\ stage = "page" /\ queue # <<>>
  /\ queue' = Tail(queue)
  /\ IF length + Size(Head(queue)) > SlackCharLimit
     THEN /\ sent' = Append(sent, Sent(ok)) /\ page' = page + 1
          /\ chunk' = <<Head(queue)>> /\ length' = PageHeader + Size(Head(queue))
     ELSE /\ ok /\ UNCHANGED <<sent, page>>
          /\ chunk' = Append(chunk, Head(queue)) /\ length' = length + Size(Head(queue))
  /\ UNCHANGED <<stage, clients, groups>>

\* Mutant: a page is sent only after it is full.
CloseGroupUnsent(ok) ==
  /\ stage = "page" /\ queue = <<>> /\ ok
  /\ stage' = "groups" /\ chunk' = <<>> /\ length' = 0 /\ page' = 0
  /\ UNCHANGED <<clients, groups, queue, sent>>
\* The last page, if it is longer than the header of the first.
CloseGroup(ok) ==
  /\ stage = "page" /\ queue = <<>>
  /\ IF length > Header THEN sent' = Append(sent, Sent(ok)) ELSE ok /\ UNCHANGED sent
  /\ stage' = "groups" /\ chunk' = <<>> /\ length' = 0 /\ page' = 0
  /\ UNCHANGED <<clients, groups, queue>>

EndReport ==
  /\ stage = "groups" /\ groups = {}
  /\ stage' = "over"
  /\ UNCHANGED <<clients, groups, queue, chunk, length, page, sent>>

-----------------------------------------------------------------------------
ReportTypeOK ==
  /\ stage \in {"quiet", "groups", "page", "over"}
  /\ \A i \in DOMAIN queue : queue[i] \in clients
  /\ groups \subseteq {NamespaceOf(c) : c \in clients}
  /\ length \in Nat /\ page \in Nat
  /\ \A i \in DOMAIN sent : sent[i].ok \in BOOLEAN

\* Where a client is: on a page that was sent, on the page being written, or
\* still in the queue.
Places(c) ==
  {p \in {<<i, j>> : i \in DOMAIN sent, j \in 1..Cardinality(clients)} :
     p[2] \in DOMAIN sent[p[1]].clients /\ sent[p[1]].clients[p[2]] = c}
  \cup {<<"chunk", j>> : j \in {k \in DOMAIN chunk : chunk[k] = c}}
  \cup {<<"queue", j>> : j \in {k \in DOMAIN queue : queue[k] = c}}

\* However the clients fall on pages, each is on one page, once: none is lost
\* between a full page and the next, at the end of a namespace or with the last
\* page (L69-84).
PagesCover ==
  stage \in {"groups", "page", "over"} /\ (stage = "over" => sent # <<>>) =>
    \A c \in clients :
      Cardinality(Places(c)) = IF NamespaceOf(c) \in groups THEN 0 ELSE 1

\* No page is over Slack's limit, unless it has one client alone, and no page
\* mixes namespaces.
PagesFit ==
  \A i \in DOMAIN sent :
    /\ sent[i].length <= SlackCharLimit \/ Len(sent[i].clients) <= 1
    /\ \A j, k \in DOMAIN sent[i].clients :
         NamespaceOf(sent[i].clients[j]) = NamespaceOf(sent[i].clients[k])
=============================================================================

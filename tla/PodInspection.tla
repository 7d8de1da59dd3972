----------------------------- MODULE PodInspection -----------------------------
(***************************************************************************)
(* The inspection loop of a pass, call by call.  For each pod the monitor  *)
(* finds the service account, collects problems from events and logs and   *)
(* keeps one of them, looks for brokers in the variables of the containers *)
(* and parses the mounted config maps.  Every call may fail, which costs   *)
(* what it would have found and nothing else.                              *)
(*                                                                         *)
(* KafkaAccessMonitor takes all this for one step (Inspect); here it is    *)
(* shown to be one (InspectionIsSurvey).                                   *)
(***************************************************************************)
EXTENDS KafkaParser, FiniteSets

CONSTANTS
  Pods, Containers, ConfigMaps, Files,
  PodOf,               \* of each container
  Logged,              \* the containers that are no init containers
  EnvOf,               \* of each container, its variables in order
  MountsOf, FilesOf,   \* config maps of a pod, files of a config map
  Existing, Excluded,  \* config maps that exist; those called "cadence"
  Yaml,                \* files whose name ends in .yaml or .yml
  PodSelector, NamespaceSelector, LabelsOf,
  SecretOf,            \* of each pod, its secret or None
  AddressIn,           \* of each secret that can be read, the address in it
  PreferredName,       \* of each address (generatePreferredUserName)
  Accounts,            \* of the central config map
  Events,              \* of each pod, recent warnings in the order of the list
  Documents, Journals, \* for each file and container, what it may hold
  None,
  MaxFaults            \* bound on failed calls

ASSUME InspectionAssumption ==
  /\ PodOf \in [Containers -> Pods] /\ Logged \subseteq Containers
  /\ "event" \notin Containers /\ Containers \cap Files = {}
  /\ EnvOf \in [Containers -> Seq([searched : BOOLEAN, ref : ConfigMaps \cup {None},
                                  hosts : Seq(Scalars)])]
  /\ MountsOf \in [Pods -> SUBSET ConfigMaps]
  /\ FilesOf \in [ConfigMaps -> SUBSET Files]
  /\ Existing \subseteq ConfigMaps /\ Excluded \subseteq ConfigMaps
  /\ Yaml \subseteq Files /\ MaxFaults \in Nat
  /\ None \notin DOMAIN AddressIn /\ PreferredName[NoText] = NoText
  /\ None \notin Pods /\ IsFiniteSet(Accounts)
  /\ \A c \in Logged : \A log \in Journals[c] :
       Len(log) \in Nat /\ DOMAIN log = 1..Len(log)
  /\ \A p \in Pods : IsFiniteSet(DOMAIN Events[p])
  /\ \A f \in Files : \A doc \in Documents[f] : IsDocument(doc)

VARIABLES
  content, journal,    \* what each file and each container's log holds
  pc, todo, pod,       \* pods still to inspect; the one being inspected
  tenantMap, login,
  found,               \* problemsMap: messages with their type and count
  unread, read,        \* containers whose log is to be read; lines read of each
  kept,                \* the messages of the slice after its truncation
  unchecked, unparsed, \* containers and files that are still to come
  infos,               \* foundPodsAccessInfo
  listed,              \* AccessingPods of the status
  faults

worldVars == <<content, journal>>
podVars == <<pod, login, found, unread, read, kept, unchecked, unparsed>>
inspectVars == <<worldVars, pc, todo, podVars, tenantMap, infos, listed, faults>>

Works(ok) ==
  IF ok THEN UNCHANGED faults ELSE faults < MaxFaults /\ faults' = faults + 1

Nobody == [n \in {} |-> {}]
Nothing == [m \in {} |-> 0]
NothingRead == [c \in Containers |-> 0]

Init ==
  /\ content \in [Files -> UNION {Documents[f] : f \in Files}]
  /\ \A f \in Files : content[f] \in Documents[f]
  /\ journal \in [Logged -> UNION {Journals[c] : c \in Logged}]
  /\ \A c \in Logged : journal[c] \in Journals[c]
  /\ pc = "idle" /\ todo = {} /\ pod = None /\ tenantMap = Nobody /\ login = NoText
  /\ found = Nothing /\ unread = {} /\ read = NothingRead /\ kept = {}
  /\ unchecked = {} /\ unparsed = {} /\ infos = {} /\ listed = {} /\ faults = 0

\* Mutant: accounts are entered under their addresses only.
TenantMapsByAddress ==
  {[n \in {a.address : a \in Accounts} |->
      (CHOOSE a \in Accounts : a.address = n).tenants]}
\* LoadAndGetTenantMap: each account is entered under its address and under its
\* preferred name, in any order; a later one replaces an earlier one.
TenantMaps ==
  LET names == UNION {{a.address, a.name} : a \in Accounts}
      Entered(a, n) == n \in {a.address, a.name}
  IN  {[n \in names |->
          LET last == CHOOSE a \in Accounts :
                        /\ Entered(a, n)
                        /\ \A b \in Accounts : Entered(b, n) => turn[b] <= turn[a]
          IN  last.tenants] :
         turn \in {t \in [Accounts -> 1..Cardinality(Accounts)] :
                     \A a, b \in Accounts : t[a] = t[b] => a = b}}
TenantsFor(name) == IF name \in DOMAIN tenantMap THEN tenantMap[name] ELSE {}

\* Labels of pods are matched, and a namespace selector takes the place of the
\* pod selector.  An empty pod selector matches every pod, but a missing one
\* none.
ListPods ==
  LET Matching(selector) == {p \in Pods : selector \subseteq LabelsOf[p]}
  IN  CASE NamespaceSelector # {} -> Matching(NamespaceSelector)
        [] NamespaceSelector = {} /\ PodSelector = None -> {}
        [] OTHER -> Matching(PodSelector)

Begin ==
  /\ pc = "idle"
  /\ pc' = "next" /\ todo' = ListPods
  /\ \/ Works(TRUE) /\ tenantMap' \in TenantMaps
     \/ Works(FALSE) /\ tenantMap' = Nobody
  /\ UNCHANGED <<worldVars, podVars, infos, listed>>

\* Without its list of pods, a pass returns the error.
ListFails ==
  /\ pc = "idle" /\ Works(FALSE)
  /\ UNCHANGED <<worldVars, pc, todo, podVars, tenantMap, infos, listed>>

\* The address in the pod's secret, if it has one with an address in it.
FindAuthnServiceAccountEmail(p) ==
  IF SecretOf[p] \in DOMAIN AddressIn THEN AddressIn[SecretOf[p]] ELSE NoText
\* An error is dropped and leaves an empty name.
LoginFound(p) ==
  \E ok \in BOOLEAN :
    /\ SecretOf[p] = None => ok
    /\ Works(ok)
    /\ login' = IF ok THEN PreferredName[FindAuthnServiceAccountEmail(p)] ELSE NoText

\* Mutant: the map of problems outlives its pod.
NextPodKeeps(p) ==
  /\ pc = "next" /\ p \in todo
  /\ pc' = "events" /\ pod' = p /\ todo' = todo \ {p}
  /\ LoginFound(p)
  /\ read' = NothingRead
  /\ UNCHANGED <<worldVars, tenantMap, found, unread, kept, unchecked, unparsed,
                 infos, listed>>
NextPod(p) ==
  /\ pc = "next" /\ p \in todo
  /\ pc' = "events" /\ pod' = p /\ todo' = todo \ {p}
  /\ LoginFound(p)
  /\ found' = Nothing /\ read' = NothingRead
  /\ UNCHANGED <<worldVars, tenantMap, unread, kept, unchecked, unparsed, infos,
                 listed>>

-----------------------------------------------------------------------------
(***************************************************************************)
(* Problems: FetchRecentProblems.                                          *)
(***************************************************************************)

\* Mutant: a message that is known takes the type of its latest occurrence.
WithProblemRetyped(problems, message, type) ==
  [m \in DOMAIN problems \cup {message} |->
     IF m # message THEN problems[m]
     ELSE [type |-> type,
           count |-> IF m \in DOMAIN problems THEN problems[m].count + 1 ELSE 1]]
\* addOrUpdateProblem: a message is entered once, and counted from then on.
WithProblem(problems, message, type) ==
  [m \in DOMAIN problems \cup {message} |->
     CASE m # message -> problems[m]
       [] m = message /\ m \in DOMAIN problems -> [problems[m] EXCEPT !.count = @ + 1]
       [] OTHER -> [type |-> type, count |-> 1]]

EventMessage(p, i) == <<p, "event", Events[p][i]>>
\* All events of the list, entered by WithProblem.
WithEvents(problems, p) ==
  LET these(m) == {i \in DOMAIN Events[p] : EventMessage(p, i) = m}
  IN  [m \in DOMAIN problems \cup {EventMessage(p, i) : i \in DOMAIN Events[p]} |->
         IF m \in DOMAIN problems
         THEN [problems[m] EXCEPT !.count = @ + Cardinality(these(m))]
         ELSE [type |-> "Warning", count |-> Cardinality(these(m))]]

\* Failing to list the events leaves the logs to speak.
ListEvents ==
  /\ pc = "events"
  /\ pc' = "logs" /\ unread' = {c \in Logged : PodOf[c] = pod}
  /\ \/ Works(TRUE) /\ found' = WithEvents(found, pod)
     \/ Works(FALSE) /\ UNCHANGED found
  /\ UNCHANGED <<worldVars, todo, pod, tenantMap, login, read, kept, unchecked,
                 unparsed, infos, listed>>

\* A line counts if it has one of three words, and is not one of the known
\* harmless ones; the whole line gives the type, but the message is cut off
\* after 650 characters.
LineMessage(c, line) == <<PodOf[c], c, line.text>>
Matters(line) == line.words # {} /\ ~line.ignored
LineType(line) ==
  CASE "panic" \in line.words -> "Panic"
    [] "panic" \notin line.words /\ "error" \in line.words -> "Error"
    [] OTHER -> "Warning"

\* Logs are read one after the other.
Reading(c) == c \in unread /\ \A d \in unread \ {c} : read[d] = 0

ReadLine(c) ==
  /\ pc = "logs" /\ Reading(c) /\ read[c] < Len(journal[c])
  /\ read' = [read EXCEPT ![c] = @ + 1]
  /\ LET line == journal[c][read[c] + 1]
     IN  found' = IF Matters(line)
                  THEN WithProblem(found, LineMessage(c, line), LineType(line))
                  ELSE found
  /\ UNCHANGED <<worldVars, pc, todo, pod, tenantMap, login, unread, kept,
                 unchecked, unparsed, infos, listed, faults>>

\* The log ends, or cannot be opened, or breaks off.
LogEnds(c) ==
  /\ pc = "logs" /\ Reading(c)
  /\ Works(read[c] = Len(journal[c]))
  /\ unread' = unread \ {c}
  /\ UNCHANGED <<worldVars, pc, todo, pod, tenantMap, login, found, read, kept,
                 unchecked, unparsed, infos, listed>>

\* Mutant: the slice is not cut.
KeepProblemsAll ==
  /\ pc = "logs" /\ unread = {}
  /\ pc' = "variables" /\ kept' = DOMAIN found
  /\ unchecked' = {c \in Containers : PodOf[c] = pod}
  /\ UNCHANGED <<worldVars, todo, pod, tenantMap, login, found, unread, read,
                 unparsed, infos, listed, faults>>
\* The map gives its problems in any order, and the first of them is kept
\* (maxProblemsToStore).
KeepProblems ==
  /\ pc = "logs" /\ unread = {}
  /\ pc' = "variables"
  /\ IF DOMAIN found = {} THEN kept' = {} ELSE \E m \in DOMAIN found : kept' = {m}
  /\ unchecked' = {c \in Containers : PodOf[c] = pod}
  /\ UNCHANGED <<worldVars, todo, pod, tenantMap, login, found, unread, read,
                 unparsed, infos, listed, faults>>

-----------------------------------------------------------------------------
(***************************************************************************)
(* Brokers, of variables and of config maps.                               *)
(***************************************************************************)

\* A group that has no name of its own is that of the user, with a suffix.
GroupOf(details) ==
  CASE details.groupId # NoText -> <<details.groupId>>
    [] details.groupId = NoText /\ details.suffix # NoText -> <<login, details.suffix>>
    [] OTHER -> <<>>

\* PodAccessInfo: what one source of the current pod tells.
Info(source, details) ==
  [pod |-> pod, source |-> source, brokers |-> details.brokers,
   clientType |-> details.clientType, groupId |-> GroupOf(details),
   clientId |-> details.clientId, autoCommit |-> details.autoCommit,
   topics |-> details.topics, login |-> login, tenants |-> TenantsFor(login),
   problems |-> kept]

\* Variables name hosts, and nothing else.
HostsAlone(hosts) ==
  [brokers |-> hosts, clientType |-> "Unknown", groupId |-> NoText, suffix |-> NoText,
   clientId |-> NoText, autoCommit |-> NoText, topics |-> {}]

\* checkContainerEnvVars: the endpoints of all searched variables whose value
\* is given or whose config map could be read, in the order of the variables.
Endpoints(c, unresolved) ==
  LET joined[i \in 0..Len(EnvOf[c])] ==
        IF i = 0 THEN <<>>
        ELSE IF EnvOf[c][i].searched /\ i \notin unresolved
             THEN joined[i - 1] \o EnvOf[c][i].hosts ELSE joined[i - 1]
  IN  joined[Len(EnvOf[c])]
References(c) ==
  {i \in DOMAIN EnvOf[c] : EnvOf[c][i].searched /\ EnvOf[c][i].ref # None}

CheckContainer(c) ==
  /\ pc = "variables" /\ c \in unchecked
  /\ unchecked' = unchecked \ {c}
  /\ \E failed \in SUBSET References(c) :
       LET absent == {i \in References(c) : EnvOf[c][i].ref \notin Existing}
           hosts == Endpoints(c, failed)
       IN  /\ absent \subseteq failed /\ Cardinality(failed \ absent) <= 1
           /\ Works(failed = absent)
           /\ infos' = IF hosts = <<>> THEN infos
                       ELSE infos \cup {Info(c, HostsAlone(hosts))}
  /\ UNCHANGED <<worldVars, pc, todo, pod, tenantMap, login, found, unread, read,
                 kept, unparsed, listed>>

\* GetMountedConfigMaps: each config map once, those that cannot be read left
\* out; of them, the YAML files, except in the config map called "cadence".
GetMountedConfigMaps ==
  /\ pc = "variables" /\ unchecked = {}
  /\ pc' = "files"
  /\ \E got \in SUBSET (MountsOf[pod] \cap Existing) :
       /\ Cardinality((MountsOf[pod] \cap Existing) \ got) <= 1
       /\ Works(got = MountsOf[pod] \cap Existing)
       /\ unparsed' = UNION {FilesOf[m] \cap Yaml : m \in got \ Excluded}
  /\ UNCHANGED <<worldVars, todo, pod, tenantMap, login, found, unread, read,
                 kept, unchecked, infos, listed>>

ParseFile(f) ==
  /\ pc = "files" /\ f \in unparsed
  /\ unparsed' = unparsed \ {f}
  /\ \E d \in Parse(content[f]) :
       infos' = IF d.brokers = <<>> THEN infos ELSE infos \cup {Info(f, d)}
  /\ UNCHANGED <<worldVars, pc, todo, pod, tenantMap, login, found, unread, read,
                 kept, unchecked, listed, faults>>

PodDone ==
  /\ pc = "files" /\ unparsed = {}
  /\ pc' = "next" /\ pod' = None /\ login' = NoText /\ kept' = {}
  /\ UNCHANGED <<worldVars, todo, tenantMap, found, unread, read, unchecked,
                 unparsed, infos, listed, faults>>

\* All pods are inspected, and the list goes into the status.
Conclude ==
  /\ pc = "next" /\ todo = {}
  /\ pc' = "report" /\ listed' = infos
  /\ UNCHANGED <<worldVars, todo, podVars, tenantMap, infos, faults>>

InspectionStep ==
  \/ Begin \/ ListFails \/ ListEvents \/ KeepProblems \/ GetMountedConfigMaps \/ PodDone
  \/ Conclude
  \/ \E p \in Pods : NextPod(p)
  \/ \E c \in Containers : ReadLine(c) \/ LogEnds(c) \/ CheckContainer(c)
  \/ \E f \in Files : ParseFile(f)
-----------------------------------------------------------------------------
(***************************************************************************)
(* Properties.  What the code should find is said without its walks: where *)
(* a document has its Kafka section, and what is written in there.         *)
(***************************************************************************)

InspectionTypeOK ==
  /\ pc \in {"idle", "next", "events", "logs", "variables", "files", "report"}
  /\ todo \subseteq Pods /\ pod \in Pods \cup {None} /\ pod \notin todo
  /\ \A m \in DOMAIN found :
       found[m].type \in {"Warning", "Error", "Panic"} /\ found[m].count \in Nat \ {0}
  /\ unread \subseteq Logged /\ unchecked \subseteq Containers /\ unparsed \subseteq Files
  /\ kept \subseteq DOMAIN found
  /\ \A i \in infos \cup listed :
       /\ i.pod \in Pods /\ i.source \in Containers \cup Files
       /\ i.brokers # <<>> /\ i.clientType \in {"Consumer", "Producer", "Unknown"}
       /\ Cardinality(i.problems) <= 1
  /\ faults \in 0..MaxFaults

\* The lines of a pod that were read so far, and its events, as occurrences.
LinesRead(p) ==
  UNION {{[at |-> c, line |-> i] : i \in 1..read[c]} : c \in {d \in Logged : PodOf[d] = p}}
LineAt(o) == journal[o.at][o.line]
Occurrences(m) ==
  {o \in LinesRead(pod) : Matters(LineAt(o)) /\ LineMessage(o.at, LineAt(o)) = m}

\* While the logs are read, every problem in the map has been seen as often as
\* it is counted, has the type of its first occurrence, and none that was seen
\* is missing: nothing of another pod, of another container or of a line that
\* is cut to the same text is mixed in (L42-57, L104-131).
CountsOccurrences ==
  pc = "logs" =>
    /\ \A o \in LinesRead(pod) :
         Matters(LineAt(o)) => LineMessage(o.at, LineAt(o)) \in DOMAIN found
    /\ \A m \in DOMAIN found :
         LET lines == Occurrences(m)
             events == {i \in DOMAIN Events[pod] : EventMessage(pod, i) = m}
         IN  /\ found[m].count = Cardinality(lines) + Cardinality(events)
             /\ \A o \in lines :
                  (\A q \in lines : o.line <= q.line) => found[m].type = LineType(LineAt(o))

\* Where the Kafka section of a document is.
HasMapAt(doc, path) ==
  \E l \in doc : /\ Len(l.path) > Len(path) \/ (Len(l.path) = Len(path) /\ l.kind = "map")
                 /\ SubSeq(l.path, 1, Len(path)) = path
Section(doc) ==
  CASE HasMapAt(doc, <<"kafka">>) -> <<"kafka">>
    [] ~HasMapAt(doc, <<"kafka">>) /\ HasMapAt(doc, <<"thirdParties", "kafka">>) ->
         <<"thirdParties", "kafka">>
    [] OTHER -> <<>>

\* What a document says there at one path, in whatever spelling; without a
\* section, only paths of one key count.
Folded(path) == [i \in DOMAIN path |-> Fold[path[i]]]
Said(doc, path, kinds) ==
  LET n == Len(Section(doc))
  IN  {l.says : l \in {m \in doc :
         /\ Len(m.path) = n + Len(path) /\ m.kind \in kinds
         /\ SubSeq(m.path, 1, n) = Section(doc)
         /\ Folded(SubSeq(m.path, n + 1, n + Len(path))) = path
         /\ n > 0 \/ Len(path) = 1}}
SaidAnywhere(doc, field, kinds) ==
  UNION {Said(doc, Rules[field][i], kinds) : i \in DOMAIN Rules[field]}
\* No two keys of one map differ only in case.
Unambiguous(doc) ==
  \A l, m \in doc : \A i \in DOMAIN l.path \cap DOMAIN m.path :
    Folded(SubSeq(l.path, 1, i)) = Folded(SubSeq(m.path, 1, i)) =>
      SubSeq(l.path, 1, i) = SubSeq(m.path, 1, i)
\* The rules are in order of precedence.
FirstSaid(doc, field, kinds) ==
  LET hits == {i \in DOMAIN Rules[field] : Said(doc, Rules[field][i], kinds) # {}}
  IN  IF hits = {} THEN {NoText}
      ELSE Said(doc, Rules[field][CHOOSE i \in hits : \A j \in hits : i <= j], kinds)

\* A topic comes from one map, which has both its subject and its version, in a
\* document without a Kafka section.
TextBelow(doc, k, key) ==
  {l.says : l \in {m \in doc : m.path = <<k, key>> /\ m.kind = "text"}}
TopicIsWritten(topic, doc) ==
  LET Either(k, one, other) ==
        IF TextBelow(doc, k, one) # {} THEN TextBelow(doc, k, one) ELSE TextBelow(doc, k, other)
  IN  /\ Section(doc) = <<>>
      /\ \E k \in Keys : /\ Fold[k] \in {"topics", "topic"}
                         /\ topic.subject \in Either(k, "subject", "name")
                         /\ topic.version \in Either(k, "version", "version5")

\* An entry describes one client: all that it says of a file is written in the
\* one Kafka section of that file, at a path of the rules, and with unambiguous
\* keys it is what the first such path says; topics, which have no rules, come
\* from a document without a section (L61-120, L126-216, L241-306).
Writes(i, doc) ==
  LET text == {"text", "int"}
      suffixes == SaidAnywhere(doc, "consumerGroupSuffix", text)
      hosts == SaidAnywhere(doc, "host", text)
      ports == SaidAnywhere(doc, "port", text)
  IN  /\ \/ \E b \in SaidAnywhere(doc, "bootstrapServers", text) : i.brokers = <<b>>
         \/ \E h \in hosts, p \in ports : i.brokers = <<h, p>>
      /\ \/ i.groupId = <<>>
         \/ \E g \in SaidAnywhere(doc, "groupId", text) : i.groupId = <<g>>
         \/ \E s \in suffixes : i.groupId = <<i.login, s>>
      /\ i.clientId \in SaidAnywhere(doc, "clientId", text) \cup {NoText}
      /\ i.autoCommit \in SaidAnywhere(doc, "autoCommit", {"bool"}) \cup {NoText}
      /\ \A topic \in i.topics : TopicIsWritten(topic, doc)
      /\ Unambiguous(doc) =>
           /\ {i.clientId} = FirstSaid(doc, "clientId", text)
           /\ {i.autoCommit} = FirstSaid(doc, "autoCommit", {"bool"})
           /\ FirstSaid(doc, "groupId", text) # {NoText} =>
                {i.groupId} = {<<g>> : g \in FirstSaid(doc, "groupId", text)}
FieldsAreWritten ==
  \A i \in infos : i.source \in Files => Writes(i, content[i.source])

\* The sources that name brokers, without a failed read.  Where keys are
\* ambiguous, a path that is not the first may.
NamesBrokers(f) ==
  LET doc == content[f]
      Speaks(field) ==
        LET said == IF Unambiguous(doc) THEN FirstSaid(doc, field, {"text", "int"})
                    ELSE SaidAnywhere(doc, field, {"text", "int"})
        IN  said \ {NoText} # {}
  IN  Speaks("bootstrapServers") \/ (Speaks("host") /\ Speaks("port"))
SourcesOf(p) ==
  {c \in Containers : PodOf[c] = p /\ \E i \in DOMAIN EnvOf[c] :
     /\ EnvOf[c][i].searched /\ EnvOf[c][i].hosts # <<>>
     /\ EnvOf[c][i].ref \in Existing \cup {None}}
  \cup
  {f \in Files \cap Yaml :
     NamesBrokers(f) /\ \E m \in (MountsOf[p] \cap Existing) \ Excluded : f \in FilesOf[m]}
IsCertain(s) == s \in Files => Unambiguous(content[s])
MessagesOf(p) ==
  {EventMessage(p, i) : i \in DOMAIN Events[p]} \cup
  UNION {{LineMessage(c, journal[c][i]) : i \in {j \in DOMAIN journal[c] : Matters(journal[c][j])}} :
           c \in {d \in Logged : PodOf[d] = p}}

\* A list without failed calls is complete: every source that names brokers,
\* in keys that are not ambiguous, has its entry, and every pod in trouble shows
\* a problem.  With failed calls it has no entry and no problem that is not
\* there, and every entry of a pod shows the same one (L123-204).
ListIsComplete ==
  pc = "report" =>
    \A p \in ListPods :
      LET mine == {i \in listed : i.pod = p}
      IN  /\ {i.source : i \in mine} \subseteq SourcesOf(p)
          /\ \A i, j \in mine : i.problems = j.problems /\ i.problems \subseteq MessagesOf(p)
          /\ faults = 0 =>
               /\ {s \in SourcesOf(p) : IsCertain(s)} \subseteq {i.source : i \in mine}
               /\ MessagesOf(p) # {} => \A i \in mine : i.problems # {}

\* An entry with a login has the one that is found in its pod's own secret, and
\* the tenants of one account that goes by it, never of several that share the
\* name.  The exception is an entry without a login, as the secret has no
\* address or could not be read: it may have the tenants of an account that
\* lacks an address or a name, which is entered under the empty name
\* (LoadAndGetTenantMap, L84-85), but of no other.  Where nothing failed, the
\* login is that of the secret and its tenants are found (L90-99, L127-129).
Bearers(name) == {a \in Accounts : name \in {a.address, a.name}}
TenantsAreOneAccounts ==
  \A i \in infos \cup listed :
    LET name == PreferredName[FindAuthnServiceAccountEmail(i.pod)]
        AreThoseOf(n) == \E a \in Bearers(n) : i.tenants = a.tenants
    IN  /\ i.login # NoText => i.login = name /\ (i.tenants = {} \/ AreThoseOf(name))
        /\ i.login = NoText => i.tenants = {} \/ AreThoseOf(NoText)
        /\ faults = 0 => i.login = name /\ (name # NoText /\ Bearers(name) # {} => AreThoseOf(name))

\* All messages there may be.
Messages ==
  (UNION {{EventMessage(p, i) : i \in DOMAIN Events[p]} : p \in Pods}) \cup
  (UNION {UNION {{LineMessage(c, log[i]) : i \in DOMAIN log} : log \in Journals[c]} : c \in Logged})

\* The inspection of a pod appears as one step: an observer of the list sees a
\* survey of the pods, in which each has at most one problem, its own.
ProblemOf(i) == IF i.problems = {} THEN None ELSE CHOOSE m \in i.problems : TRUE
NotesOf(is) == {[pod |-> i.pod, problem |-> ProblemOf(i)] : i \in is}
Survey == INSTANCE KafkaSurvey WITH
  Problems <- Messages,
  running <- ListPods,
  trouble <- [p \in Pods |-> MessagesOf(p)],
  surveying <- pc \notin {"idle", "report"},
  todo <- IF pod = None THEN todo ELSE todo \cup {pod},
  notes <- IF pc \in {"idle", "report"} THEN {} ELSE NotesOf({i \in infos : i.pod # pod}),
  published <- NotesOf(listed)
InspectionIsSurvey == Survey!Spec
=============================================================================

---------------------------- MODULE KafkaListProofs ----------------------------
(***************************************************************************)
(* What the list says: its entries are written in the configuration, and   *)
(* without failed calls none is missing.                                   *)
(***************************************************************************)
EXTENDS KafkaPassProofs, KafkaParserProofs

-----------------------------------------------------------------------------
(***************************************************************************)
(* What an entry says of a file.                                           *)
(***************************************************************************)

Read == {"text", "int"}

\* A value that was read, and the one that is meant if keys are unambiguous.
LEMMA ReadingIsSaid ==
  ASSUME NEW doc, IsDocument(doc), NEW field \in DOMAIN Rules, NEW kinds,
         NEW x \in Values(KafkaRoot(doc), field, kinds, NoText)
  PROVE  /\ x # NoText => x \in SaidAnywhere(doc, field, kinds)
         /\ Unambiguous(doc) => FirstSaid(doc, field, kinds) = {x}
<1>1. NoText \in Scalars
  BY ParserAssumption
<1>2. x # NoText => x \in SaidAnywhere(doc, field, kinds)
  BY <1>1, ValuesAreSaid
<1>3. ASSUME Unambiguous(doc) PROVE FirstSaid(doc, field, kinds) = {x}
  <2>1. x \in FirstSaid(doc, field, kinds)
    BY <1>1, <1>3, ValuesAreFirst
  <2>2. PICK y : FirstSaid(doc, field, kinds) = {y}
    BY <1>3, FirstIsOne
  <2>3. QED
    BY <2>1, <2>2
<1>4. QED
  BY <1>2, <1>3

LEMMA TextsAreSaid ==
  ASSUME NEW doc, IsDocument(doc), NEW field \in DOMAIN Rules,
         NEW x \in Texts(KafkaRoot(doc), field)
  PROVE  /\ x # NoText => x \in SaidAnywhere(doc, field, Read)
         /\ Unambiguous(doc) => FirstSaid(doc, field, Read) = {x}
BY ReadingIsSaid DEF Texts, Read

\* The texts at the top of what is below two keys.
TopTexts(tree) == {l.says : l \in {m \in tree : m.path = <<>> /\ m.kind = "text"}}

LEMMA TextsBelow ==
  ASSUME NEW doc \in SUBSET Leaf, NEW k \in Keys, NEW part \in Keys
  PROVE  TopTexts(Below(Sub(doc, <<k>>), part)) = TextBelow(doc, k, part)
<1>1. PICK keys \in Seq(Keys) : keys = <<k, part>> /\ Len(keys) = 2 /\ keys[1] = k /\ keys[2] = part
  <2>1. <<k, part>> \in Seq(Keys)
    OBVIOUS
  <2>2. Len(<<k, part>>) = 2 /\ <<k, part>>[1] = k /\ <<k, part>>[2] = part
    OBVIOUS
  <2>3. QED
    BY <2>1, <2>2
<1>2. <<k>> \o <<part>> = keys /\ <<k>> \in Seq(Keys) /\ <<part>> \in Seq(Keys)
  <2>1. /\ <<k>> \in Seq(Keys) /\ Len(<<k>>) = 1 /\ <<k>>[1] = k
        /\ <<part>> \in Seq(Keys) /\ Len(<<part>>) = 1 /\ <<part>>[1] = part
    OBVIOUS
  <2>2. PICK s \in Seq(Keys) : s = <<k>>
    BY <2>1
  <2>3. PICK t \in Seq(Keys) : t = <<part>>
    BY <2>1
  <2>4. s \o t \in Seq(Keys) /\ Len(s \o t) = 2 /\ (s \o t)[1] = k /\ (s \o t)[2] = part
    BY <2>1, <2>2, <2>3, ConcatProperties
  <2>5. PICK u \in Seq(Keys) : u = s \o t
    BY <2>4
  <2>6. u = keys
    <3>1. Len(u) = 2 /\ Len(keys) = 2 /\ u[1] = keys[1] /\ u[2] = keys[2]
      BY <1>1, <2>4, <2>5
    <3>2. QED
      BY <3>1, SeqEqual
  <2>7. QED
    BY <2>1, <2>2, <2>3, <2>5, <2>6
<1>3. Below(Sub(doc, <<k>>), part) = Sub(doc, keys)
  <2>1. Sub(doc, <<k>>) \in SUBSET Leaf
    BY DEF Sub
  <2>2. Below(Sub(doc, <<k>>), part) = Sub(Sub(doc, <<k>>), <<part>>)
    BY <2>1, BelowIsSub
  <2>3. Sub(Sub(doc, <<k>>), <<part>>) = Sub(doc, <<k>> \o <<part>>)
    BY <1>2, SubOfSub
  <2>4. QED
    BY <1>2, <2>2, <2>3
<1>4. ASSUME NEW l \in Sub(doc, keys), l.path = <<>>
      PROVE  \E m \in doc : m.path = keys /\ m.kind = l.kind /\ m.says = l.says
  <2>1. l \in Leaf /\ Under(keys, l) \in doc
    BY DEF Sub
  <2>2. /\ Under(keys, l).path = keys \o <<>>
        /\ Under(keys, l).kind = l.kind /\ Under(keys, l).says = l.says
    BY <1>4, <2>1, UnderType
  <2>3. keys \o <<>> = keys
    BY ConcatEmptySeq
  <2>4. QED
    BY <2>1, <2>2, <2>3
<1>5. ASSUME NEW m \in doc, m.path = keys
      PROVE  \E l \in Sub(doc, keys) : l.path = <<>> /\ l.kind = m.kind /\ l.says = m.says
  <2> DEFINE l == [path |-> <<>>, kind |-> m.kind, says |-> m.says]
  <2>1. m \in Leaf /\ m = [path |-> keys, kind |-> m.kind, says |-> m.says]
    BY <1>5 DEF Leaf
  <2>2. l \in Leaf /\ l.path = <<>> /\ l.kind = m.kind /\ l.says = m.says
    BY <2>1 DEF Leaf
  <2>3. Under(keys, l) = [path |-> keys \o <<>>, kind |-> m.kind, says |-> m.says]
    BY DEF Under
  <2>4. keys \o <<>> = keys
    BY ConcatEmptySeq
  <2>5. Under(keys, l) \in doc
    BY <2>1, <2>3, <2>4
  <2> HIDE DEF l
  <2>6. QED
    BY <2>2, <2>5 DEF Sub
<1>6. TextBelow(doc, k, part) = {m.says : m \in {x \in doc : x.path = keys /\ x.kind = "text"}}
  BY <1>1 DEF TextBelow
<1>7. TopTexts(Sub(doc, keys)) = TextBelow(doc, k, part)
  <2>1. ASSUME NEW v \in TopTexts(Sub(doc, keys)) PROVE v \in TextBelow(doc, k, part)
    <3>1. PICK l \in Sub(doc, keys) : l.path = <<>> /\ l.kind = "text" /\ v = l.says
      BY <2>1 DEF TopTexts
    <3>2. QED
      BY <1>4, <1>6, <3>1
  <2>2. ASSUME NEW v \in TextBelow(doc, k, part) PROVE v \in TopTexts(Sub(doc, keys))
    <3>1. PICK m \in doc : m.path = keys /\ m.kind = "text" /\ v = m.says
      BY <1>6, <2>2
    <3>2. QED
      BY <1>5, <3>1 DEF TopTexts
  <2>3. QED
    BY <2>1, <2>2
<1>8. QED
  BY <1>3, <1>7

\* A topic is found in one map only, and in no Kafka section.
LEMMA TopicsAreWritten ==
  ASSUME NEW doc, IsDocument(doc), NEW topics \in Topics(KafkaRoot(doc)), NEW topic \in topics
  PROVE  TopicIsWritten(topic, doc)
<1> DEFINE root == KafkaRoot(doc)
<1> DEFINE Given(tree) == IF IsMap(tree) /\ ~root.converted THEN TopicsIn(tree) ELSE {}
<1>1. PICK key \in {"topics", "topic"} : \E tree \in ValueFromPath(root, <<key>>) : topics = Given(tree)
  <2>1. PICK tree \in ValueFromPath(root, <<"topics">>) :
          topics \in IF tree # Missing THEN {Given(tree)}
                     ELSE {Given(u) : u \in ValueFromPath(root, <<"topic">>)}
    BY DEF Topics
  <2> HIDE DEF root, Given
  <2>2. CASE tree # Missing
    BY <2>1, <2>2
  <2>3. CASE tree = Missing
    BY <2>1, <2>3
  <2>4. QED
    BY <2>2, <2>3
<1>2. PICK tree \in ValueFromPath(root, <<key>>) : topics = Given(tree)
  BY <1>1
<1>3. /\ tree # Missing /\ ~root.converted /\ topic \in TopicsIn(tree)
  BY <1>2 DEF IsMap
<1>4. Section(doc) = <<>>
  <2>1. root = [data |-> Sub(doc, Section(doc)), converted |-> Section(doc) # <<>>]
    BY RootIsSection
  <2>2. root.converted = (Section(doc) # <<>>)
    BY <2>1
  <2> HIDE DEF root
  <2>3. QED
    BY <1>3, <2>2
<1>5. /\ key \in Keys /\ <<key>> \in Seq(Keys)
      /\ {"subject", "name", "version", "version5"} \subseteq Keys
  BY <1>1, ParserAssumption
<1>6. PICK keys \in Seq(Keys) :
        Len(keys) = 1 /\ Folded(keys) = <<key>> /\ tree = Sub(doc, Section(doc) \o keys)
  <2>1. PICK path \in Seq(Keys) : path = <<key>> /\ Len(path) = 1
    BY <1>5
  <2>2. tree \in ValueFromPath(KafkaRoot(doc), path)
    BY <1>2, <2>1
  <2>3. QED
    BY <1>3, <2>1, <2>2, WalkIsSound
<1>7. PICK k \in Keys : keys = <<k>> /\ Fold[k] = key /\ tree = Sub(doc, <<k>>)
  <2>1. keys[1] \in Keys /\ keys = <<keys[1]>> /\ Fold[keys[1]] = key
    BY <1>6, ElementOfSeq DEF Folded
  <2>2. <<>> \o keys = keys
    BY ConcatEmptySeq
  <2>3. QED
    BY <1>4, <1>6, <2>1, <2>2
<1> HIDE DEF root, Given
<1>8. \A part \in {"subject", "name", "version", "version5"} :
        TopTexts(Below(tree, part)) = TextBelow(doc, k, part)
  BY <1>5, <1>7, TextsBelow DEF IsDocument, Leaf
<1>9. /\ topic.subject \in IF TopTexts(Below(tree, "subject")) # {}
                          THEN TopTexts(Below(tree, "subject")) ELSE TopTexts(Below(tree, "name"))
      /\ topic.version \in IF TopTexts(Below(tree, "version")) # {}
                          THEN TopTexts(Below(tree, "version")) ELSE TopTexts(Below(tree, "version5"))
  BY <1>3 DEF TopicsIn, TopTexts
<1>10. QED
  BY <1>1, <1>4, <1>7, <1>8, <1>9 DEF TopicIsWritten

TextFields ==
  {"bootstrapServers", "host", "port", "groupId", "clientId", "consumerGroupSuffix"}

\* An entry made of a description says what is written.
LEMMA DescriptionIsWritten ==
  ASSUME NEW doc, IsDocument(doc), NEW d \in Parse(doc), d.brokers # <<>>,
         NEW i, i.brokers = d.brokers, i.groupId = GroupOf(d), i.clientId = d.clientId,
         i.autoCommit = d.autoCommit, i.topics = d.topics, i.login = login
  PROVE  Writes(i, doc)
<1> DEFINE root == KafkaRoot(doc)
<1>1. TextFields \cup {"autoCommit"} \subseteq DOMAIN Rules
  BY ParserAssumption DEF TextFields
<1>2. /\ d.brokers \in Brokers(root) /\ d.topics \in Topics(root)
      /\ d.groupId \in Texts(root, "groupId") /\ d.clientId \in Texts(root, "clientId")
      /\ d.suffix \in Texts(root, "consumerGroupSuffix")
      /\ d.autoCommit \in Values(root, "autoCommit", {"bool"}, NoText)
  BY DEF Parse
<1> HIDE DEF root
<1>3. \A field \in TextFields : \A x \in Texts(root, field) :
        /\ x # NoText => x \in SaidAnywhere(doc, field, Read)
        /\ Unambiguous(doc) => FirstSaid(doc, field, Read) = {x}
  BY <1>1, TextsAreSaid DEF root
<1>4. \/ \E b \in SaidAnywhere(doc, "bootstrapServers", Read) : d.brokers = <<b>>
      \/ \E h \in SaidAnywhere(doc, "host", Read), p \in SaidAnywhere(doc, "port", Read) :
           d.brokers = <<h, p>>
  <2>1. PICK b \in Texts(root, "bootstrapServers") :
          d.brokers \in IF b # NoText THEN {<<b>>}
                        ELSE {IF NoText \in {h, p} THEN <<>> ELSE <<h, p>> :
                                h \in Texts(root, "host"), p \in Texts(root, "port")}
    BY <1>2 DEF Brokers
  <2>2. CASE b # NoText
    BY <1>3, <2>1, <2>2 DEF TextFields
  <2>3. CASE b = NoText
    <3>1. PICK h \in Texts(root, "host"), p \in Texts(root, "port") :
            d.brokers = IF NoText \in {h, p} THEN <<>> ELSE <<h, p>>
      BY <2>1, <2>3
    <3>2. h # NoText /\ p # NoText /\ d.brokers = <<h, p>>
      BY <3>1
    <3>3. h \in SaidAnywhere(doc, "host", Read) /\ p \in SaidAnywhere(doc, "port", Read)
      BY <1>3, <3>1, <3>2 DEF TextFields
    <3>4. QED
      BY <3>2, <3>3
  <2>4. QED
    BY <2>2, <2>3
<1>5. /\ d.groupId # NoText => d.groupId \in SaidAnywhere(doc, "groupId", Read)
      /\ d.suffix # NoText => d.suffix \in SaidAnywhere(doc, "consumerGroupSuffix", Read)
      /\ d.clientId # NoText => d.clientId \in SaidAnywhere(doc, "clientId", Read)
  BY <1>2, <1>3 DEF TextFields
<1>6. ASSUME Unambiguous(doc)
      PROVE  /\ FirstSaid(doc, "clientId", Read) = {d.clientId}
             /\ FirstSaid(doc, "groupId", Read) = {d.groupId}
  BY <1>2, <1>3, <1>6 DEF TextFields
<1>7. \/ i.groupId = <<>>
      \/ \E g \in SaidAnywhere(doc, "groupId", Read) : i.groupId = <<g>>
      \/ \E s \in SaidAnywhere(doc, "consumerGroupSuffix", Read) : i.groupId = <<i.login, s>>
  BY <1>5 DEF GroupOf
<1>8. ASSUME Unambiguous(doc), FirstSaid(doc, "groupId", Read) # {NoText}
      PROVE  {i.groupId} = {<<g>> : g \in FirstSaid(doc, "groupId", Read)}
  <2>1. d.groupId # NoText /\ FirstSaid(doc, "groupId", Read) = {d.groupId}
    BY <1>6, <1>8
  <2>2. i.groupId = <<d.groupId>>
    BY <2>1 DEF GroupOf
  <2>3. QED
    BY <2>1, <2>2
<1>9. /\ d.autoCommit # NoText => d.autoCommit \in SaidAnywhere(doc, "autoCommit", {"bool"})
      /\ Unambiguous(doc) => FirstSaid(doc, "autoCommit", {"bool"}) = {d.autoCommit}
  BY <1>1, <1>2, ReadingIsSaid DEF root
<1>10. \A topic \in d.topics : TopicIsWritten(topic, doc)
  BY <1>2, TopicsAreWritten DEF root
<1>11. QED
  BY <1>4, <1>5, <1>6, <1>7, <1>8, <1>9, <1>10 DEF Writes, Read

USE DEF worldVars, podVars, inspectVars, slackVars

\* Files hold documents, and none changes while it is read.
ContentInv == \A f \in Files : IsDocument(content[f])

LEMMA ContentStays ==
  ASSUME [PassNext]_vars
  PROVE  content' = content
<1>1. CASE InspectionStep
  <2>1. ASSUME NEW c \in Containers, ReadLine(c) \/ LogEnds(c) \/ CheckContainer(c)
        PROVE  content' = content
    BY <2>1 DEF ReadLine, LogEnds, CheckContainer
  <2>2. ASSUME NEW f \in Files, ParseFile(f) PROVE content' = content
    BY <2>2 DEF ParseFile
  <2>3. ASSUME NEW p \in Pods, NextPod(p) PROVE content' = content
    BY <2>3 DEF NextPod
  <2>4. CASE \/ Begin \/ ListFails \/ ListEvents \/ KeepProblems \/ GetMountedConfigMaps
             \/ PodDone \/ Conclude
    BY <2>4 DEF Begin, ListFails, ListEvents, KeepProblems, GetMountedConfigMaps, PodDone,
       Conclude
  <2>5. QED
    BY <1>1, <2>1, <2>2, <2>3, <2>4 DEF InspectionStep
<1>2. CASE ReportStep \/ PassEnds \/ UNCHANGED vars
  BY <1>2 DEF ReportStep, PassEnds, vars
<1>3. QED
  BY <1>1, <1>2 DEF PassNext

\* Entries of files come from ParseFile.
LEMMA FieldsStep ==
  ASSUME ContentInv, FieldsAreWritten, [PassNext]_vars
  PROVE  ContentInv' /\ FieldsAreWritten'
<1>1. content' = content
  BY ContentStays
<1>2. ASSUME NEW i \in infos', i \notin infos, i.source \in Files
      PROVE  Writes(i, content[i.source])
  <2>1. PICK f \in Files : ParseFile(f)
    <3>1. ASSUME NEW c \in Containers, CheckContainer(c) PROVE FALSE
      <4>1. i.source = c
        BY <1>2, <3>1 DEF CheckContainer, Info
      <4>2. QED
        BY <1>2, <4>1, InspectionAssumption
    <3>2. ASSUME InspectionStep PROVE \E f \in Files : ParseFile(f)
      <4>1. CASE \/ Begin \/ ListFails \/ ListEvents \/ KeepProblems
                 \/ GetMountedConfigMaps \/ PodDone \/ Conclude
        BY <1>2, <4>1 DEF Begin, ListFails, ListEvents, KeepProblems,
           GetMountedConfigMaps, PodDone, Conclude
      <4>2. CASE \E p \in Pods : NextPod(p)
        BY <1>2, <4>2 DEF NextPod
      <4>3. CASE \E c \in Containers : ReadLine(c) \/ LogEnds(c)
        BY <1>2, <4>3 DEF ReadLine, LogEnds
      <4>4. QED
        BY <3>1, <3>2, <4>1, <4>2, <4>3 DEF InspectionStep
    <3>3. QED
      BY <1>2, <3>2 DEF PassNext, ReportStep, PassEnds, vars
  <2>2. PICK d \in Parse(content[f]) :
          d.brokers # <<>> /\ i = Info(f, d)
    BY <1>2, <2>1 DEF ParseFile
  <2>3. /\ i.source = f /\ i.brokers = d.brokers /\ i.groupId = GroupOf(d)
        /\ i.clientId = d.clientId /\ i.autoCommit = d.autoCommit
        /\ i.topics = d.topics /\ i.login = login
    BY <2>2 DEF Info
  <2>4. IsDocument(content[f])
    BY DEF ContentInv
  <2>5. QED
    BY <2>2, <2>3, <2>4, DescriptionIsWritten
<1>3. ContentInv'
  BY <1>1 DEF ContentInv
<1>4. ASSUME NEW i \in infos', i.source \in Files PROVE Writes(i, content[i.source])
  BY <1>2, <1>4 DEF FieldsAreWritten
<1>5. QED
  BY <1>1, <1>3, <1>4 DEF FieldsAreWritten

\* What an entry says of a file is written in that file's one Kafka section, at
\* a path of the rules; with unambiguous keys, at the first such path: for
\* every document, however deep (Parse, L61-120, L126-216, L241-306).
THEOREM FieldsAlwaysWritten == PassSpec => []FieldsAreWritten
<1>1. PassInit => ContentInv /\ FieldsAreWritten
  BY InspectionAssumption DEF PassInit, Init, ContentInv, FieldsAreWritten
<1>2. ContentInv /\ FieldsAreWritten /\ [PassNext]_vars => ContentInv' /\ FieldsAreWritten'
  BY FieldsStep
<1>3. QED
  BY <1>1, <1>2, PTL DEF PassSpec

-----------------------------------------------------------------------------
(***************************************************************************)
(* Which sources name brokers.                                             *)
(***************************************************************************)

\* Variables that give endpoints.
Gives(c, i, unresolved) ==
  EnvOf[c][i].searched /\ i \notin unresolved /\ EnvOf[c][i].hosts # <<>>

LEMMA VariablesType ==
  ASSUME NEW c \in Containers
  PROVE  /\ Len(EnvOf[c]) \in Nat /\ DOMAIN EnvOf[c] = 1..Len(EnvOf[c])
         /\ \A i \in 1..Len(EnvOf[c]) : EnvOf[c][i].hosts \in Seq(Scalars)
                                       /\ EnvOf[c][i].ref \in ConfigMaps \cup {None}
<1> DEFINE V == [searched : BOOLEAN, ref : ConfigMaps \cup {None}, hosts : Seq(Scalars)]
<1>1. EnvOf[c] \in Seq(V)
  BY InspectionAssumption
<1>2. \A v \in V : v.hosts \in Seq(Scalars) /\ v.ref \in ConfigMaps \cup {None}
  OBVIOUS
<1> HIDE DEF V
<1>3. QED
  BY <1>1, <1>2, LenProperties, ElementOfSeq

\* A container has endpoints if one of its variables gives some.
LEMMA EndpointsAreGiven ==
  ASSUME NEW c \in Containers, NEW unresolved
  PROVE  Endpoints(c, unresolved) # <<>> <=>
           \E i \in 1..Len(EnvOf[c]) : Gives(c, i, unresolved)
<1> DEFINE n == Len(EnvOf[c])
<1> DEFINE S == Seq(Scalars)
<1> DEFINE More(i, x) ==
      IF EnvOf[c][i].searched /\ i \notin unresolved THEN x \o EnvOf[c][i].hosts ELSE x
<1> DEFINE F(w) == [i \in 0..n |->
      IF i = 0 THEN <<>>
      ELSE IF EnvOf[c][i].searched /\ i \notin unresolved
           THEN w[i - 1] \o EnvOf[c][i].hosts ELSE w[i - 1]]
<1> DEFINE joined == CHOOSE w : w = F(w)
<1> DEFINE step == [i \in 1..n |-> [x \in S |-> More(i, x)]]
<1>1. Endpoints(c, unresolved) = joined[n]
  BY DEF Endpoints
<1>2. n \in Nat /\ <<>> \in S /\ \A i \in 1..n : EnvOf[c][i].hosts \in S
  BY VariablesType
<1>3. ASSUME NEW i \in 1..n, NEW x \in S
      PROVE  More(i, x) \in S /\ (More(i, x) # <<>> <=> x # <<>> \/ Gives(c, i, unresolved))
  <2>1. PICK h \in S : h = EnvOf[c][i].hosts
    BY <1>2
  <2>2. x \o h \in S /\ (x \o h = <<>> <=> x = <<>> /\ h = <<>>)
    BY <2>1, ConcatProperties, EmptySeq
  <2>3. QED
    BY <2>1, <2>2 DEF Gives
<1> HIDE DEF n
<1>4. step \in Steps(n, S)
  <2> HIDE DEF More, S
  <2>1. QED
    BY <1>3 DEF Steps
<1>5. PICK w \in [0..n -> S] : w[0] = <<>> /\ \A i \in 1..n : w[i] = step[i][w[i - 1]]
  <2> HIDE DEF step, S
  <2>1. \E w : IsBuilt(w, n, S, <<>>, step)
    BY <1>2, <1>4, Recursion
  <2>2. QED
    BY <2>1 DEF IsBuilt
<1>6. ASSUME NEW i \in 1..n PROVE w[i] = More(i, w[i - 1])
  <2>1. i - 1 \in 0..n
    BY <1>2
  <2> HIDE DEF S, More
  <2>2. w[i - 1] \in S /\ w[i] = step[i][w[i - 1]]
    <3> HIDE DEF step
    <3>1. QED
      BY <1>5, <2>1
  <2>3. QED
    BY <2>2
<1> HIDE DEF step
<1>7. w = F(w)
  <2>1. \A i \in 0..n : w[i] = IF i = 0 THEN <<>> ELSE More(i, w[i - 1])
    <3> HIDE DEF More
    <3>1. QED
      BY <1>2, <1>5, <1>6
  <2>2. QED
    BY <1>5, <2>1
<1>8. joined = F(joined)
  <2>1. \E g : g = F(g)
    BY <1>7
  <2> HIDE DEF F
  <2>2. QED
    BY <2>1
<1> HIDE DEF joined
<1>9. joined[0] = <<>> /\ \A i \in 1..n : joined[i] = More(i, joined[i - 1])
  <2>1. 0 \in 0..n /\ \A i \in 1..n : i \in 0..n /\ i # 0
    BY <1>2
  <2>2. \A i \in 0..n : joined[i] = F(joined)[i]
    BY <1>8
  <2>3. QED
    BY <2>1, <2>2
<1> HIDE DEF More, F, S
<1> DEFINE Right(i) == joined[i] # <<>> <=> \E j \in 1..i : Gives(c, j, unresolved)
<1> DEFINE Good == {i \in 0..n : joined[i] \in S /\ Right(i)}
<1>10. 0 \in Good
  <2>1. 1..0 = {} /\ 0 \in 0..n
    BY <1>2
  <2>2. QED
    BY <1>2, <1>9, <2>1
<1>11. ASSUME NEW i \in 1..n, i - 1 \in Good PROVE i \in Good
  <2>1. joined[i] = More(i, joined[i - 1]) /\ joined[i - 1] \in S
    <3> HIDE DEF Right
    <3>1. QED
      BY <1>9, <1>11
  <2>2. /\ joined[i] \in S
        /\ joined[i] # <<>> <=> joined[i - 1] # <<>> \/ Gives(c, i, unresolved)
    BY <1>3, <2>1
  <2>3. 1..i = (1..(i - 1)) \cup {i} /\ i \in 0..n
    BY <1>2
  <2>4. joined[i - 1] # <<>> <=> \E j \in 1..(i - 1) : Gives(c, j, unresolved)
    <3>1. Right(i - 1)
      <4> HIDE DEF Right
      <4>1. QED
        BY <1>11
    <3>2. QED
      BY <3>1
  <2>5. Right(i)
    BY <2>2, <2>3, <2>4
  <2> HIDE DEF Right
  <2>6. QED
    BY <2>2, <2>3, <2>5
<1>12. n \in Good
  <2>1. \A i \in 0..n : i \in Good
    <3> HIDE DEF Good
    <3>1. QED
      BY <1>2, <1>10, <1>11, IntervalInduction
  <2>2. QED
    BY <1>2, <2>1
<1>13. Right(n)
  <2> HIDE DEF Right
  <2>1. QED
    BY <1>12
<1>14. QED
  BY <1>1, <1>13 DEF n

\* What a document speaks of.
Speaks(doc, field) ==
  LET said == IF Unambiguous(doc) THEN FirstSaid(doc, field, Read)
              ELSE SaidAnywhere(doc, field, Read)
  IN  said \ {NoText} # {}

LEMMA TextsAreSpoken ==
  ASSUME NEW doc, IsDocument(doc), NEW field \in DOMAIN Rules,
         NEW x \in Texts(KafkaRoot(doc), field)
  PROVE  /\ x # NoText => Speaks(doc, field)
         /\ Unambiguous(doc) /\ Speaks(doc, field) => x # NoText
BY TextsAreSaid DEF Speaks

\* A description has brokers only if the file names some, and always if it does
\* so in unambiguous keys.
LEMMA BrokersAreNamed ==
  ASSUME NEW f \in Files, IsDocument(content[f]), NEW d \in Parse(content[f])
  PROVE  /\ d.brokers # <<>> => NamesBrokers(f)
         /\ IsCertain(f) /\ NamesBrokers(f) => d.brokers # <<>>
<1> SUFFICES ASSUME NEW doc, doc = content[f],
                    NEW root, root = KafkaRoot(doc)
             PROVE  /\ d.brokers # <<>> => NamesBrokers(f)
                    /\ IsCertain(f) /\ NamesBrokers(f) => d.brokers # <<>>
  OBVIOUS
<1>1. TextFields \subseteq DOMAIN Rules
  BY ParserAssumption DEF TextFields
<1>2. \A field \in TextFields : \A x \in Texts(root, field) :
        /\ x # NoText => Speaks(doc, field)
        /\ Unambiguous(doc) /\ Speaks(doc, field) => x # NoText
  BY <1>1, TextsAreSpoken
<1>3. NamesBrokers(f) <=>
        Speaks(doc, "bootstrapServers") \/ (Speaks(doc, "host") /\ Speaks(doc, "port"))
  BY DEF NamesBrokers, Speaks, Read
<1>4. IsCertain(f) <=> Unambiguous(doc)
  BY DEF IsCertain
<1>5. PICK b \in Texts(root, "bootstrapServers") :
        d.brokers \in IF b # NoText THEN {<<b>>}
                      ELSE {IF NoText \in {h, p} THEN <<>> ELSE <<h, p>> :
                              h \in Texts(root, "host"), p \in Texts(root, "port")}
  BY DEF Parse, Brokers
<1>6. CASE b # NoText
  BY <1>2, <1>3, <1>5, <1>6 DEF TextFields
<1>7. CASE b = NoText
  <2>1. PICK h \in Texts(root, "host"), p \in Texts(root, "port") :
          d.brokers = IF NoText \in {h, p} THEN <<>> ELSE <<h, p>>
    BY <1>5, <1>7
  <2>2. d.brokers # <<>> <=> h # NoText /\ p # NoText
    BY <2>1
  <2>3. Unambiguous(doc) => ~Speaks(doc, "bootstrapServers")
    BY <1>2, <1>5, <1>7 DEF TextFields
  <2>4. /\ h # NoText => Speaks(doc, "host")
        /\ Unambiguous(doc) /\ Speaks(doc, "host") => h # NoText
        /\ p # NoText => Speaks(doc, "port")
        /\ Unambiguous(doc) /\ Speaks(doc, "port") => p # NoText
    BY <1>2, <2>1 DEF TextFields
  <2>5. QED
    BY <1>3, <1>4, <2>2, <2>3, <2>4
<1>8. QED
  BY <1>6, <1>7

\* Sources that are containers, and sources that are files.
LEMMA SourcesAre ==
  ASSUME NEW p
  PROVE  /\ \A c \in Containers : c \in SourcesOf(p) <=>
              PodOf[c] = p /\ \E i \in DOMAIN EnvOf[c] :
                /\ EnvOf[c][i].searched /\ EnvOf[c][i].hosts # <<>>
                /\ EnvOf[c][i].ref \in Existing \cup {None}
         /\ \A f \in Files : f \in SourcesOf(p) <=>
              f \in Yaml /\ NamesBrokers(f) /\
                \E m \in (MountsOf[p] \cap Existing) \ Excluded : f \in FilesOf[m]
         /\ SourcesOf(p) \subseteq Containers \cup Files
BY InspectionAssumption DEF SourcesOf

\* Endpoints of a container whose references that exist were read.
LEMMA ContainerNames ==
  ASSUME NEW c \in Containers, NEW failed \in SUBSET References(c),
         NEW absent, absent = {i \in References(c) : EnvOf[c][i].ref \notin Existing},
         absent \subseteq failed
  PROVE  /\ Endpoints(c, failed) # <<>> => c \in SourcesOf(PodOf[c])
         /\ failed = absent /\ c \in SourcesOf(PodOf[c]) => Endpoints(c, failed) # <<>>
<1>1. /\ DOMAIN EnvOf[c] = 1..Len(EnvOf[c])
      /\ \A i \in DOMAIN EnvOf[c] : EnvOf[c][i].ref \in ConfigMaps \cup {None}
  BY VariablesType
<1>2. Endpoints(c, failed) # <<>> <=> \E i \in DOMAIN EnvOf[c] : Gives(c, i, failed)
  BY <1>1, EndpointsAreGiven
<1>3. c \in SourcesOf(PodOf[c]) <=>
        \E i \in DOMAIN EnvOf[c] : /\ EnvOf[c][i].searched /\ EnvOf[c][i].hosts # <<>>
                                   /\ EnvOf[c][i].ref \in Existing \cup {None}
  BY SourcesAre
<1>4. ASSUME NEW i \in DOMAIN EnvOf[c], Gives(c, i, failed)
      PROVE  EnvOf[c][i].ref \in Existing \cup {None}
  BY <1>4 DEF Gives, References
<1>5. ASSUME NEW i \in DOMAIN EnvOf[c], failed = absent,
             EnvOf[c][i].searched, EnvOf[c][i].hosts # <<>>,
             EnvOf[c][i].ref \in Existing \cup {None}
      PROVE  Gives(c, i, failed)
  BY <1>5 DEF Gives, References
<1>6. QED
  BY <1>2, <1>3, <1>4, <1>5 DEF Gives

-----------------------------------------------------------------------------
(***************************************************************************)
(* The inductive invariant of the list.                                    *)
(***************************************************************************)

Opened == {"variables", "files"}
Shows(p, s) == \E i \in infos : i.pod = p /\ i.source = s
CertainSources(p) == {s \in SourcesOf(p) : IsCertain(s)}

\* Sources of the current pod that were not looked at.
Pending == IF pc = "variables" THEN unchecked \cup Files ELSE unparsed
IsMounted(f, p) ==
  f \in Yaml /\ \E m \in (MountsOf[p] \cap Existing) \ Excluded : f \in FilesOf[m]

\* What is looked at are sources of the pod; as long as nothing failed, none
\* that is behind is missing.
PendingInv ==
  /\ pc = "variables" => \A c \in unchecked : PodOf[c] = pod
  /\ pc = "files" => \A f \in unparsed : IsMounted(f, pod)
SourcesInv ==
  /\ PendingInv
  /\ \A i \in infos : i.source \in SourcesOf(i.pod)
  /\ faults = 0 /\ pc # "idle" =>
       \A p \in ListPods \ ToSurvey : \A s \in CertainSources(p) : Shows(p, s)
  /\ faults = 0 /\ pc \in Opened =>
       \A s \in CertainSources(pod) : Shows(pod, s) \/ s \in Pending

LEMMA NoFaultBefore ==
  ASSUME InspectInv, [PassNext]_vars
  PROVE  faults' = 0 => faults = 0
<1> USE DEF InspectInv, EntriesInv
<1>1. CASE InspectionStep
  <2>1. ASSUME NEW c \in Containers, ReadLine(c) \/ LogEnds(c) \/ CheckContainer(c)
        PROVE  faults' = 0 => faults = 0
    BY <2>1, FaultsStay DEF ReadLine, LogEnds, CheckContainer
  <2>2. ASSUME NEW f \in Files, ParseFile(f) PROVE faults' = 0 => faults = 0
    BY <2>2 DEF ParseFile
  <2>3. ASSUME NEW p \in Pods, NextPod(p) PROVE faults' = 0 => faults = 0
    BY <2>3, FaultsStay DEF NextPod, LoginFound
  <2>4. CASE Begin \/ ListFails \/ ListEvents \/ GetMountedConfigMaps
    BY <2>4, FaultsStay DEF Begin, ListFails, ListEvents, GetMountedConfigMaps
  <2>5. CASE KeepProblems \/ PodDone \/ Conclude
    BY <2>5 DEF KeepProblems, PodDone, Conclude
  <2>6. QED
    BY <1>1, <2>1, <2>2, <2>3, <2>4, <2>5 DEF InspectionStep
<1>2. CASE ReportStep
  BY <1>2, FaultsStay DEF ReportStep
<1>3. CASE PassEnds \/ UNCHANGED vars
  BY <1>3 DEF PassEnds, vars
<1>4. QED
  BY <1>1, <1>2, <1>3 DEF PassNext

\* Sources do not change in a pass.
LEMMA SourcesStay ==
  ASSUME [PassNext]_vars
  PROVE  /\ \A p : SourcesOf(p)' = SourcesOf(p)
         /\ \A p : CertainSources(p)' = CertainSources(p)
         /\ \A f : IsCertain(f)' = IsCertain(f) /\ NamesBrokers(f)' = NamesBrokers(f)
<1>1. content' = content
  BY ContentStays
<1>2. QED
  BY <1>1 DEF SourcesOf, CertainSources, IsCertain, NamesBrokers

\* Steps that look at no source.
LEMMA SourcesUntouched ==
  ASSUME InspectInv, SourcesInv, [PassNext]_vars,
         UNCHANGED <<infos, unchecked, unparsed>>,
         \/ UNCHANGED <<pc, todo, pod>>
         \/ /\ {pc, pc'} \subseteq {"next", "events", "logs", "report"}
            /\ ToSurvey' = ToSurvey
  PROVE  SourcesInv'
<1>1. /\ \A p : SourcesOf(p)' = SourcesOf(p)
      /\ \A p : CertainSources(p)' = CertainSources(p)
  BY SourcesStay
<1>2. faults' = 0 => faults = 0
  BY NoFaultBefore
<1>3. \A p, s : Shows(p, s)' = Shows(p, s)
  BY DEF Shows
<1>4. CASE UNCHANGED <<pc, todo, pod>>
  <2>1. UNCHANGED <<ToSurvey, Pending, PendingInv>>
    BY <1>4 DEF ToSurvey, Pending, PendingInv, IsMounted
  <2>2. QED
    BY <1>1, <1>2, <1>3, <1>4, <2>1 DEF SourcesInv, ListPods
<1>5. CASE /\ {pc, pc'} \subseteq {"next", "events", "logs", "report"}
           /\ ToSurvey' = ToSurvey
  <2>1. pc # "idle" /\ pc' \notin Opened /\ ToSurvey' = ToSurvey
    BY <1>5 DEF Opened
  <2>2. PendingInv'
    BY <2>1 DEF PendingInv, Opened
  <2>3. QED
    BY <1>1, <1>2, <1>3, <2>1, <2>2 DEF SourcesInv, ListPods
<1>6. QED
  BY <1>4, <1>5

LEMMA CheckKeepsSources ==
  ASSUME InspectInv, ContentInv, SourcesInv, NEW c \in Containers, CheckContainer(c)
  PROVE  SourcesInv'
<1>2. PodOf[c] = pod /\ pc = "variables" /\ UNCHANGED <<pc, pod, todo, unparsed>>
      /\ unchecked' = unchecked \ {c} /\ content' = content
  BY DEF CheckContainer, SourcesInv, PendingInv
<1>3. /\ \A p : SourcesOf(p)' = SourcesOf(p)
      /\ \A p : CertainSources(p)' = CertainSources(p)
  BY <1>2 DEF SourcesOf, CertainSources, IsCertain, NamesBrokers
<1>4. PICK failed, absent, hosts :
        /\ failed \in SUBSET References(c)
        /\ absent = {i \in References(c) : EnvOf[c][i].ref \notin Existing}
        /\ hosts = Endpoints(c, failed)
        /\ absent \subseteq failed /\ Works(failed = absent)
        /\ infos' = IF hosts = <<>> THEN infos
                    ELSE infos \cup {Info(c, HostsAlone(hosts))}
  BY DEF CheckContainer
<1>5. /\ hosts # <<>> => c \in SourcesOf(pod)
      /\ failed = absent /\ c \in SourcesOf(pod) => hosts # <<>>
  BY <1>2, <1>4, ContainerNames
<1>6. faults' = 0 => faults = 0 /\ failed = absent
  BY <1>4, FaultsStay DEF InspectInv, EntriesInv
<1>7. /\ \A p, s : Shows(p, s) => Shows(p, s)'
      /\ hosts # <<>> => Shows(pod, c)'
  <2> DEFINE new == Info(c, HostsAlone(hosts))
  <2>1. infos \subseteq infos' /\ (hosts # <<>> => new \in infos')
    BY <1>4
  <2>2. new.pod = pod /\ new.source = c
    BY DEF Info
  <2> HIDE DEF new
  <2>3. QED
    BY <1>2, <2>1, <2>2 DEF Shows
<1>8. \A i \in infos' : i \in infos \/ (hosts # <<>> /\ i.pod = pod /\ i.source = c)
  BY <1>4 DEF Info
<1>9. PendingInv' /\ ToSurvey' = ToSurvey /\ Pending \subseteq Pending' \cup {c}
  BY <1>2 DEF SourcesInv, PendingInv, ToSurvey, Pending
<1>10. \A i \in infos' : i.source \in SourcesOf(i.pod)
  BY <1>5, <1>8 DEF SourcesInv
<1>11. ASSUME faults' = 0, NEW s \in CertainSources(pod)
       PROVE  Shows(pod, s)' \/ s \in Pending'
  <2>1. Shows(pod, s) \/ s \in Pending
    BY <1>2, <1>6, <1>11 DEF SourcesInv, Opened
  <2>2. s \in SourcesOf(pod)
    BY <1>11 DEF CertainSources
  <2>3. QED
    BY <1>2, <1>5, <1>6, <1>7, <1>9, <1>11, <2>1, <2>2
<1>12. ASSUME faults' = 0, NEW p \in ListPods \ ToSurvey, NEW s \in CertainSources(p)
       PROVE  Shows(p, s)'
  BY <1>2, <1>6, <1>7, <1>12 DEF SourcesInv
<1>13. QED
  BY <1>2, <1>3, <1>9, <1>10, <1>11, <1>12 DEF SourcesInv, ListPods

LEMMA ParseKeepsSources ==
  ASSUME InspectInv, ContentInv, SourcesInv, NEW f \in Files, ParseFile(f)
  PROVE  SourcesInv'
<1>1. /\ IsMounted(f, pod) /\ pc = "files" /\ UNCHANGED <<pc, pod, todo, unchecked, faults>>
      /\ unparsed' = unparsed \ {f} /\ content' = content
  BY DEF ParseFile, SourcesInv, PendingInv
<1>2. /\ \A p : SourcesOf(p)' = SourcesOf(p)
      /\ \A p : CertainSources(p)' = CertainSources(p)
  BY <1>1 DEF SourcesOf, CertainSources, IsCertain, NamesBrokers
<1>3. PICK d \in Parse(content[f]) :
        infos' = IF d.brokers = <<>> THEN infos
                 ELSE infos \cup {Info(f, d)}
  BY DEF ParseFile
<1>4. /\ d.brokers # <<>> => f \in SourcesOf(pod)
      /\ f \in CertainSources(pod) => d.brokers # <<>>
  <2>1. IsDocument(content[f])
    BY DEF ContentInv
  <2>2. /\ d.brokers # <<>> => NamesBrokers(f)
        /\ IsCertain(f) /\ NamesBrokers(f) => d.brokers # <<>>
    BY <2>1, BrokersAreNamed
  <2>3. QED
    BY <1>1, <2>2, SourcesAre DEF CertainSources, IsMounted
<1>5. /\ \A p, s : Shows(p, s) => Shows(p, s)'
      /\ d.brokers # <<>> => Shows(pod, f)'
  <2> DEFINE new == Info(f, d)
  <2>1. infos \subseteq infos' /\ (d.brokers # <<>> => new \in infos')
    BY <1>3
  <2>2. new.pod = pod /\ new.source = f
    BY DEF Info
  <2> HIDE DEF new
  <2>3. QED
    BY <1>1, <2>1, <2>2 DEF Shows
<1>6. \A i \in infos' : i \in infos \/ (d.brokers # <<>> /\ i.pod = pod /\ i.source = f)
  BY <1>3 DEF Info
<1>7. PendingInv' /\ ToSurvey' = ToSurvey /\ Pending \subseteq Pending' \cup {f}
  BY <1>1 DEF SourcesInv, PendingInv, ToSurvey, Pending, IsMounted
<1>8. \A i \in infos' : i.source \in SourcesOf(i.pod)
  BY <1>4, <1>6 DEF SourcesInv
<1>9. ASSUME faults = 0, NEW s \in CertainSources(pod)
      PROVE  Shows(pod, s)' \/ s \in Pending'
  <2>1. Shows(pod, s) \/ s \in Pending
    BY <1>1, <1>9 DEF SourcesInv, Opened
  <2>2. QED
    BY <1>1, <1>4, <1>5, <1>7, <1>9, <2>1
<1>10. ASSUME faults = 0, NEW p \in ListPods \ ToSurvey, NEW s \in CertainSources(p)
       PROVE  Shows(p, s)'
  BY <1>1, <1>5, <1>10 DEF SourcesInv
<1>11. QED
  BY <1>1, <1>2, <1>7, <1>8, <1>9, <1>10 DEF SourcesInv, ListPods

LEMMA SourcesStep ==
  ASSUME InspectInv, ContentInv, SourcesInv, [PassNext]_vars
  PROVE  SourcesInv'
<1> USE DEF InspectInv
<1>1. /\ \A p : SourcesOf(p)' = SourcesOf(p)
      /\ \A p : CertainSources(p)' = CertainSources(p)
  BY SourcesStay
<1>2. faults' = 0 => faults = 0
  BY NoFaultBefore
<1>3. CASE InspectionStep
  <2>1. CASE Begin
    <3>1. infos' = {} /\ pc' = "next" /\ ToSurvey' = ListPods'
      BY <2>1, InspectionAssumption DEF Begin, PodsInv, Inspecting, ToSurvey, ListPods
    <3>2. QED
      BY <3>1 DEF SourcesInv, PendingInv, Opened
  <2>2. CASE ListFails
    BY <2>2, SourcesUntouched DEF ListFails
  <2>3. CASE ListEvents
    BY <2>3, SourcesUntouched DEF ListEvents, ToSurvey
  <2>4. CASE KeepProblems
    <3>1. /\ pc = "logs" /\ pc' = "variables" /\ UNCHANGED <<todo, pod, infos, unparsed, faults>>
          /\ unchecked' = {c \in Containers : PodOf[c] = pod}
      BY <2>4 DEF KeepProblems
    <3>2. PendingInv' /\ ToSurvey' = ToSurvey /\ \A p, s : Shows(p, s)' = Shows(p, s)
      BY <3>1 DEF PendingInv, ToSurvey, Shows
    <3>3. \A s \in CertainSources(pod) : s \in Pending'
      BY <3>1, SourcesAre DEF CertainSources, Pending
    <3>4. QED
      BY <1>1, <1>2, <3>1, <3>2, <3>3 DEF SourcesInv, ListPods
  <2>5. CASE GetMountedConfigMaps
    <3>1. /\ pc = "variables" /\ pc' = "files" /\ UNCHANGED <<todo, pod, infos, unchecked>>
          /\ unchecked = {}
      BY <2>5 DEF GetMountedConfigMaps
    <3>2. PICK got \in SUBSET (MountsOf[pod] \cap Existing) :
            /\ Works(got = MountsOf[pod] \cap Existing)
            /\ unparsed' = UNION {FilesOf[m] \cap Yaml : m \in got \ Excluded}
      BY <2>5 DEF GetMountedConfigMaps
    <3>3. PendingInv'
      BY <3>1, <3>2 DEF PendingInv, IsMounted
    <3>4. ToSurvey' = ToSurvey /\ \A p, s : Shows(p, s)' = Shows(p, s)
      BY <3>1 DEF ToSurvey, Shows
    <3>5. faults' = 0 => got = MountsOf[pod] \cap Existing
      BY <3>2, FaultsStay DEF EntriesInv
    <3>6. ASSUME faults' = 0, NEW f \in Files, f \in CertainSources(pod) PROVE f \in unparsed'
      <4>1. f \in Yaml /\ \E m \in (MountsOf[pod] \cap Existing) \ Excluded : f \in FilesOf[m]
        BY <3>6, SourcesAre DEF CertainSources
      <4>2. QED
        BY <3>2, <3>5, <3>6, <4>1
    <3>7. ASSUME faults' = 0, NEW s \in CertainSources(pod) PROVE Shows(pod, s)' \/ s \in Pending'
      <4>1. Shows(pod, s) \/ s \in Files
        BY <1>2, <3>1, <3>7 DEF SourcesInv, Opened, Pending
      <4>2. QED
        BY <3>1, <3>4, <3>6, <3>7, <4>1 DEF Pending
    <3>8. QED
      BY <1>1, <1>2, <3>1, <3>3, <3>4, <3>7 DEF SourcesInv, ListPods, Opened
  <2>6. CASE PodDone
    <3>1. /\ pc = "files" /\ pc' = "next" /\ UNCHANGED <<todo, infos, unchecked, unparsed, faults>>
          /\ pod' = None /\ unparsed = {} /\ pod \in Pods /\ pod # None
      BY <2>6, InspectionAssumption DEF PodDone, PodsInv, Inspecting
    <3>2. PendingInv' /\ \A p, s : Shows(p, s)' = Shows(p, s)
      BY <3>1 DEF PendingInv, Shows
    <3>3. faults = 0 => \A s \in CertainSources(pod) : Shows(pod, s)
      BY <3>1 DEF SourcesInv, Opened, Pending
    <3>4. ToSurvey = todo \cup {pod} /\ ToSurvey' = todo
      BY <3>1 DEF ToSurvey
    <3>5. ASSUME faults = 0, NEW p \in ListPods \ todo, NEW s \in CertainSources(p)
          PROVE  Shows(p, s)
      BY <3>1, <3>3, <3>4, <3>5 DEF SourcesInv
    <3>6. QED
      BY <1>1, <3>1, <3>2, <3>4, <3>5 DEF SourcesInv, ListPods, Opened
  <2>7. CASE Conclude
    BY <2>7, SourcesUntouched DEF Conclude, ToSurvey
  <2>8. ASSUME NEW p \in Pods, NextPod(p) PROVE SourcesInv'
    <3>1. pod = None /\ p # None
      BY <2>8, InspectionAssumption DEF NextPod, PodsInv, Inspecting
    <3>2. ToSurvey' = ToSurvey
      BY <2>8, <3>1 DEF NextPod, ToSurvey
    <3>3. QED
      BY <2>8, <3>2, SourcesUntouched DEF NextPod
  <2>9. ASSUME NEW c \in Containers, ReadLine(c) \/ LogEnds(c) PROVE SourcesInv'
    BY <2>9, SourcesUntouched DEF ReadLine, LogEnds
  <2>10. ASSUME NEW c \in Containers, CheckContainer(c) PROVE SourcesInv'
    BY <2>10, CheckKeepsSources
  <2>11. ASSUME NEW f \in Files, ParseFile(f) PROVE SourcesInv'
    BY <2>11, ParseKeepsSources
  <2>12. QED
    BY <1>3, <2>1, <2>2, <2>3, <2>4, <2>5, <2>6, <2>7, <2>8, <2>9, <2>10, <2>11
       DEF InspectionStep
<1>4. CASE ReportStep
  BY <1>4, SourcesUntouched DEF ReportStep
<1>5. CASE PassEnds
  BY <1>5 DEF PassEnds, SourcesInv, PendingInv, Opened
<1>6. CASE UNCHANGED vars
  BY <1>6, SourcesUntouched DEF vars
<1>7. QED
  BY <1>3, <1>4, <1>5, <1>6 DEF PassNext

-----------------------------------------------------------------------------
(***************************************************************************)
(* Whether a pod in trouble shows a problem.                               *)
(***************************************************************************)

\* As long as nothing failed, the map of problems has the events, and logs that
\* are closed were read to their end.
SearchInv ==
  pc = "logs" /\ faults = 0 =>
    /\ \A i \in DOMAIN Events[pod] : EventMessage(pod, i) \in DOMAIN found
    /\ \A c \in Logged \ unread : PodOf[c] = pod => read[c] = Len(journal[c])

\* What entries show: a problem of their pod, the same in all of them.
ShownInv ==
  /\ pc \in Opened /\ faults = 0 /\ MessagesOf(pod) # {} => kept # {}
  /\ \A i \in infos :
       /\ i.problems \subseteq MessagesOf(i.pod)
       /\ faults = 0 /\ MessagesOf(i.pod) # {} => i.problems # {}
  /\ \A i, j \in infos : i.pod = j.pod => i.problems = j.problems

\* With all logs read, a pod has a message only if the map has one.
LEMMA MessagesAreFound ==
  ASSUME InspectInv, CountsOccurrences, SearchInv, pc = "logs", unread = {}, faults = 0,
         MessagesOf(pod) # {}
  PROVE  DOMAIN found # {}
<1> USE DEF InspectInv
<1>1. PICK m \in MessagesOf(pod) : TRUE
  OBVIOUS
<1>2. CASE m \in {EventMessage(pod, i) : i \in DOMAIN Events[pod]}
  BY <1>2 DEF SearchInv
<1>3. CASE \E c \in Logged : PodOf[c] = pod /\ \E i \in DOMAIN journal[c] :
             Matters(journal[c][i]) /\ m = LineMessage(c, journal[c][i])
  <2>1. PICK c \in Logged : PodOf[c] = pod /\ \E i \in DOMAIN journal[c] :
             Matters(journal[c][i]) /\ m = LineMessage(c, journal[c][i])
    BY <1>3
  <2>2. PICK i \in DOMAIN journal[c] : Matters(journal[c][i])
    BY <2>1
  <2>3. read[c] = Len(journal[c]) /\ DOMAIN journal[c] = 1..Len(journal[c])
    BY <2>1, InspectionAssumption DEF SearchInv, ProblemsInv
  <2> DEFINE o == [at |-> c, line |-> i]
  <2>4. o \in LinesRead(pod)
    BY <2>1, <2>2, <2>3 DEF LinesRead
  <2>5. LineAt(o) = journal[c][i]
    BY DEF LineAt
  <2> HIDE DEF o
  <2>6. QED
    BY <2>2, <2>4, <2>5 DEF CountsOccurrences
<1>4. QED
  BY <1>1, <1>2, <1>3, Zenon DEF MessagesOf

LEMMA SearchStep ==
  ASSUME InspectInv, SearchInv, [PassNext]_vars
  PROVE  SearchInv'
<1> USE DEF InspectInv
<1>1. faults' = 0 => faults = 0
  BY NoFaultBefore
<1>2. ASSUME pc' # "logs" PROVE SearchInv'
  BY <1>2 DEF SearchInv
<1>3. ASSUME UNCHANGED <<pc, pod, found, unread, read, journal>> PROVE SearchInv'
  BY <1>1, <1>3 DEF SearchInv
<1>4. CASE InspectionStep
  <2>1. CASE ListFails
    BY <1>3, <2>1 DEF ListFails
  <2>2. CASE ListEvents
    <3>1. unread' = {c \in Logged : PodOf[c] = pod} /\ pod' = pod /\ pod \in Pods
      BY <2>2 DEF ListEvents, PodsInv, Inspecting
    <3>2. ASSUME faults' = 0, NEW i \in DOMAIN Events[pod]
          PROVE  EventMessage(pod, i) \in DOMAIN found'
      <4>1. found' = WithEvents(found, pod)
        BY <2>2, <3>2, FaultsStay DEF ListEvents, EntriesInv
      <4>2. DOMAIN found' = DOMAIN found \cup {EventMessage(pod, j) : j \in DOMAIN Events[pod]}
        BY <3>1, <4>1, WithEventsType DEF ProblemsInv
      <4>3. QED
        BY <4>2
    <3>3. QED
      BY <3>1, <3>2 DEF SearchInv
  <2>3. ASSUME NEW p \in Pods, NextPod(p) PROVE SearchInv'
    BY <1>2, <2>3 DEF NextPod
  <2>4. ASSUME NEW c \in Containers, ReadLine(c) PROVE SearchInv'
    <3>1. /\ pc = "logs" /\ c \in unread /\ UNCHANGED <<pc, pod, unread, journal>>
          /\ read' = [read EXCEPT ![c] = @ + 1] /\ read \in [Containers -> Nat]
      BY <2>4 DEF ReadLine, Reading, ProblemsInv
    <3>2. DOMAIN found \subseteq DOMAIN found'
      BY <2>4 DEF ReadLine, WithProblem
    <3>3. \A d \in Logged \ unread : read'[d] = read[d]
      BY <3>1, InspectionAssumption
    <3>4. QED
      BY <1>1, <3>1, <3>2, <3>3 DEF SearchInv
  <2>5. ASSUME NEW c \in Containers, LogEnds(c) PROVE SearchInv'
    <3>1. /\ pc = "logs" /\ UNCHANGED <<pc, pod, found, read, journal>>
          /\ unread' = unread \ {c}
      BY <2>5 DEF LogEnds
    <3>2. faults' = 0 => read[c] = Len(journal[c])
      BY <2>5, FaultsStay DEF LogEnds, EntriesInv
    <3>3. QED
      BY <1>1, <3>1, <3>2 DEF SearchInv
  <2>6. CASE Begin \/ KeepProblems \/ GetMountedConfigMaps \/ PodDone \/ Conclude
    BY <1>2, <2>6 DEF Begin, KeepProblems, GetMountedConfigMaps, PodDone, Conclude
  <2>7. ASSUME NEW c \in Containers, CheckContainer(c) PROVE SearchInv'
    BY <1>2, <2>7 DEF CheckContainer
  <2>8. ASSUME NEW f \in Files, ParseFile(f) PROVE SearchInv'
    BY <1>2, <2>8 DEF ParseFile
  <2>9. QED
    BY <1>4, <2>1, <2>2, <2>3, <2>4, <2>5, <2>6, <2>7, <2>8 DEF InspectionStep
<1>5. CASE ReportStep
  BY <1>3, <1>5 DEF ReportStep
<1>6. CASE PassEnds
  BY <1>2, <1>6 DEF PassEnds
<1>7. CASE UNCHANGED vars
  BY <1>3, <1>7 DEF vars
<1>8. QED
  BY <1>4, <1>5, <1>6, <1>7 DEF PassNext

LEMMA JournalStays ==
  ASSUME [PassNext]_vars
  PROVE  \A p : MessagesOf(p)' = MessagesOf(p)
<1>1. CASE InspectionStep
  <2>1. ASSUME NEW c \in Containers, ReadLine(c) \/ LogEnds(c) \/ CheckContainer(c)
        PROVE  journal' = journal
    BY <2>1 DEF ReadLine, LogEnds, CheckContainer
  <2>2. ASSUME NEW f \in Files, ParseFile(f) PROVE journal' = journal
    BY <2>2 DEF ParseFile
  <2>3. ASSUME NEW p \in Pods, NextPod(p) PROVE journal' = journal
    BY <2>3 DEF NextPod
  <2>4. ASSUME \/ Begin \/ ListFails \/ ListEvents \/ KeepProblems \/ GetMountedConfigMaps
               \/ PodDone \/ Conclude
        PROVE  journal' = journal
    BY <2>4 DEF Begin, ListFails, ListEvents, KeepProblems, GetMountedConfigMaps, PodDone,
       Conclude
  <2>5. journal' = journal
    BY <1>1, <2>1, <2>2, <2>3, <2>4 DEF InspectionStep
  <2>6. QED
    BY <2>5 DEF MessagesOf
<1>2. CASE ReportStep \/ PassEnds \/ UNCHANGED vars
  BY <1>2 DEF ReportStep, PassEnds, vars, MessagesOf
<1>3. QED
  BY <1>1, <1>2 DEF PassNext

\* A new entry shows what was kept of its pod.
LEMMA EntryShows ==
  ASSUME InspectInv, ShownInv, [PassNext]_vars, pc \in Opened, UNCHANGED <<pc, pod, kept>>,
         infos \subseteq infos',
         \A i \in infos' : i \in infos \/ (i.pod = pod /\ i.problems = kept)
  PROVE  ShownInv'
<1> USE DEF InspectInv
<1>1. kept \subseteq MessagesOf(pod) /\ pod' = pod
  BY DEF ProblemsInv, Opened
<1>2. \A i \in infos : i.pod = pod => i.problems = kept
  BY DEF PodsInv
<1>3. \A p : MessagesOf(p)' = MessagesOf(p)
  BY JournalStays
<1>4. faults' = 0 => faults = 0
  BY NoFaultBefore
<1>5. faults = 0 /\ MessagesOf(pod) # {} => kept # {}
  BY DEF ShownInv
<1>6. ASSUME NEW i \in infos'
      PROVE  /\ i.problems \subseteq MessagesOf(i.pod)
             /\ faults' = 0 /\ MessagesOf(i.pod) # {} => i.problems # {}
  BY <1>1, <1>4, <1>5 DEF ShownInv
<1>7. ASSUME NEW i \in infos', NEW j \in infos', i.pod = j.pod PROVE i.problems = j.problems
  BY <1>2, <1>7 DEF ShownInv
<1>8. QED
  BY <1>1, <1>3, <1>4, <1>5, <1>6, <1>7 DEF ShownInv

LEMMA ShownStep ==
  ASSUME InspectInv, CountsOccurrences, SearchInv, ShownInv, [PassNext]_vars
  PROVE  ShownInv'
<1> USE DEF InspectInv
<1>1. faults' = 0 => faults = 0
  BY NoFaultBefore
<1>2. \A p : MessagesOf(p)' = MessagesOf(p)
  BY JournalStays
<1>3. ASSUME infos' \subseteq infos, pc' \notin Opened \/ UNCHANGED <<pc, pod, kept>>
      PROVE  ShownInv'
  BY <1>1, <1>2, <1>3 DEF ShownInv
<1>4. CASE InspectionStep
  <2>1. CASE KeepProblems
    <3>1. /\ pc = "logs" /\ unread = {} /\ UNCHANGED <<pod, infos, faults>>
          /\ DOMAIN found # {} => kept' # {}
      BY <2>1 DEF KeepProblems
    <3>2. faults = 0 /\ MessagesOf(pod) # {} => kept' # {}
      BY <3>1, MessagesAreFound
    <3>3. QED
      BY <1>2, <3>1, <3>2 DEF ShownInv
  <2>2. CASE GetMountedConfigMaps
    <3>1. pc \in Opened /\ UNCHANGED <<pod, kept, infos>>
      BY <2>2 DEF GetMountedConfigMaps, Opened
    <3>2. QED
      BY <1>1, <1>2, <3>1 DEF ShownInv
  <2>3. CASE Begin \/ ListFails \/ ListEvents \/ PodDone \/ Conclude
    <3>1. infos' = infos /\ (pc' \notin Opened \/ UNCHANGED <<pc, pod, kept>>)
      BY <2>3 DEF Begin, ListFails, ListEvents, PodDone, Conclude, Opened
    <3>2. QED
      BY <1>3, <3>1
  <2>4. ASSUME NEW p \in Pods, NextPod(p) PROVE ShownInv'
    BY <1>3, <2>4 DEF NextPod, Opened
  <2>5. ASSUME NEW c \in Containers, ReadLine(c) \/ LogEnds(c) PROVE ShownInv'
    BY <1>3, <2>5 DEF ReadLine, LogEnds
  <2>6. ASSUME NEW c \in Containers, CheckContainer(c) PROVE ShownInv'
    <3>1. PICK hosts : infos' \in {infos, infos \cup {Info(c, HostsAlone(hosts))}}
      BY <2>6 DEF CheckContainer
    <3>2. /\ infos \subseteq infos'
          /\ \A i \in infos' : i \in infos \/ (i.pod = pod /\ i.problems = kept)
      BY <3>1 DEF Info
    <3>3. pc \in Opened /\ UNCHANGED <<pc, pod, kept>>
      BY <2>6 DEF CheckContainer, Opened
    <3>4. QED
      BY <3>2, <3>3, EntryShows
  <2>7. ASSUME NEW f \in Files, ParseFile(f) PROVE ShownInv'
    <3>1. PICK d : infos' \in {infos, infos \cup {Info(f, d)}}
      BY <2>7 DEF ParseFile
    <3>2. /\ infos \subseteq infos'
          /\ \A i \in infos' : i \in infos \/ (i.pod = pod /\ i.problems = kept)
      BY <3>1 DEF Info
    <3>3. pc \in Opened /\ UNCHANGED <<pc, pod, kept>>
      BY <2>7 DEF ParseFile, Opened
    <3>4. QED
      BY <3>2, <3>3, EntryShows
  <2>8. QED
    BY <1>4, <2>1, <2>2, <2>3, <2>4, <2>5, <2>6, <2>7 DEF InspectionStep
<1>5. CASE ReportStep
  BY <1>3, <1>5 DEF ReportStep
<1>6. CASE PassEnds
  BY <1>3, <1>6 DEF PassEnds, Opened
<1>7. CASE UNCHANGED vars
  BY <1>3, <1>7 DEF vars
<1>8. QED
  BY <1>4, <1>5, <1>6, <1>7 DEF PassNext

-----------------------------------------------------------------------------
(***************************************************************************)
(* The list.                                                               *)
(***************************************************************************)

ListedInv == pc = "report" => listed = infos

LEMMA ListedStep ==
  ASSUME ListedInv, [PassNext]_vars
  PROVE  ListedInv'
<1>1. CASE InspectionStep
  <2>1. CASE Conclude
    BY <2>1 DEF Conclude, ListedInv
  <2>2. CASE Begin \/ ListFails \/ ListEvents \/ KeepProblems \/ GetMountedConfigMaps \/ PodDone
    BY <2>2 DEF Begin, ListFails, ListEvents, KeepProblems, GetMountedConfigMaps, PodDone,
       ListedInv
  <2>3. ASSUME NEW p \in Pods, NextPod(p) PROVE ListedInv'
    BY <2>3 DEF NextPod, ListedInv
  <2>4. ASSUME NEW c \in Containers, ReadLine(c) \/ LogEnds(c) \/ CheckContainer(c)
        PROVE  ListedInv'
    BY <2>4 DEF ReadLine, LogEnds, CheckContainer, ListedInv
  <2>5. ASSUME NEW f \in Files, ParseFile(f) PROVE ListedInv'
    BY <2>5 DEF ParseFile, ListedInv
  <2>6. QED
    BY <1>1, <2>1, <2>2, <2>3, <2>4, <2>5 DEF InspectionStep
<1>2. CASE ReportStep \/ PassEnds \/ UNCHANGED vars
  BY <1>2 DEF ReportStep, PassEnds, vars, ListedInv
<1>3. QED
  BY <1>1, <1>2 DEF PassNext

ListInv == ContentInv /\ SourcesInv /\ SearchInv /\ ShownInv /\ ListedInv

LEMMA ListInit == PassInit => ListInv
BY InspectionAssumption
   DEF PassInit, Init, ListInv, ContentInv, SourcesInv, PendingInv, SearchInv, ShownInv,
       ListedInv, Opened

LEMMA ListStep ==
  ASSUME InspectInv, CountsOccurrences, ListInv, [PassNext]_vars
  PROVE  ListInv'
<1>1. ContentInv'
  BY ContentStays DEF ListInv, ContentInv
<1>2. SourcesInv'
  BY SourcesStep DEF ListInv
<1>3. SearchInv'
  BY SearchStep DEF ListInv
<1>4. ShownInv'
  BY ShownStep DEF ListInv
<1>5. ListedInv'
  BY ListedStep DEF ListInv
<1>6. QED
  BY <1>1, <1>2, <1>3, <1>4, <1>5 DEF ListInv

\* When the report begins no pod is left, and the list is what the pass found.
LEMMA ListIsWhole ==
  ASSUME InspectInv, ListInv
  PROVE  ListIsComplete
<1> SUFFICES ASSUME pc = "report", NEW p \in ListPods,
                    NEW mine, mine = {i \in listed : i.pod = p}
             PROVE  /\ {i.source : i \in mine} \subseteq SourcesOf(p)
                    /\ \A i, j \in mine : /\ i.problems = j.problems
                                          /\ i.problems \subseteq MessagesOf(p)
                    /\ faults = 0 =>
                         /\ CertainSources(p) \subseteq {i.source : i \in mine}
                         /\ MessagesOf(p) # {} => \A i \in mine : i.problems # {}
  BY DEF ListIsComplete, CertainSources
<1>1. listed = infos /\ p \in ListPods \ ToSurvey
  BY DEF ListInv, ListedInv, InspectInv, PodsInv, Inspecting, ToSurvey
<1>2. {i.source : i \in mine} \subseteq SourcesOf(p)
  BY <1>1 DEF ListInv, SourcesInv
<1>3. \A i, j \in mine : i.problems = j.problems /\ i.problems \subseteq MessagesOf(p)
  BY <1>1 DEF ListInv, ShownInv
<1>4. ASSUME faults = 0, NEW s \in CertainSources(p) PROVE s \in {i.source : i \in mine}
  BY <1>1, <1>4 DEF ListInv, SourcesInv, Shows
<1>5. faults = 0 /\ MessagesOf(p) # {} => \A i \in mine : i.problems # {}
  BY <1>1 DEF ListInv, ShownInv
<1>6. QED
  BY <1>2, <1>3, <1>4, <1>5

\* A pass in which no call failed lists every source that names brokers, in
\* keys that are not ambiguous, and a problem for every pod in trouble; one in
\* which calls failed lists nothing that is not there, and entries of one pod
\* agree on the problem (Reconcile, L123-204).
THEOREM ListAlwaysComplete == PassSpec => []ListIsComplete
<1>1. InspectInv /\ CountsOccurrences /\ ListInv /\ [PassNext]_vars => ListInv'
  BY ListStep
<1>2. InspectInv /\ ListInv => ListIsComplete
  BY ListIsWhole
<1>3. QED
  BY <1>1, <1>2, ListInit, InspectInvariant, CountsAlwaysRight, PTL DEF PassSpec
=============================================================================

------------------------------ MODULE KafkaParser ------------------------------
(***************************************************************************)
(* The dynamic parser: which Kafka client a configuration file describes.  *)
(*                                                                         *)
(* A document is the set of its leaves, each with the keys that lead to it *)
(* and a scalar; an empty map is a leaf of kind "map".  yaml.v2 decodes    *)
(* nested maps with keys of any type, which the parser cannot enter; it    *)
(* converts those below a "kafka" key, and no others.  Keys that differ in case only may stand side by side, and      *)
(* ranging over a Go map takes either of them first.                       *)
(***************************************************************************)
EXTENDS Naturals, Sequences

CONSTANTS
  Keys,
  Fold,        \* the lower-case form of a key (strings.EqualFold)
  Scalars,     \* what scalars say; among them NoText, the empty string
  NoText,
  Rules        \* for each field, the paths it may be found at, folded

ASSUME ParserAssumption ==
  /\ Fold \in [Keys -> Keys] /\ \A k \in Keys : Fold[Fold[k]] = Fold[k]
  /\ {"kafka", "thirdParties", "topics", "topic", "subject", "name", "version",
      "version5"} \subseteq Keys
  /\ NoText \in Scalars
  /\ {"bootstrapServers", "host", "port", "groupId", "clientId",
      "consumerGroupSuffix", "autoCommit"} \subseteq DOMAIN Rules
  /\ \A field \in DOMAIN Rules : Rules[field] \in Seq(Seq(Keys) \ {<<>>})

\* What decodes into a map: no leaf is at the top, at the place of another or
\* below another.
IsDocument(doc) ==
  /\ doc \subseteq [path : Seq(Keys) \ {<<>>}, kind : STRING, says : Scalars]
  /\ \A l, m \in doc :
       Len(l.path) <= Len(m.path) /\ SubSeq(m.path, 1, Len(l.path)) = l.path => l = m

\* Trees: a map has no leaf at its own place but the one that says that it is
\* empty, a scalar has only its own, and Missing stands for no value.
Missing == {}
IsMap(tree) == tree # Missing /\ \A l \in tree : l.path # <<>> \/ l.kind = "map"
Below(tree, key) ==
  {[l EXCEPT !.path = Tail(@)] : l \in {m \in tree : m.path # <<>> /\ Head(m.path) = key}}
TopKeys(tree) == {Head(l.path) : l \in {m \in tree : m.path # <<>>}}

\* Mutant: the whole document stays in use, converted.
KafkaRootWhole(doc) ==
  [data |-> doc, converted |-> TRUE]
\* findKafkaRoot: the part of the document that is used, and whether the maps
\* within it were converted.
KafkaRoot(doc) ==
  LET kafka == Below(doc, "kafka")
      nested == Below(Below(doc, "thirdParties"), "kafka")
  IN  CASE IsMap(kafka) -> [data |-> kafka, converted |-> TRUE]
        [] ~IsMap(kafka) /\ IsMap(nested) -> [data |-> nested, converted |-> TRUE]
        [] OTHER -> [data |-> doc, converted |-> FALSE]

\* getValueFromPath: the trees the walk may end at, one for each order of the
\* maps on its way.  It never turns back from a key it took.
ValueFromPath(root, path) ==
  LET Enter(tree, i) ==
        LET matching == {k \in TopKeys(tree) : Fold[k] = path[i]}
        IN  IF IsMap(tree) /\ (i = 1 \/ root.converted) /\ matching # {}
            THEN {Below(tree, k) : k \in matching}
            ELSE {Missing}
      walk[i \in 0..Len(path)] ==
        IF i = 0 THEN {root.data} ELSE UNION {Enter(t, i) : t \in walk[i - 1]}
  IN  walk[Len(path)]

\* getStringValue, getBoolValue, getIntValue: the first path that leads to a
\* scalar of a fitting kind, or the zero value.
Values(root, field, kinds, zero) ==
  LET paths == Rules[field]
      Fits(tree) == \E l \in tree : l.path = <<>> /\ l.kind \in kinds
      from[i \in 1..(Len(paths) + 1)] ==
        IF i > Len(paths) THEN {zero}
        ELSE UNION {IF Fits(t) THEN {l.says : l \in t} ELSE from[i + 1] :
                      t \in ValueFromPath(root, paths[i])}
  IN  from[1]
Texts(root, field) == Values(root, field, {"text", "int"}, NoText)

ClientType(group, client) ==
  CASE group # NoText -> "Consumer"
    [] group = NoText /\ client # NoText -> "Producer"
    [] OTHER -> "Unknown"

\* recursiveParse: a map that defines a topic gives it.  Its submaps were
\* converted together with it and are not recognised as maps any more.
TopicsIn(tree) ==
  LET TextAt(key) == {l.says : l \in {m \in Below(tree, key) : m.path = <<>> /\ m.kind = "text"}}
      First(one, other) == IF TextAt(one) # {} THEN TextAt(one) ELSE TextAt(other)
  IN  {[subject |-> s, version |-> v] :
         s \in First("subject", "name"), v \in First("version", "version5")}

\* "topics", or else "topic"; in a converted root neither is recognised.
Topics(root) ==
  LET Given(tree) == IF IsMap(tree) /\ ~root.converted THEN TopicsIn(tree) ELSE {}
  IN  UNION {IF t # Missing THEN {Given(t)}
             ELSE {Given(u) : u \in ValueFromPath(root, <<"topic">>)} :
               t \in ValueFromPath(root, <<"topics">>)}

\* Mutant: host and port are forgotten.
BrokersListed(root) ==
  {IF b = NoText THEN <<>> ELSE <<b>> : b \in Texts(root, "bootstrapServers")}
\* The broker list: bootstrapServers, or host and port.
Brokers(root) ==
  LET HostPort(h, p) == IF NoText \in {h, p} THEN <<>> ELSE <<h, p>>
  IN  UNION {IF b # NoText THEN {<<b>>}
             ELSE {HostPort(h, p) : h \in Texts(root, "host"), p \in Texts(root, "port")} :
               b \in Texts(root, "bootstrapServers")}

\* Parse: the descriptions a document may give; none without brokers.  The
\* fields that are left out are read just like autoCommit and the texts.
Parse(doc) ==
  LET root == KafkaRoot(doc)
  IN  {[brokers |-> b, groupId |-> g, clientId |-> c, suffix |-> s,
        autoCommit |-> a, topics |-> t, clientType |-> ClientType(g, c)] :
         b \in Brokers(root),
         g \in Texts(root, "groupId"), c \in Texts(root, "clientId"),
         s \in Texts(root, "consumerGroupSuffix"),
         a \in Values(root, "autoCommit", {"bool"}, NoText),
         t \in Topics(root)}
=============================================================================

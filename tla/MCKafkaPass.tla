------------------------------ MODULE MCKafkaPass ------------------------------
(***************************************************************************)
(* Two pods in two namespaces.  The first has a container with variables,  *)
(* an init container and two config maps, one of which is excluded; the    *)
(* second shares a config map that may hold any of the documents.  A third *)
(* pod is matched by the pod selector but not by the namespace selector.   *)
(***************************************************************************)
EXTENDS KafkaPass, TLC

CONSTANTS p1, p2, p3, main, init, side, cmFree, cmFixed, cmGone, cadence,
  free, fixed, notes, hidden, nsA, nsB

MCPodOf == main :> p1 @@ init :> p1 @@ side :> p2
MCNamespace == p1 :> nsA @@ p2 :> nsB @@ p3 :> nsB
Variable(searched, ref, hosts) == [searched |-> searched, ref |-> ref, hosts |-> hosts]
MCEnvOf ==
  main :> <<Variable(FALSE, None, <<"other">>), Variable(TRUE, cmFixed, <<"bss">>),
            Variable(TRUE, None, <<"cdr">>)>>
  @@ init :> <<Variable(TRUE, cmGone, <<"bss">>)>> @@ side :> <<>>
MCMountsOf == p1 :> {cmFree, cmFixed, cadence} @@ p2 :> {cmFree, cmGone} @@ p3 :> {}
MCFilesOf ==
  cmFree :> {free} @@ cmFixed :> {fixed, notes} @@ cmGone :> {} @@ cadence :> {hidden}
MCLabelsOf == p1 :> {"kafka", "ns"} @@ p2 :> {"ns"} @@ p3 :> {"kafka"}
MCSecretOf == p1 :> "account" @@ p2 :> "gone" @@ p3 :> None
MCAddressIn == "account" :> "svc@x"
MCPreferredName == "svc@x" :> "svc-x" @@ "" :> ""
MCAccounts ==
  {[address |-> "svc@x", name |-> "svc-x", tenants |-> {"t1"}],
   [address |-> "", name |-> "svc-x", tenants |-> {"t2"}]}
MCEvents == p1 :> <<"oom", "oom">> @@ p2 :> <<>> @@ p3 :> <<>>

MCKeys ==
  {"kafka", "Kafka", "thirdParties", "thirdparties", "consumer", "Consumer",
   "groupid", "groupId", "bootstrap_server_config", "host", "port",
   "producerid", "producerId", "producer", "consumergroupsuffix", "autocommit",
   "topics", "topic", "subject", "name", "version", "version5"}
MCFold ==
  [k \in MCKeys |->
     CASE k = "Kafka" -> "kafka" [] k = "Consumer" -> "consumer"
       [] k = "groupId" -> "groupid" [] k = "producerId" -> "producerid"
       [] k = "thirdParties" -> "thirdparties" [] OTHER -> k]
MCRules ==
  [field \in {"groupId", "clientId", "consumerGroupSuffix", "bootstrapServers",
              "host", "port", "autoCommit"} |->
     CASE field = "groupId" -> <<<<"groupid">>, <<"consumer", "groupid">>>>
       [] field = "clientId" -> <<<<"producerid">>, <<"producer", "producerid">>>>
       [] field = "consumerGroupSuffix" -> <<<<"consumergroupsuffix">>>>
       [] field = "bootstrapServers" -> <<<<"bootstrap_server_config">>>>
       [] field = "host" -> <<<<"host">>>>
       [] field = "port" -> <<<<"port">>>>
       [] field = "autoCommit" -> <<<<"autocommit">>>>]

Text(path, says) == [path |-> path, kind |-> "text", says |-> says]
Number(path, says) == [path |-> path, kind |-> "int", says |-> says]
EmptyMap(path) == [path |-> path, kind |-> "map", says |-> ""]
Flag(path, says) == [path |-> path, kind |-> "bool", says |-> says]
MCFree ==
  { \* a section beside brokers of another kind, and a group in it
    {Text(<<"bootstrap_server_config">>, "other"),
     Text(<<"kafka", "bootstrap_server_config">>, "bss"),
     Text(<<"kafka", "consumer", "groupId">>, "g"),
     Text(<<"kafka", "topics", "subject">>, "orders"),
     Text(<<"kafka", "topics", "version">>, "v1")},
    \* an empty section, which hides all others
    {Text(<<"bootstrap_server_config">>, "other"),
     EmptyMap(<<"kafka">>),
     Text(<<"thirdParties", "kafka", "bootstrap_server_config">>, "cdr")},
    \* two spellings of one key
    {Text(<<"kafka", "bootstrap_server_config">>, "bss"),
     Text(<<"kafka", "Consumer", "groupId">>, "g"),
     Text(<<"kafka", "consumer", "producerId">>, "p")},
    \* a section within another, and a key that is none
    {Text(<<"thirdParties", "kafka", "bootstrap_server_config">>, "cdr"),
     Text(<<"thirdParties", "kafka", "producer", "producerId">>, "p"),
     Flag(<<"thirdParties", "kafka", "autocommit">>, "yes"),
     Text(<<"kafka">>, "on")},
    \* no section, which leaves dotted paths out of reach
    {Text(<<"bootstrap_server_config">>, ""), Text(<<"host">>, "bss"),
     Number(<<"port">>, "9092"), Text(<<"producer", "producerId">>, "p"),
     Text(<<"consumergroupsuffix">>, "-s"), Text(<<"topics", "subject">>, "orders"),
     Text(<<"topics", "version5">>, "v1")},
    \* no Kafka at all
    {Text(<<"Kafka", "bootstrap_server_config">>, "bss"), Text(<<"host">>, "db")} }
MCFixed == {{Text(<<"kafka", "bootstrap_server_config">>, "cdr"),
             Text(<<"kafka", "groupId">>, "g")}}
MCDocuments ==
  [f \in Files |-> IF f = free THEN MCFree ELSE MCFixed]

Line(text, words, ignored) == [text |-> text, words |-> words, ignored |-> ignored]
MCJournals ==
  main :> {<<>>, <<Line("cut", {"error"}, FALSE), Line("topic", {"error"}, TRUE),
                   Line("cut", {"error", "panic"}, FALSE)>>}
  @@ side :> {<<Line("cut", {"warn"}, FALSE), Line("ok", {}, FALSE)>>}
MCCharacters == [s \in Containers \cup Files |-> IF s = fixed THEN 12 ELSE 4]
=============================================================================

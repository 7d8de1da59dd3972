------------------------ MODULE MCKafkaAccessMonitor ------------------------
(***************************************************************************)
(* Two pods of one name in two namespaces: the first names brokers of two  *)
(* clusters, in a variable and in a config map, the second in a config     *)
(* map.                                                                    *)
(***************************************************************************)
EXTENDS KafkaAccessMonitor, TLC

CONSTANTS a, b, nsA, nsB, app, envA, cmA, cmB, bss, cdr, gA, gB,
  m1, m2

MCNameOf == a :> app @@ b :> app
MCNamespaceOf == a :> nsA @@ b :> nsB
MCPodOf == envA :> a @@ cmA :> a @@ cmB :> b
MCClusterOf == envA :> bss @@ cmA :> cdr @@ cmB :> bss
MCClientOf == envA :> None @@ cmA :> gA @@ cmB :> gB
MCInitialRunning == {Pods}
MCTroubles == a :> {{}, {m1, m2}} @@ b :> {{m1}}
=============================================================================

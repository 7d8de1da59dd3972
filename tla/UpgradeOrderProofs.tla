-------------------------- MODULE UpgradeOrderProofs --------------------------
(***************************************************************************)
(* Workloads migrate in dependency order in a blue-green upgrade: all      *)
(* initial nodes run one version, the nodes that join run the newest one,  *)
(* and they join after the initial ones have been cordoned.                *)
(***************************************************************************)
EXTENDS UpgradeOrchestratorProofs, FiniteSetTheorems

USE DEF Resource, States, Handlers, clusterVars, crVars, controllerVars

OneUpgrade ==
  /\ BlueGreen
  /\ \A u, v \in Versions : Rank[u] = Rank[v] => u = v
  /\ \A m, n \in InitialNodes : NodeVersion[m] = NodeVersion[n]

NewestVersion(v) == \E n \in Nodes : Newest(n) /\ NodeVersion[n] = v

\* There is one newest version.
LEMMA NewestUnique ==
  ASSUME OneUpgrade, NEW m \in Nodes, NEW n \in Nodes, Newest(m), Newest(n)
  PROVE  NodeVersion[m] = NodeVersion[n]
<1>1. Rank[NodeVersion[m]] \in Nat /\ Rank[NodeVersion[n]] \in Nat
  BY ClusterAssumption
<1>2. Rank[NodeVersion[m]] = Rank[NodeVersion[n]]
  BY <1>1 DEF Newest
<1>3. QED
  BY <1>2, ClusterAssumption DEF OneUpgrade

\* With two versions in the cluster a node of the newest one is there, and
\* the target that is determined is its version.
LEMMA TwoVersions ==
  ASSUME OneUpgrade, TypeOK, OrderInv, Cardinality(DetectedVersions) = 2,
         NEW t \in HighestVersions
  PROVE  \E n \in present : Newest(n) /\ NodeVersion[n] = t
<1> USE DEF TypeOK, ClusterTypeOK
<1>1. \E n \in present : Newest(n)
  <2>1. SUFFICES ASSUME \A n \in present : n \in InitialNodes PROVE FALSE
    BY DEF OrderInv
  <2>2. CASE present = {}
    <3>1. DetectedVersions = {}
      BY <2>2 DEF DetectedVersions
    <3>2. QED
      BY <3>1, FS_EmptySet
  <2>3. CASE \E m \in present : TRUE
    <3>1. PICK m \in present : TRUE
      BY <2>3
    <3>2. DetectedVersions = {NodeVersion[m]}
      BY <2>1, <3>1 DEF DetectedVersions, OneUpgrade
    <3>3. Cardinality({NodeVersion[m]}) = 1
      BY FS_Singleton
    <3>4. QED
      BY <3>2, <3>3
  <2>4. QED
    BY <2>2, <2>3
<1>2. PICK n \in present : Newest(n)
  BY <1>1
<1>3. PICK m \in present : NodeVersion[m] = t
  BY DEF HighestVersions, DetectedVersions
<1>4. Rank[NodeVersion[n]] =< Rank[t]
  BY <1>2 DEF HighestVersions, DetectedVersions
<1>5. Rank[t] =< Rank[NodeVersion[n]]
  BY <1>2, <1>3 DEF Newest
<1>6. Rank[t] \in Nat /\ Rank[NodeVersion[n]] \in Nat
  BY <1>2, <1>3, ClusterAssumption
<1>7. t = NodeVersion[n]
  BY <1>2, <1>3, <1>4, <1>5, <1>6, ClusterAssumption DEF OneUpgrade
<1>8. QED
  BY <1>2, <1>7

\* The parts of OrderInv, by what can disturb them.
Pools == /\ \A n \in present : n \in InitialNodes \/ Newest(n)
         /\ (cr.target # NoVersion \/ \E n \in present : Newest(n)) =>
              \A m \in present : Newest(m) \/ Cordon \in taints[m]
         /\ \A n \in Nodes : Upgrade \in taints[n] \/ n \in listed => Newest(n)
Targets == /\ \A copy \in {cr, cached, obj} : copy.target # NoVersion =>
                cr.target # NoVersion /\ NewestVersion(copy.target)
           /\ pc \in {"migrate", "tolerate"} => obj.target # NoVersion
           /\ tolerates # {} => cr.target # NoVersion
Granted == tolerates \cup IF pc = "tolerate" THEN {Order[at]} ELSE {}
Entered(w) == \A d \in DependsOn[w] : \A p \in PodsOf(d) :
                place[p] \in Nodes => Newest(place[p])

LEMMA OrderInvParts ==
  OrderInv <=> Pools /\ Targets /\ \A w \in Granted : Entered(w)
BY DEF OrderInv, Pools, Targets, NewestVersion, Granted, Entered

-----------------------------------------------------------------------------
(* Steps of the controller. *)

\* The write of a target: it is the newest version, and a node of it is
\* there.
LEMMA TargetWrite ==
  ASSUME OneUpgrade, TypeOK, OrderInv, ChooseTarget
  PROVE  \/ /\ UNCHANGED <<cr, cached, clusterVars>>
            /\ Return
         \/ /\ UNCHANGED <<cached, clusterVars, at>>
            /\ pc' = "migrate" /\ obj'.target # NoVersion
            /\ NewestVersion(obj'.target)
            /\ cr' = cr \/ cr' = obj'
            /\ cr'.target # NoVersion
            /\ \E n \in present : Newest(n)
            /\ \A n \in listed' : Newest(n)
<1>1. CASE UNCHANGED <<crVars, clusterVars>> /\ Return
  BY <1>1
<1>2. ASSUME NEW t \in HighestVersions, Cardinality(DetectedVersions) = 2,
             IF obj.target = t THEN UNCHANGED <<cr, cached, obj>>
                               ELSE Accepted([obj EXCEPT !.target = t]),
             GotoWith("migrate", NodesAt(t)),
             UNCHANGED <<aged, clusterVars, faults, adminWrites>>
      PROVE  /\ UNCHANGED <<cached, clusterVars, at>>
             /\ pc' = "migrate" /\ obj'.target # NoVersion
             /\ NewestVersion(obj'.target)
             /\ cr' = cr \/ cr' = obj'
             /\ cr'.target # NoVersion
             /\ \E n \in present : Newest(n)
             /\ \A n \in listed' : Newest(n)
  <2>1. PICK n \in present : Newest(n) /\ NodeVersion[n] = t
    BY <1>2, TwoVersions
  <2>2. n \in Nodes /\ t \in Versions /\ t # NoVersion
    BY <2>1, ClusterAssumption DEF TypeOK, ClusterTypeOK
  <2>3. obj'.target = t /\ (cr' = cr \/ cr' = obj') /\ cached' = cached
    BY <1>2 DEF Accepted, TypeOK
  <2>4. cr'.target # NoVersion
    BY <1>2, <2>2, <2>3 DEF Accepted, OrderInv, TypeOK
  <2>5. \A m \in NodesAt(t) : Newest(m)
    BY <2>1 DEF NodesAt, Newest
  <2>6. QED
    BY <1>2, <2>1, <2>2, <2>3, <2>4, <2>5 DEF GotoWith, NewestVersion
<1>3. QED
  BY <1>1, <1>2 DEF ChooseTarget, Refused

\* Every other write to the resource leaves its target as it is.
LEMMA OtherWrites ==
  ASSUME TypeOK, Controller, ~ChooseTarget
  PROVE  /\ cached' = cached /\ cr'.target = cr.target
         /\ obj'.target \in {NoVersion, obj.target, cached.target, cr.target}
         /\ pc' \in {"migrate", "tolerate"} =>
              pc \in {"migrate", "tolerate"} /\ obj' = obj
<1> USE DEF TypeOK, Return, BlankResource, Refused
<1>1. CASE Reconcile
  BY <1>1 DEF Reconcile, HandlerOf
<1>2. CASE InitStatus
  BY <1>2 DEF InitStatus, SetState, Accepted
<1>3. CASE \/ HandleNoUpgrade \/ HandleAwaiting \/ WaitForVersions
           \/ EndOfPass
  BY <1>3 DEF HandleNoUpgrade, HandleAwaiting, WaitForVersions, EndOfPass,
              Goto, GotoWith
<1>4. CASE ToAwaiting \/ ToNoUpgrade \/ RecordState
  BY <1>4 DEF ToAwaiting, ToNoUpgrade, RecordState
<1>5. CASE ForgetUpgrade
  BY <1>5 DEF ForgetUpgrade, UpdateReply
<1>6. CASE RecordAnnotation
  BY <1>6 DEF RecordAnnotation, Accepted, UpdateReply, Confirmed
<1>7. CASE \E n \in Nodes : CleanupNode(n) \/ PrepareNode(n)
  BY <1>7 DEF CleanupNode, PrepareNode
<1>8. CASE CleanupPdb \/ CleanupToleration \/ SetInitialPdb
  BY <1>8 DEF CleanupPdb, CleanupToleration, SetInitialPdb, Goto, NextEntry
<1>9. CASE Unblock \/ AddToleration
  BY <1>9 DEF Unblock, AddToleration, Goto, NextEntry
<1>10. QED
  BY <1>1, <1>2, <1>3, <1>4, <1>5, <1>6, <1>7, <1>8, <1>9 DEF Controller

\* Apart from ChooseTarget, the controller touches no node but those it
\* has listed, lists only tainted ones, and moves no pod.
LEMMA OtherPatches ==
  ASSUME TypeOK, Controller, ~ChooseTarget
  PROVE  /\ UNCHANGED <<present, place>>
         /\ \A n \in Nodes : taints'[n] # taints[n] => n \in listed
         /\ \A n \in listed' : n \in listed \/ Upgrade \in taints[n]
<1> USE DEF TypeOK, ClusterTypeOK, Return, Refused
<1>1. CASE HandleNoUpgrade
  BY <1>1 DEF HandleNoUpgrade, Goto, GotoWith
<1>2. CASE \/ Reconcile \/ InitStatus \/ HandleAwaiting \/ EndOfPass
           \/ WaitForVersions \/ ToAwaiting \/ ToNoUpgrade \/ RecordState
           \/ ForgetUpgrade \/ RecordAnnotation
  BY <1>2 DEF Reconcile, InitStatus, SetState, HandleAwaiting, EndOfPass,
              WaitForVersions, ToAwaiting, ToNoUpgrade, RecordState, ForgetUpgrade,
              RecordAnnotation, Goto
<1>3. ASSUME NEW n \in Nodes, CleanupNode(n) \/ PrepareNode(n)
      PROVE  /\ UNCHANGED <<present, place>> /\ listed' \subseteq listed
             /\ \A m \in Nodes : taints'[m] # taints[m] => m \in listed
  BY <1>3 DEF CleanupNode, PrepareNode
<1>4. CASE \/ CleanupPdb \/ CleanupToleration \/ SetInitialPdb
           \/ Unblock \/ AddToleration
  BY <1>4 DEF CleanupPdb, CleanupToleration, SetInitialPdb, Unblock,
              AddToleration, Goto, NextEntry
<1>5. QED
  BY <1>1, <1>2, <1>3, <1>4 DEF Controller

\* A workload is granted its toleration after its dependencies were found
\* migrated; the check and the grant are two steps.
LEMMA Grants ==
  ASSUME TypeOK, OrderInv, OneUpgrade, Controller
  PROVE  /\ \A w \in Granted' : w \in Granted \/ Entered(w)
         /\ tolerates' # {} => tolerates # {} \/ pc = "tolerate"
<1> USE DEF TypeOK, ClusterTypeOK, Return, Refused, Granted
<1>1. CASE Unblock
  <2>1. tolerates' = tolerates
    BY <1>1 DEF Unblock
  <2>2. ASSUME pc' = "tolerate" PROVE Entered(Order[at]) /\ at' = at
    <3>1. DependenciesMet(Order[at]) /\ at' = at /\ pc = "migrate"
      BY <1>1, <2>2 DEF Unblock, Goto, NextEntry
    <3>2. obj.target # NoVersion
      BY <3>1 DEF OrderInv
    <3>3. PICK n \in Nodes : Newest(n) /\ NodeVersion[n] = obj.target
      BY <3>2 DEF OrderInv
    <3>4. ASSUME NEW d \in DependsOn[Order[at]], NEW p \in PodsOf(d),
                 place[p] \in Nodes
          PROVE  Newest(place[p])
      <4>1. place[p] # Gone
        BY <3>4, ClusterAssumption
      <4>2. NodeVersion[place[p]] = obj.target
        BY <3>1, <4>1 DEF DependenciesMet, WorkloadMigrated
      <4>3. QED
        BY <3>3, <4>2 DEF Newest
    <3>5. QED
      BY <3>1, <3>4 DEF Entered
  <2>3. QED
    BY <1>1, <2>1, <2>2 DEF Unblock
<1>2. CASE AddToleration
  BY <1>2 DEF AddToleration, NextEntry
<1>3. CASE CleanupToleration
  BY <1>3 DEF CleanupToleration, NextEntry
<1>4. CASE ChooseTarget
  BY <1>4, TargetWrite
<1>5. CASE Reconcile \/ InitStatus \/ HandleNoUpgrade \/ HandleAwaiting
  BY <1>5 DEF Reconcile, HandlerOf, InitStatus, SetState, HandleNoUpgrade,
              HandleAwaiting, Goto, GotoWith
<1>6. CASE \/ EndOfPass \/ WaitForVersions \/ ToAwaiting \/ ToNoUpgrade \/ RecordState
           \/ ForgetUpgrade \/ RecordAnnotation
  BY <1>6 DEF EndOfPass, WaitForVersions, ToAwaiting, ToNoUpgrade, RecordState, ForgetUpgrade,
              RecordAnnotation
<1>7. CASE CleanupPdb \/ SetInitialPdb
  BY <1>7 DEF CleanupPdb, SetInitialPdb, Goto, NextEntry
<1>8. ASSUME NEW n \in Nodes, CleanupNode(n) \/ PrepareNode(n)
      PROVE  tolerates' = tolerates /\ (pc' = "tolerate" => FALSE)
  BY <1>8 DEF CleanupNode, PrepareNode
<1>9. QED
  BY <1>1, <1>2, <1>3, <1>4, <1>5, <1>6, <1>7, <1>8 DEF Controller

LEMMA ControllerOrderInv ==
  ASSUME OneUpgrade, TypeOK, OrderInv, Controller
  PROVE  OrderInv'
<1> USE DEF TypeOK, ClusterTypeOK
<1>1. Pools /\ Targets /\ \A w \in Granted : Entered(w)
  BY OrderInvParts
<1>2. CASE ChooseTarget
  <2>1. UNCHANGED clusterVars
    BY <1>2, TargetWrite
  <2>2. Pools'
    BY <1>1, <1>2, <2>1, TargetWrite DEF Pools, Return
  <2>3. Targets'
    BY <1>1, <1>2, <2>1, TargetWrite
       DEF Targets, Return, BlankResource, NewestVersion
  <2>4. Pools' /\ Targets'
    BY <2>2, <2>3
  <2>5. UNCHANGED place
    BY <2>1
  <2>6. \A w \in Granted' : Entered(w)'
    BY <1>1, <2>5, Grants DEF Entered
  <2>7. QED
    BY <2>4, <2>6, OrderInvParts DEF OrderInv, Pools, Targets, NewestVersion,
                                     Granted, Entered
<1>3. CASE ~ChooseTarget
  <2>1. Pools'
    BY <1>1, <1>3, OtherWrites, OtherPatches DEF Pools
  <2>2. Targets'
    <3>1. pc = "tolerate" => cr.target # NoVersion
      BY <1>1 DEF Targets
    <3>2. QED
      BY <1>1, <1>3, <3>1, OtherWrites, Grants DEF Targets, NewestVersion
  <2>3. \A w \in Granted' : Entered(w)'
    BY <1>1, <1>3, OtherPatches, Grants DEF Entered
  <2>4. QED
    BY <2>1, <2>2, <2>3 DEF OrderInv, Pools, Targets, NewestVersion,
                            Granted, Entered
<1>4. QED
  BY <1>2, <1>3

-----------------------------------------------------------------------------
(* Steps of the environment. *)

LEMMA EnvironmentOrderInv ==
  ASSUME OneUpgrade, TypeOK, OrderInv, Environment,
         UNCHANGED <<crVars, controllerVars>>
  PROVE  OrderInv'
<1> USE DEF TypeOK, ClusterTypeOK
<1>1. Pools /\ Targets /\ \A w \in Granted : Entered(w)
  BY OrderInvParts
<1>2. tolerates' = tolerates
  BY DEF Environment, NodeCordoned, NodeUncordoned, NodeJoins, NodeLeaves,
         PodStops, PodRecreated, PodScheduled, UserWritesPdb
<1>3. Targets'
  BY <1>1, <1>2 DEF Targets, NewestVersion
<1>4. Pools'
  <2>1. ASSUME NEW n \in Nodes, NodeCordoned(n) \/ NodeUncordoned(n)
        PROVE  Pools'
    BY <1>1, <2>1 DEF NodeCordoned, NodeUncordoned, Pools, OneUpgrade,
                      Cordon, Upgrade
  <2>2. ASSUME NEW n \in Nodes, NodeJoins(n) PROVE Pools'
    BY <1>1, <2>2 DEF NodeJoins, Pools, OneUpgrade
  <2>3. ASSUME NEW n \in Nodes, NodeLeaves(n) PROVE Pools'
    BY <1>1, <2>3 DEF NodeLeaves, Pools
  <2>4. CASE UNCHANGED <<present, taints>>
    BY <1>1, <2>4 DEF Pools
  <2>5. QED
    BY <2>1, <2>2, <2>3, <2>4
       DEF Environment, PodStops, PodRecreated, PodScheduled, UserWritesPdb
<1>5. \A w \in Granted' : Entered(w)'
  <2>1. Granted' = Granted
    BY <1>2 DEF Granted
  <2>2. ASSUME NEW q \in Pods, NEW n \in Nodes, PodScheduled(q, n),
               Granted # {}
        PROVE  Newest(n)
    BY <1>1, <2>2 DEF PodScheduled, Pools, Targets, Granted
  <2>3. CASE Granted = {}
    BY <2>1, <2>3
  <2>4. ASSUME Granted # {}, NEW p \in Pods, place'[p] \in Nodes
        PROVE  place'[p] = place[p] \/ Newest(place'[p])
    BY <2>2, <2>4, ClusterAssumption
       DEF Environment, NodeCordoned, NodeUncordoned, NodeJoins, NodeLeaves,
           PodStops, PodRecreated, PodScheduled, UserWritesPdb
  <2>5. QED
    BY <1>1, <2>1, <2>3, <2>4 DEF Entered, PodsOf
<1>6. QED
  BY <1>3, <1>4, <1>5 DEF OrderInv, Pools, Targets, NewestVersion,
                          Granted, Entered

LEMMA NextOrderInv ==
  ASSUME OneUpgrade, TypeOK, OrderInv, [Next]_vars
  PROVE  OrderInv'
<1>1. CASE Controller
  BY <1>1, ControllerOrderInv
<1>2. CASE ClusterChanges
  BY <1>2, EnvironmentOrderInv DEF ClusterChanges
<1>3. CASE Crash
  BY <1>3 DEF Crash, Return, BlankResource, OrderInv
<1>4. CASE CacheSync
  BY <1>4 DEF CacheSync, OrderInv
<1>5. CASE TimePasses \/ UNCHANGED vars
  BY <1>5 DEF TimePasses, vars, OrderInv
<1>6. ASSUME NEW s \in AdminStates, AdminSetsState(s) PROVE OrderInv'
  <2>1. cr'.target = cr.target
    BY <1>6 DEF AdminSetsState, TypeOK
  <2>2. QED
    BY <1>6, <2>1 DEF AdminSetsState, OrderInv
<1>7. QED
  BY <1>1, <1>2, <1>3, <1>4, <1>5, <1>6 DEF Next

\* The target of a blue-green upgrade is its new version, whatever state the
\* administrators write, and the pods of a dependency that was migrated when
\* a toleration was granted stay off the old nodes.
THEOREM OrderInvariant ==
  ASSUME OneUpgrade
  PROVE  Spec => []OrderInv
<1>1. Init => OrderInv
  BY ClusterAssumption DEF Init, ClusterInit, BlankResource, OrderInv,
                           OneUpgrade, Newest
<1>2. TypeOK /\ OrderInv /\ [Next]_vars => OrderInv'
  BY NextOrderInv
<1>3. QED
  BY <1>1, <1>2, TypeCorrect, PTL DEF Spec

\* No workload may enter the target nodes before its dependencies.
THEOREM DependencyOrder ==
  ASSUME OneUpgrade
  PROVE  Spec => []DependenciesFirst
<1>1. TypeOK /\ OrderInv => DependenciesFirst
  <2> SUFFICES ASSUME TypeOK, OrderInv, NEW w \in tolerates,
                      NEW d \in DependsOn[w], NEW p \in PodsOf(d),
                      place[p] \in Nodes
               PROVE  NodeVersion[place[p]] = cr.target
    BY DEF DependenciesFirst
  <2>1. Newest(place[p]) /\ cr.target # NoVersion
    BY DEF OrderInv
  <2>2. PICK n \in Nodes : Newest(n) /\ NodeVersion[n] = cr.target
    BY <2>1 DEF OrderInv
  <2>3. QED
    BY <2>1, <2>2, NewestUnique
<1>2. QED
  BY <1>1, OrderInvariant, TypeCorrect, PTL
=============================================================================

---------------------- MODULE UpgradeOrchestratorProofs ----------------------
(***************************************************************************)
(* Theorems about UpgradeOrchestrator for any cluster, any list of         *)
(* deployments and dependencies, and any number of faults.                 *)
(***************************************************************************)
EXTENDS UpgradeOrchestrator, TLAPS

USE DEF Resource, States, Handlers, clusterVars, crVars, controllerVars

LEMMA StateUpdate ==
  ASSUME NEW r \in Resource, NEW s \in States
  PROVE  [r EXCEPT !.state = s] \in Resource
OBVIOUS

LEMMA UpdateReplyType ==
  ASSUME cr \in Resource, NEW sent \in Resource
  PROVE  UpdateReply(sent) \in Resource
BY DEF UpdateReply

\* reconcilePDB changes PDBs only, and keeps them in their types.
LEMMA AllowDisruptionType ==
  ASSUME ClusterTypeOK, NEW w \in Workloads, AllowDisruption(w)
  PROVE  userPdb' \in [UserPdbs -> PdbStates] /\ blocker' \subseteq Workloads
BY DEF ClusterTypeOK, AllowDisruption, UserPdbsFor, PdbStates

LEMMA BlockDisruptionType ==
  ASSUME ClusterTypeOK, NEW w \in Workloads, BlockDisruption(w)
  PROVE  userPdb' \in [UserPdbs -> PdbStates] /\ blocker' \subseteq Workloads
BY DEF ClusterTypeOK, BlockDisruption, UserPdbsFor, PdbStates

\* What nodes, pods and users do keeps the cluster's types.
LEMMA EnvironmentType ==
  ASSUME ClusterTypeOK, Environment
  PROVE  ClusterTypeOK'
<1> USE DEF ClusterTypeOK
<1>1. ASSUME NEW n \in Nodes,
             \/ NodeCordoned(n) \/ NodeUncordoned(n)
             \/ NodeJoins(n) \/ NodeLeaves(n)
      PROVE  ClusterTypeOK'
  BY <1>1 DEF NodeCordoned, NodeUncordoned, NodeJoins, NodeLeaves, Taints
<1>2. ASSUME NEW p \in Pods, PodStops(p) \/ PodRecreated(p)
      PROVE  ClusterTypeOK'
  BY <1>2 DEF PodStops, PodRecreated
<1>3. ASSUME NEW p \in Pods, NEW n \in Nodes, PodScheduled(p, n)
      PROVE  ClusterTypeOK'
  BY <1>3 DEF PodScheduled
<1>4. ASSUME NEW b \in UserPdbs, UserWritesPdb(b)
      PROVE  ClusterTypeOK'
  BY <1>4 DEF UserWritesPdb, PdbStates
<1>5. QED
  BY <1>1, <1>2, <1>3, <1>4 DEF Environment

LEMMA OrderEntry ==
  ASSUME at \in 1..Len(Order) + 1, at =< Len(Order)
  PROVE  Order[at] \in Workloads /\ at + 1 \in 1..Len(Order) + 1
BY OrchestratorAssumption

LEMMA LenNat == Len(Order) \in Nat
BY OrchestratorAssumption

\* How a step of Reconcile ends keeps the worker's types.
LEMMA ReturnType ==
  ASSUME Return
  PROVE  /\ pc' = "idle" /\ obj' \in Resource /\ listed' \subseteq Nodes
         /\ seen' \in [Nodes -> SUBSET Taints] /\ at' \in 1..Len(Order) + 1
BY LenNat DEF Return, BlankResource, NoTaintsSeen

LEMMA RefusedType ==
  ASSUME TypeOK, Refused
  PROVE  TypeOK'
<1>1. faults' \in 0..MaxFaults
  BY OrchestratorAssumption DEF TypeOK, Refused, Fault
<1>2. QED
  BY <1>1, ReturnType DEF TypeOK, ClusterTypeOK, Refused

LEMMA FaultType ==
  ASSUME TypeOK, Fault
  PROVE  faults' \in 0..MaxFaults
BY OrchestratorAssumption DEF TypeOK, Fault

-----------------------------------------------------------------------------
(* Type correctness. *)

LEMMA InitType == Init => TypeOK
<1>1. ASSUME Init PROVE ClusterTypeOK
  BY <1>1, ClusterAssumption
     DEF Init, ClusterInit, ClusterTypeOK, Taints, PdbStates
<1>2. ASSUME Init PROVE TypeOK
  <2>1. BlankResource \in Resource
    BY DEF BlankResource
  <2>2. NoTaintsSeen \in [Nodes -> SUBSET Taints]
    BY DEF NoTaintsSeen
  <2>3. at \in 1..Len(Order) + 1 /\ faults \in 0..MaxFaults
        /\ adminWrites \in 0..MaxAdmin
    BY <1>2, LenNat, OrchestratorAssumption DEF Init
  <2>4. QED
    BY <1>1, <1>2, <2>1, <2>2, <2>3 DEF Init, TypeOK
<1>3. QED
  BY <1>2

\* The handlers that write only to the custom resource and the worker's copy.
LEMMA HandlerType ==
  ASSUME TypeOK,
         \/ Reconcile \/ InitStatus \/ HandleNoUpgrade \/ ToAwaiting
         \/ ForgetUpgrade \/ HandleAwaiting \/ ToNoUpgrade
         \/ RecordAnnotation \/ RecordState \/ WaitForVersions
         \/ ChooseTarget \/ EndOfPass
  PROVE  TypeOK'
<1> USE DEF TypeOK, ClusterTypeOK
<1>1. CASE Reconcile
  BY <1>1 DEF Reconcile, HandlerOf
<1>2. CASE InitStatus
  <2>1. [obj EXCEPT !.state = "NoUpgrade"] \in Resource
    BY StateUpdate
  <2>2. QED
    BY <1>2, <2>1, RefusedType DEF InitStatus, SetState, Accepted
<1>3. CASE HandleNoUpgrade
  BY <1>3, ReturnType DEF HandleNoUpgrade, Goto, GotoWith
<1>4. CASE ToAwaiting
  BY <1>4, RefusedType, ReturnType DEF ToAwaiting
<1>5. CASE ForgetUpgrade
  <2>1. [obj EXCEPT !.lastKnown = FALSE] \in Resource
    OBVIOUS
  <2>2. UpdateReply([obj EXCEPT !.lastKnown = FALSE]) \in Resource
    BY <2>1, UpdateReplyType
  <2>3. QED
    BY <1>5, <2>2, RefusedType, ReturnType DEF ForgetUpgrade
<1>6. CASE HandleAwaiting
  BY <1>6, ReturnType DEF HandleAwaiting, Goto
<1>7. CASE ToNoUpgrade
  BY <1>7, RefusedType, ReturnType DEF ToNoUpgrade
<1>8. CASE RecordAnnotation
  <2>1. UpdateReply(Confirmed) = [cr EXCEPT !.lastKnown = TRUE]
    BY DEF UpdateReply, Confirmed
  <2>2. QED
    BY <1>8, <2>1, RefusedType DEF RecordAnnotation, Accepted
<1>9. CASE RecordState
  BY <1>9, RefusedType, ReturnType DEF RecordState
<1>10. CASE WaitForVersions
  BY <1>10, ReturnType DEF WaitForVersions
<1>11. CASE ChooseTarget
  <2>2. ASSUME NEW t \in HighestVersions, Refused PROVE TypeOK'
    BY <2>2, RefusedType
  <2>3. ASSUME NEW t \in HighestVersions,
               IF obj.target = t THEN UNCHANGED <<cr, cached, obj>>
                                 ELSE Accepted([obj EXCEPT !.target = t]),
               GotoWith("migrate", NodesAt(t)),
               UNCHANGED <<aged, clusterVars, faults, adminWrites>>
        PROVE  TypeOK'
    <3>1. t \in Versions
      BY ClusterAssumption DEF HighestVersions, DetectedVersions
    <3>2. [obj EXCEPT !.target = t] \in Resource
      BY <3>1
    <3>3. NodesAt(t) \subseteq Nodes
      BY DEF NodesAt
    <3>4. cr' \in Resource /\ cached' \in Resource /\ obj' \in Resource
      BY <2>3, <3>2 DEF Accepted
    <3>5. QED
      BY <2>3, <3>3, <3>4 DEF GotoWith
  <2>4. QED
    BY <1>11, <2>2, <2>3 DEF ChooseTarget
<1>12. CASE EndOfPass
  BY <1>12, ReturnType DEF EndOfPass
<1>13. QED
  BY <1>1, <1>2, <1>3, <1>4, <1>5, <1>6, <1>7, <1>8, <1>9, <1>10, <1>11,
     <1>12

\* The steps that patch nodes, workloads or PDBs.
LEMMA PatchType ==
  ASSUME TypeOK,
         \/ \E n \in Nodes : CleanupNode(n) \/ PrepareNode(n)
         \/ CleanupPdb \/ CleanupToleration \/ SetInitialPdb
         \/ Unblock \/ AddToleration
  PROVE  TypeOK'
<1> USE DEF TypeOK, ClusterTypeOK
<1>1. ASSUME NEW n \in Nodes, CleanupNode(n) PROVE TypeOK'
  BY <1>1, FaultType DEF CleanupNode, Taints
<1>2. ASSUME NEW n \in Nodes, PrepareNode(n) PROVE TypeOK'
  BY <1>2, FaultType, ReturnType DEF PrepareNode, Taints
<1>3. CASE CleanupPdb
  BY <1>3, FaultType, OrderEntry, AllowDisruptionType
     DEF CleanupPdb, NextEntry, Goto
<1>4. CASE CleanupToleration
  BY <1>4, FaultType, OrderEntry DEF CleanupToleration, NextEntry
<1>5. CASE SetInitialPdb
  BY <1>5, FaultType, OrderEntry, AllowDisruptionType, BlockDisruptionType
     DEF SetInitialPdb, NextEntry
<1>6. CASE Unblock
  BY <1>6, FaultType, OrderEntry, AllowDisruptionType
     DEF Unblock, NextEntry, Goto
<1>7. CASE AddToleration
  BY <1>7, FaultType, OrderEntry DEF AddToleration, NextEntry
<1>8. QED
  BY <1>1, <1>2, <1>3, <1>4, <1>5, <1>6, <1>7

LEMMA NextType ==
  ASSUME TypeOK, [Next]_vars
  PROVE  TypeOK'
<1>1. CASE Controller
  BY <1>1, HandlerType, PatchType DEF Controller
<1>2. CASE Crash
  BY <1>2, FaultType, ReturnType DEF Crash, TypeOK, ClusterTypeOK
<1>3. CASE CacheSync \/ TimePasses
  BY <1>3 DEF CacheSync, TimePasses, TypeOK, ClusterTypeOK
<1>4. CASE ClusterChanges
  BY <1>4, EnvironmentType DEF ClusterChanges, TypeOK
<1>5. ASSUME NEW s \in AdminStates, AdminSetsState(s) PROVE TypeOK'
  <2>1. [cr EXCEPT !.state = s] \in Resource
    BY StateUpdate, OrchestratorAssumption DEF TypeOK
  <2>2. adminWrites' \in 0..MaxAdmin
    BY <1>5, OrchestratorAssumption DEF AdminSetsState, TypeOK
  <2>3. QED
    BY <1>5, <2>1, <2>2 DEF AdminSetsState, TypeOK, ClusterTypeOK
<1>6. CASE UNCHANGED vars
  BY <1>6 DEF vars, TypeOK, ClusterTypeOK
<1>7. QED
  BY <1>1, <1>2, <1>3, <1>4, <1>5, <1>6 DEF Next

\* Every variable stays in its type, and the worker writes a toleration only
\* for an entry of spec.deployments.
THEOREM TypeCorrect == Spec => []TypeOK
<1>1. Init => TypeOK
  BY InitType
<1>2. TypeOK /\ [Next]_vars => TypeOK'
  BY NextType
<1>3. QED
  BY <1>1, <1>2, PTL DEF Spec

-----------------------------------------------------------------------------
(* No migration outside UpgradeInProgress.                                 *)

Upgrading == cr.state = "UpgradeInProgress"
NoMigration == tolerates = {} /\ \A n \in Nodes : Upgrade \notin taints[n]

\* What every step owes the invariant: the worker's copy is the one its
\* handler is for, copies do not run ahead of the resource, and the resource
\* does not leave UpgradeInProgress.
Obligations ==
  /\ pc' # "idle" => obj'.state = HandledState(pc')
  /\ obj'.state = "UpgradeInProgress" => Upgrading'
  /\ cached'.state = "UpgradeInProgress" => Upgrading'
  /\ cr'.target # NoVersion => Upgrading'
  /\ Upgrading => Upgrading'

\* A step that does not touch the worker's copy, the cache or the resource,
\* and goes to a handler for the same state, owes nothing more.
LEMMA QuietStep ==
  ASSUME TypeOK, MigrationInv, UNCHANGED crVars,
         \/ Return
         \/ obj' = obj /\ pc # "idle" /\ HandledState(pc') = HandledState(pc)
  PROVE  Obligations
BY DEF MigrationInv, TargetOnlyInProgress, Obligations, Upgrading, Return,
       BlankResource

LEMMA RefusedObligations ==
  ASSUME TypeOK, MigrationInv, Refused
  PROVE  Obligations /\ UNCHANGED clusterVars
BY QuietStep DEF Refused

\* An accepted status update of a copy that was not UpgradeInProgress.
LEMMA WriteObligations ==
  ASSUME TypeOK, MigrationInv, obj = cr, ~Upgrading,
         NEW new \in Resource, new.target = obj.target,
         cr' = new, cached' = cached,
         \/ Return
         \/ obj' = new /\ pc' # "idle" /\ new.state = HandledState(pc')
            /\ ~Upgrading'
  PROVE  Obligations
BY DEF MigrationInv, TargetOnlyInProgress, Obligations, Upgrading, Return,
       BlankResource

LEMMA NotUpgrading ==
  ASSUME TypeOK, MigrationInv, obj = cr, pc # "idle",
         HandledState(pc) # "UpgradeInProgress"
  PROVE  ~Upgrading
BY DEF MigrationInv, Upgrading

LEMMA HandlerObligations ==
  ASSUME TypeOK, MigrationInv,
         \/ Reconcile \/ InitStatus \/ HandleNoUpgrade \/ ToAwaiting
         \/ ForgetUpgrade \/ HandleAwaiting \/ ToNoUpgrade
         \/ RecordAnnotation \/ RecordState \/ WaitForVersions
         \/ ChooseTarget \/ EndOfPass
  PROVE  Obligations /\ UNCHANGED clusterVars
<1> USE DEF TypeOK
<1>1. CASE Reconcile
  <2>1. cached.state \in States
    OBVIOUS
  <2>2. pc' # "idle" /\ HandledState(pc') = cached.state
    BY <1>1, <2>1 DEF Reconcile, HandlerOf, HandledState
  <2>3. QED
    BY <1>1, <2>2 DEF Reconcile, Obligations, MigrationInv, Upgrading,
                      TargetOnlyInProgress
<1>2. CASE InitStatus
  <2>1. ASSUME obj = cr, cr' = [obj EXCEPT !.state = "NoUpgrade"],
               obj' = cr', pc' = "noUpgrade", pc = "initStatus",
               cached' = cached
        PROVE  Obligations
    <3>1. ~Upgrading
      BY <2>1, NotUpgrading DEF HandledState
    <3>2. [obj EXCEPT !.state = "NoUpgrade"] \in Resource
      BY StateUpdate
    <3>3. QED
      BY <2>1, <3>1, <3>2, WriteObligations DEF HandledState, Upgrading
  <2>2. QED
    BY <1>2, <2>1, RefusedObligations DEF InitStatus, SetState, Accepted
<1>3. CASE HandleNoUpgrade
  <2>1. pc = "noUpgrade" /\ UNCHANGED <<crVars, clusterVars>>
        /\ (Return \/ (obj' = obj /\ pc' \in {"cleanup", "toAwaiting"}))
    BY <1>3 DEF HandleNoUpgrade, Goto, GotoWith
  <2>2. QED
    BY <2>1, QuietStep DEF HandledState
<1>4. CASE ToAwaiting
  <2>1. ASSUME pc = "toAwaiting", obj = cr, Return, cached' = cached,
               cr' = [obj EXCEPT !.state = "AwaitingUpgradeConfirmation"]
        PROVE  Obligations
    <3>1. ~Upgrading
      BY <2>1, NotUpgrading DEF HandledState
    <3>2. [obj EXCEPT !.state = "AwaitingUpgradeConfirmation"] \in Resource
      BY StateUpdate
    <3>3. QED
      BY <2>1, <3>1, <3>2, WriteObligations
  <2>2. QED
    BY <1>4, <2>1, RefusedObligations DEF ToAwaiting
<1>5. CASE ForgetUpgrade
  <2>1. ASSUME pc = "cleanup", obj = cr, Return, cached' = cached,
               cr' = UpdateReply([obj EXCEPT !.lastKnown = FALSE])
        PROVE  Obligations
    <3>1. ~Upgrading
      BY <2>1, NotUpgrading DEF HandledState
    <3>2. cr' = [cr EXCEPT !.lastKnown = FALSE]
      BY <2>1 DEF UpdateReply
    <3>3. QED
      BY <2>1, <3>1, <3>2, WriteObligations
  <2>2. QED
    BY <1>5, <2>1, RefusedObligations DEF ForgetUpgrade
<1>6. CASE HandleAwaiting
  <2>1. pc = "awaiting" /\ UNCHANGED <<crVars, clusterVars>>
        /\ (Return \/ (obj' = obj /\ pc' \in {"toNoUpgrade", "initialPdbs"}))
    BY <1>6 DEF HandleAwaiting, Goto
  <2>2. QED
    BY <2>1, QuietStep DEF HandledState
<1>7. CASE ToNoUpgrade
  <2>1. ASSUME pc = "toNoUpgrade", obj = cr, Return, cached' = cached,
               cr' = [obj EXCEPT !.state = "NoUpgrade"]
        PROVE  Obligations
    <3>1. ~Upgrading
      BY <2>1, NotUpgrading DEF HandledState
    <3>2. [obj EXCEPT !.state = "NoUpgrade"] \in Resource
      BY StateUpdate
    <3>3. QED
      BY <2>1, <3>1, <3>2, WriteObligations
  <2>2. QED
    BY <1>7, <2>1, RefusedObligations DEF ToNoUpgrade
<1>8. CASE RecordAnnotation
  <2>1. ASSUME pc = "initialPdbs", obj = cr, cr' = UpdateReply(Confirmed),
               obj' = cr', pc' = "recordState", cached' = cached
        PROVE  Obligations
    <3>1. ~Upgrading /\ obj.state = "AwaitingUpgradeConfirmation"
      BY <2>1, NotUpgrading DEF HandledState, MigrationInv
    <3>2. cr' = [cr EXCEPT !.lastKnown = TRUE]
      BY <2>1 DEF UpdateReply, Confirmed
    <3>3. QED
      BY <2>1, <3>1, <3>2, WriteObligations DEF HandledState, Upgrading
  <2>2. QED
    BY <1>8, <2>1, RefusedObligations DEF RecordAnnotation, Accepted
<1>9. CASE RecordState
  <2>1. ASSUME pc = "recordState", obj = cr, cr' = obj, Return,
               cached' = cached
        PROVE  Obligations
    BY <2>1, NotUpgrading, WriteObligations DEF HandledState
  <2>2. QED
    BY <1>9, <2>1, RefusedObligations DEF RecordState
<1>10. CASE WaitForVersions
  BY <1>10, QuietStep DEF WaitForVersions
<1>11. CASE ChooseTarget
  <2>1. pc = "inProgress" /\ obj.state = "UpgradeInProgress" /\ Upgrading
    BY <1>11 DEF ChooseTarget, MigrationInv, HandledState, Upgrading
  <2>2. ASSUME NEW t \in HighestVersions, pc' = "migrate",
               IF obj.target = t THEN UNCHANGED <<cr, cached, obj>>
                                 ELSE Accepted([obj EXCEPT !.target = t])
        PROVE  Obligations
    BY <2>1, <2>2 DEF Accepted, Obligations, Upgrading, HandledState,
                      MigrationInv
  <2>3. QED
    BY <1>11, <2>2, RefusedObligations DEF ChooseTarget, GotoWith
<1>12. CASE EndOfPass
  BY <1>12, QuietStep DEF EndOfPass
<1>13. QED
  BY <1>1, <1>2, <1>3, <1>4, <1>5, <1>6, <1>7, <1>8, <1>9, <1>10, <1>11,
     <1>12

LEMMA PatchObligations ==
  ASSUME TypeOK, MigrationInv,
         \/ \E n \in Nodes : CleanupNode(n) \/ PrepareNode(n)
         \/ CleanupPdb \/ CleanupToleration \/ SetInitialPdb
         \/ Unblock \/ AddToleration
  PROVE  Obligations
<1>1. UNCHANGED crVars
  BY DEF CleanupNode, PrepareNode, CleanupPdb, CleanupToleration,
         SetInitialPdb, Unblock, AddToleration
<1>2. \/ Return
      \/ obj' = obj /\ pc # "idle" /\ HandledState(pc') = HandledState(pc)
  BY DEF CleanupNode, PrepareNode, CleanupPdb, CleanupToleration,
         SetInitialPdb, Unblock, AddToleration, Goto, NextEntry, HandledState
<1>3. QED
  BY <1>1, <1>2, QuietStep

\* Only the handlers of UpgradeInProgress add an upgrade taint or toleration.
LEMMA ControllerKeepsNoMigration ==
  ASSUME TypeOK, MigrationInv, ~Upgrading, NoMigration, Controller
  PROVE  NoMigration'
<1> USE DEF NoMigration, TypeOK, ClusterTypeOK
<1>1. pc # "migrate" /\ pc # "tolerate" /\ pc # "inProgress"
  BY DEF MigrationInv, HandledState, Upgrading
<1>2. ASSUME UNCHANGED clusterVars PROVE NoMigration'
  BY <1>2
<1>3. ASSUME NEW n \in Nodes, CleanupNode(n) PROVE NoMigration'
  BY <1>3 DEF CleanupNode
<1>4. ASSUME CleanupPdb \/ CleanupToleration \/ SetInitialPdb
      PROVE  NoMigration'
  BY <1>4 DEF CleanupPdb, CleanupToleration, SetInitialPdb
<1>5. QED
  BY <1>1, <1>2, <1>3, <1>4, HandlerObligations
     DEF Controller, PrepareNode, Unblock, AddToleration

LEMMA EnvironmentKeepsNoMigration ==
  ASSUME TypeOK, NoMigration, Environment
  PROVE  NoMigration'
<1> USE DEF NoMigration, TypeOK, ClusterTypeOK
<1>1. ASSUME NEW n \in Nodes,
             \/ NodeCordoned(n) \/ NodeUncordoned(n)
             \/ NodeJoins(n) \/ NodeLeaves(n)
      PROVE  NoMigration'
  BY <1>1 DEF NodeCordoned, NodeUncordoned, NodeJoins, NodeLeaves,
              Cordon, Upgrade
<1>2. ASSUME UNCHANGED <<taints, tolerates>> PROVE NoMigration'
  BY <1>2
<1>3. QED
  BY <1>1, <1>2 DEF Environment, PodStops, PodRecreated, PodScheduled,
                    UserWritesPdb

LEMMA NextMigrationInv ==
  ASSUME AdminStates \subseteq {"UpgradeInProgress"},
         TypeOK, MigrationInv, [Next]_vars
  PROVE  MigrationInv'
<1>1. Obligations
  <2>1. CASE Controller
    BY <2>1, HandlerObligations, PatchObligations DEF Controller
  <2>2. CASE Crash
    BY <2>2 DEF Crash, Return, BlankResource, Obligations, MigrationInv,
                TargetOnlyInProgress, Upgrading
  <2>3. CASE CacheSync \/ TimePasses \/ ClusterChanges \/ UNCHANGED vars
    BY <2>3 DEF CacheSync, TimePasses, ClusterChanges, vars, Obligations,
                MigrationInv, TargetOnlyInProgress, Upgrading
  <2>4. ASSUME NEW s \in AdminStates, AdminSetsState(s) PROVE Obligations
    BY <2>4 DEF AdminSetsState, Obligations, MigrationInv, Upgrading, TypeOK
  <2>5. QED
    BY <2>1, <2>2, <2>3, <2>4 DEF Next
<1>2. ASSUME ~Upgrading' PROVE NoMigration'
  <2>1. ~Upgrading
    BY <1>1, <1>2 DEF Obligations
  <2>2. NoMigration
    BY <2>1 DEF MigrationInv, MigrationOnlyInProgress, NoMigration, Upgrading
  <2>3. CASE Controller
    BY <2>1, <2>2, <2>3, ControllerKeepsNoMigration
  <2>4. CASE ClusterChanges
    BY <2>2, <2>4, EnvironmentKeepsNoMigration DEF ClusterChanges
  <2>5. CASE UNCHANGED clusterVars
    BY <2>2, <2>5 DEF NoMigration
  <2>6. QED
    BY <2>3, <2>4, <2>5
       DEF Next, Crash, CacheSync, TimePasses, AdminSetsState, vars
<1>3. QED
  BY <1>1, <1>2 DEF Obligations, MigrationInv, TargetOnlyInProgress,
                    MigrationOnlyInProgress, NoMigration, Upgrading

\* If administrators never take the resource out of UpgradeInProgress, a copy
\* of it that says UpgradeInProgress is right however stale it is; hence the
\* target, the taints and the tolerations exist only in that state.
THEOREM Migration ==
  ASSUME AdminStates \subseteq {"UpgradeInProgress"}
  PROVE  Spec => []MigrationInv
<1>1. Init => MigrationInv
  BY DEF Init, ClusterInit, BlankResource, MigrationInv, TargetOnlyInProgress,
         MigrationOnlyInProgress
<1>2. TypeOK /\ MigrationInv /\ [Next]_vars => MigrationInv'
  BY NextMigrationInv
<1>3. QED
  BY <1>1, <1>2, TypeCorrect, PTL DEF Spec

\* status.targetVersion is set only while the state is UpgradeInProgress.
THEOREM TargetSafety ==
  ASSUME AdminStates \subseteq {"UpgradeInProgress"}
  PROVE  Spec => []TargetOnlyInProgress
<1>1. MigrationInv => TargetOnlyInProgress
  BY DEF MigrationInv
<1>2. QED
  BY <1>1, Migration, PTL

\* Nodes are tainted and workloads tolerate the taint only in that state.
THEOREM MigrationSafety ==
  ASSUME AdminStates \subseteq {"UpgradeInProgress"}
  PROVE  Spec => []MigrationOnlyInProgress
<1>1. MigrationInv => MigrationOnlyInProgress
  BY DEF MigrationInv
<1>2. QED
  BY <1>1, Migration, PTL

-----------------------------------------------------------------------------
(***************************************************************************)
(* The cleanup is complete when it is undisturbed: no call fails, users    *)
(* add no PDB, and no two user PDBs match the same workload.               *)
(***************************************************************************)

Undisturbed ==
  /\ MaxFaults = 0
  /\ "create" \notin UserActs
  /\ \A b, c \in UserPdbs : Covers[b] \cap Covers[c] # {} => b = c

Cleaning == pc \in {"cleanup", "cleanupToleration"}

LEMMA NoFault == ASSUME Undisturbed, TypeOK PROVE ~Fault
BY DEF Undisturbed, TypeOK, Fault

\* After reconcilePDB has allowed disruptions, the workload has neither a
\* blocker nor a held PDB, and no other workload has got one.
LEMMA AllowCleans ==
  ASSUME Undisturbed, TypeOK, CleanupInv, NEW w \in Workloads,
         AllowDisruption(w)
  PROVE  /\ NoTraceOf(w)'
         /\ \A v \in Workloads : NoTraceOf(v) => NoTraceOf(v)'
         /\ \A v \in blocker' : UserPdbsFor(v)' = {}
<1> USE DEF TypeOK, ClusterTypeOK, PdbStates, UserPdbsFor, HeldPdbs,
            NoTraceOf, Annotated
<1>1. CASE \E b \in UserPdbsFor(w) :
             /\ Annotated(b)
             /\ userPdb' = [userPdb EXCEPT ![b] = "own"]
             /\ UNCHANGED blocker
  <2>1. PICK b \in UserPdbsFor(w) :
             /\ Annotated(b)
             /\ userPdb' = [userPdb EXCEPT ![b] = "own"]
             /\ UNCHANGED blocker
    BY <1>1
  <2>2. w \notin blocker
    BY <2>1 DEF CleanupInv
  <2>3. \A c \in UserPdbs : w \in Covers[c] => c = b
    BY <2>1 DEF Undisturbed
  <2>4. QED
    BY <2>1, <2>2, <2>3 DEF CleanupInv
<1>2. CASE /\ \/ UserPdbsFor(w) = {}
              \/ \E b \in UserPdbsFor(w) : ~Annotated(b)
           /\ blocker' = blocker \ {w}
           /\ UNCHANGED userPdb
  <2>1. \A c \in UserPdbs : w \in Covers[c] => ~Annotated(c)
    BY <1>2 DEF Undisturbed
  <2>2. QED
    BY <1>2, <2>1 DEF CleanupInv
<1>3. QED
  BY <1>1, <1>2 DEF AllowDisruption

\* An operator's PDB is created only where no user PDB matches.
LEMMA BlockerAlone ==
  ASSUME TypeOK, CleanupInv, NEW w \in Workloads, BlockDisruption(w)
  PROVE  \A v \in blocker' : UserPdbsFor(v)' = {}
BY DEF TypeOK, ClusterTypeOK, PdbStates, UserPdbsFor, CleanupInv,
       BlockDisruption, Annotated

\* Steps after which the worker is not cleaning up.
LEMMA NotCleaning ==
  ASSUME CleanupInv, ~Cleaning', FirstEntry', UNCHANGED <<userPdb, blocker>>
  PROVE  CleanupInv'
BY DEF CleanupInv, Cleaning, UserPdbsFor

LEMMA ReturnCleanup ==
  ASSUME CleanupInv, Return, UNCHANGED <<userPdb, blocker>>
  PROVE  CleanupInv'
BY NotCleaning DEF Return, Cleaning, FirstEntry

LEMMA ControllerCleanupInv ==
  ASSUME Undisturbed, TypeOK, CleanupInv, Controller
  PROVE  CleanupInv'
<1> USE NoFault
<1>1. CASE \/ Reconcile \/ InitStatus \/ ToAwaiting \/ ForgetUpgrade
           \/ HandleAwaiting \/ ToNoUpgrade \/ RecordAnnotation
           \/ RecordState \/ WaitForVersions \/ ChooseTarget \/ EndOfPass
  <2>1. cached.state \in States
    BY DEF TypeOK
  <2>2. UNCHANGED <<userPdb, blocker>> /\ ~Cleaning' /\ FirstEntry'
    BY <1>1, <2>1
       DEF Reconcile, HandlerOf, InitStatus, SetState, ToAwaiting,
           ForgetUpgrade, HandleAwaiting, ToNoUpgrade, RecordAnnotation,
           RecordState, WaitForVersions, ChooseTarget, EndOfPass, Refused, Return, Goto,
           GotoWith, Cleaning, CleanupInv, FirstEntry
  <2>3. QED
    BY <2>2, NotCleaning
<1>2. CASE HandleNoUpgrade
  <2>1. CASE pc' # "cleanup"
    <3>1. UNCHANGED <<userPdb, blocker>> /\ ~Cleaning' /\ FirstEntry'
      BY <1>2, <2>1 DEF HandleNoUpgrade, Goto, GotoWith, Return, Cleaning,
                        FirstEntry
    <3>2. QED
      BY <3>1, NotCleaning
  <2>2. CASE pc' = "cleanup"
    <3>1. at' = at /\ at = 1 /\ UNCHANGED clusterVars
          /\ listed' = {n \in present : Upgrade \in taints[n]}
      BY <1>2, <2>2 DEF HandleNoUpgrade, Goto, GotoWith, Return, CleanupInv,
                        FirstEntry
    <3>2. QED
      BY <2>2, <3>1 DEF CleanupInv, UserPdbsFor, FirstEntry
  <2>3. QED
    BY <2>1, <2>2
<1>3. ASSUME NEW n \in Nodes, CleanupNode(n) PROVE CleanupInv'
  <2>1. pc' = "cleanup" /\ pc = "cleanup" /\ listed' = listed \ {n}
        /\ UNCHANGED <<at, present, userPdb, blocker, tolerates>>
    BY <1>3 DEF CleanupNode
  <2>2. ASSUME NEW m \in present', Upgrade \in taints'[m] PROVE m \in listed'
    <3>1. n \in present => taints' = [taints EXCEPT ![n] = seen[n] \ {Upgrade}]
      BY <1>3 DEF CleanupNode
    <3>2. n \notin present => taints' = taints
      BY <1>3 DEF CleanupNode
    <3>3. m # n
      BY <2>1, <2>2, <3>1, <3>2 DEF TypeOK, ClusterTypeOK
    <3>4. Upgrade \in taints[m]
      BY <2>1, <2>2, <3>1, <3>2, <3>3 DEF TypeOK, ClusterTypeOK
    <3>5. QED
      BY <2>1, <3>3, <3>4 DEF CleanupInv
  <2>3. QED
    BY <2>1, <2>2 DEF CleanupInv, FirstEntry, UserPdbsFor, NoTraceOf, HeldPdbs
<1>4. CASE CleanupPdb
  <2>1. Order[at] \in Workloads /\ at \in Nat
    BY <1>4, OrderEntry, LenNat DEF CleanupPdb, TypeOK
  <2>2. UNCHANGED <<present, taints, listed, tolerates>> /\ listed = {}
        /\ pc = "cleanup"
    BY <1>4 DEF CleanupPdb, NextEntry, Goto
  <2>3. ASSUME Order[at] \notin Deployed, NextEntry("cleanup"),
               UNCHANGED <<userPdb, blocker>>
        PROVE  CleanupInv'
    BY <2>1, <2>2, <2>3 DEF NextEntry, CleanupInv, FirstEntry, UserPdbsFor,
                            NoTraceOf, HeldPdbs
  <2>4. ASSUME Goto("cleanupToleration"), AllowDisruption(Order[at])
        PROVE  CleanupInv'
    <3>1. \A i \in 1..at - 1 : Order[i] \in Workloads
      BY OrchestratorAssumption DEF TypeOK
    <3>2. QED
      BY <2>1, <2>2, <2>4, <3>1, AllowCleans DEF Goto, CleanupInv, FirstEntry
  <2>5. QED
    BY <1>4, <2>3, <2>4 DEF CleanupPdb
<1>5. CASE CleanupToleration
  <2>1. tolerates' = tolerates \ {Order[at]} /\ at \in Nat /\ listed = {}
        /\ pc = "cleanupToleration" /\ NextEntry("cleanup")
        /\ UNCHANGED <<present, taints, userPdb, blocker>>
    BY <1>5, LenNat DEF CleanupToleration, TypeOK, CleanupInv
  <2>2. QED
    BY <2>1 DEF NextEntry, CleanupInv, FirstEntry, UserPdbsFor, NoTraceOf,
                HeldPdbs
<1>6. CASE SetInitialPdb
  <2>1. \A v \in blocker' : UserPdbsFor(v)' = {}
    <3>1. Order[at] \in Workloads
      BY <1>6, OrderEntry DEF SetInitialPdb, TypeOK
    <3>2. CASE UNCHANGED <<userPdb, blocker>>
      BY <3>2 DEF CleanupInv, UserPdbsFor
    <3>3. QED
      BY <1>6, <3>1, <3>2, AllowCleans, BlockerAlone DEF SetInitialPdb
  <2>2. pc' = "initialPdbs"
    BY <1>6 DEF SetInitialPdb, NextEntry
  <2>3. QED
    BY <2>1, <2>2 DEF CleanupInv, FirstEntry
<1>7. ASSUME NEW n \in Nodes, PrepareNode(n) PROVE CleanupInv'
  <2>1. ~Cleaning' /\ FirstEntry' /\ UNCHANGED <<userPdb, blocker>>
    BY <1>7 DEF PrepareNode, Return, Cleaning, FirstEntry
  <2>2. QED
    BY <2>1, NotCleaning
<1>8. CASE Unblock
  <2>1. Order[at] \in Workloads
    BY <1>8, OrderEntry DEF Unblock, TypeOK
  <2>2. \A v \in blocker' : UserPdbsFor(v)' = {}
    BY <1>8, <2>1, AllowCleans DEF Unblock, CleanupInv, UserPdbsFor
  <2>3. pc' \in {"migrate", "tolerate"}
    BY <1>8 DEF Unblock, NextEntry, Goto
  <2>4. QED
    BY <2>2, <2>3 DEF CleanupInv, FirstEntry
<1>9. CASE AddToleration
  <2>1. ~Cleaning' /\ FirstEntry' /\ UNCHANGED <<userPdb, blocker>>
    BY <1>9 DEF AddToleration, NextEntry, Cleaning, FirstEntry
  <2>2. QED
    BY <2>1, NotCleaning
<1>10. QED
  BY <1>1, <1>2, <1>3, <1>4, <1>5, <1>6, <1>7, <1>8, <1>9 DEF Controller

LEMMA EnvironmentCleanupInv ==
  ASSUME Undisturbed, TypeOK, CleanupInv, Environment,
         UNCHANGED <<pc, at, listed>>
  PROVE  CleanupInv'
<1> USE DEF CleanupInv, FirstEntry, UserPdbsFor, NoTraceOf, HeldPdbs,
            TypeOK, ClusterTypeOK
<1>1. ASSUME NEW n \in Nodes,
             \/ NodeCordoned(n) \/ NodeUncordoned(n)
             \/ NodeJoins(n) \/ NodeLeaves(n)
      PROVE  CleanupInv'
  <2>1. UNCHANGED <<tolerates, userPdb, blocker>>
    BY <1>1 DEF NodeCordoned, NodeUncordoned, NodeJoins, NodeLeaves
  <2>2. \A m \in present' : Upgrade \in taints'[m]
          => m \in present /\ Upgrade \in taints[m]
    BY <1>1 DEF NodeCordoned, NodeUncordoned, NodeJoins, NodeLeaves,
                Cordon, Upgrade
  <2>3. QED
    BY <2>1, <2>2
<1>2. ASSUME UNCHANGED <<present, taints, tolerates, userPdb, blocker>>
      PROVE  CleanupInv'
  BY <1>2
<1>3. ASSUME NEW b \in UserPdbs, UserWritesPdb(b) PROVE CleanupInv'
  <2>1. UNCHANGED <<present, taints, tolerates, blocker>>
    BY <1>3 DEF UserWritesPdb
  <2>2. \A c \in UserPdbs :
          /\ userPdb'[c] # "none" => userPdb[c] # "none"
          /\ userPdb'[c] \in {"held", "loosened"} <=>
               userPdb[c] \in {"held", "loosened"} /\ userPdb'[c] # "none"
    BY <1>3 DEF UserWritesPdb, Undisturbed, PdbStates
  <2>3. \A w \in Workloads : UserPdbsFor(w)' \subseteq UserPdbsFor(w)
                             /\ (NoTraceOf(w) => NoTraceOf(w)')
    BY <2>1, <2>2
  <2>5. \A i \in 1..at - 1 : Order[i] \in Workloads
    BY OrchestratorAssumption
  <2>6. pc = "cleanupToleration" => Order[at] \in Workloads
    BY OrderEntry
  <2>7. QED
    BY <2>1, <2>3, <2>5, <2>6
<1>4. QED
  BY <1>1, <1>2, <1>3 DEF Environment, PodStops, PodRecreated, PodScheduled

LEMMA NextCleanupInv ==
  ASSUME Undisturbed, TypeOK, CleanupInv, [Next]_vars
  PROVE  CleanupInv'
<1>1. CASE Controller
  BY <1>1, ControllerCleanupInv
<1>2. CASE Crash
  BY <1>2, NoFault DEF Crash
<1>3. CASE ClusterChanges
  BY <1>3, EnvironmentCleanupInv DEF ClusterChanges
<1>4. CASE UNCHANGED <<clusterVars, controllerVars>>
  BY <1>4 DEF CleanupInv, FirstEntry, UserPdbsFor, NoTraceOf, HeldPdbs
<1>5. QED
  BY <1>1, <1>2, <1>3, <1>4
     DEF Next, CacheSync, TimePasses, AdminSetsState, vars

\* While the worker cleans up, what lies behind it stays clean, and a
\* workload with a blocker has no user PDB: in every reachable state.
THEOREM CleanupInvariant ==
  ASSUME Undisturbed
  PROVE  Spec => []CleanupInv
<1>1. Init => CleanupInv
  BY DEF Init, ClusterInit, CleanupInv, FirstEntry
<1>2. TypeOK /\ CleanupInv /\ [Next]_vars => CleanupInv'
  BY NextCleanupInv
<1>3. QED
  BY <1>1, <1>2, TypeCorrect, PTL DEF Spec

LEMMA OnlyForgetUpgradeForgets ==
  ASSUME TypeOK, [Next]_vars, cr.lastKnown, ~cr'.lastKnown
  PROVE  ForgetUpgrade
<1> USE DEF TypeOK
<1>1. cr' = cr => FALSE
  OBVIOUS
<1>2. ~InitStatus
  BY DEF InitStatus, SetState, Accepted, Refused
<1>3. ~ToAwaiting /\ ~ToNoUpgrade /\ ~RecordState
  BY DEF ToAwaiting, ToNoUpgrade, RecordState, Refused
<1>4. ~RecordAnnotation
  BY DEF RecordAnnotation, Accepted, UpdateReply, Confirmed, Refused
<1>5. ~ChooseTarget
  BY DEF ChooseTarget, Accepted, Refused
<1>6. \A s \in AdminStates : ~AdminSetsState(s)
  BY DEF AdminSetsState
<1>7. QED
  BY <1>1, <1>2, <1>3, <1>4, <1>5, <1>6
     DEF Next, Controller, Reconcile, HandleNoUpgrade, CleanupNode,
         CleanupPdb, CleanupToleration, HandleAwaiting, SetInitialPdb,
         WaitForVersions, PrepareNode, Unblock, AddToleration, EndOfPass, Crash, CacheSync,
         TimePasses, ClusterChanges, vars

\* An undisturbed cleanup is complete: the annotation that remembers an
\* upgrade is removed only when no taint, toleration or blocking PDB of it
\* is left.
THEOREM CleanupComplete ==
  ASSUME Undisturbed
  PROVE  Spec => ForgottenMeansClean
<1>1. ASSUME TypeOK, CleanupInv, [Next]_vars
      PROVE  cr.lastKnown /\ ~cr'.lastKnown => ~Traces'
  <2> SUFFICES ASSUME cr.lastKnown, ~cr'.lastKnown PROVE ~Traces'
    OBVIOUS
  <2>1. ForgetUpgrade
    BY <1>1, OnlyForgetUpgradeForgets
  <2>2. pc = "cleanup" /\ listed = {} /\ at > Len(Order)
        /\ UNCHANGED clusterVars
    BY <2>1 DEF ForgetUpgrade, Refused
  <2>3. \A i \in 1..Len(Order) : i \in 1..at - 1
    BY <1>1, <2>2, LenNat DEF TypeOK
  <2>4. ~Traces
    BY <1>1, <2>2, <2>3 DEF CleanupInv, Traces, Managed, NoTraceOf
  <2>5. QED
    BY <2>2, <2>4 DEF Traces, HeldPdbs
<1>2. TypeOK /\ CleanupInv /\ [Next]_vars
        => (cr.lastKnown /\ ~cr'.lastKnown => ~Traces')
  BY <1>1
<1>3. QED
  BY <1>2, CleanupInvariant, TypeCorrect, PTL DEF Spec, ForgottenMeansClean
=============================================================================

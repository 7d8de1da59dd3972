------------------------- MODULE UpgradeOrchestrator -------------------------
(***************************************************************************)
(* The reconcile loop of the upgrade orchestrator, one action per write to *)
(* the API server.  The single worker reads the custom resource from the   *)
(* informer's cache, which may lag; writes to the custom resource carry    *)
(* its resourceVersion and are refused when it is stale, the merge patches *)
(* of nodes, workloads and PDBs carry none.  Any write may fail and the    *)
(* process may stop between any two of them.                               *)
(***************************************************************************)
EXTENDS Cluster, Sequences

CONSTANTS
  Order,         \* the names of spec.deployments, in the order listed there
  DependsOn,     \* dependsOn of each of them
  AdminStates,   \* states an administrator may write into the status; the
                 \* wait for a confirmation is begun by the operator alone
  MaxAdmin,      \* bound on those writes
  MaxFaults      \* bound on failed API calls and process crashes

States == {"Unset", "NoUpgrade", "AwaitingUpgradeConfirmation",
           "UpgradeInProgress"}

ASSUME OrchestratorAssumption ==
  /\ Order \in Seq(Workloads)
  /\ DependsOn \in [Workloads -> SUBSET Workloads]
  /\ AdminStates \subseteq States \ {"AwaitingUpgradeConfirmation"}
  /\ MaxAdmin \in Nat
  /\ MaxFaults \in Nat

Managed == {Order[i] : i \in 1..Len(Order)}

VARIABLES
  cr,        \* the custom resource on the API server
  cached,    \* the informer's copy
  aged,      \* the resource last began to wait for a confirmation more than
             \* the 5 minute timeout ago
  pc,        \* where the worker is in Reconcile
  obj,       \* its copy of the custom resource
  listed,    \* nodes of the last node list that are still to be patched
  seen,      \* their taints in that list
  at,        \* position in spec.deployments
  faults, adminWrites

controllerVars == <<pc, obj, listed, seen, at>>
crVars == <<cr, cached, aged>>
vars == <<clusterVars, crVars, controllerVars, faults, adminWrites>>

\* lastKnown: annotation last-known-state is "UpgradeInProgress".
Resource == [state : States, target : Versions \cup {NoVersion},
             lastKnown : BOOLEAN]

Handlers == {"idle", "initStatus", "noUpgrade", "toAwaiting", "awaiting",
             "toNoUpgrade", "initialPdbs", "recordState", "inProgress",
             "migrate", "tolerate", "cleanup", "cleanupToleration"}

BlankResource == [state |-> "Unset", target |-> NoVersion, lastKnown |-> FALSE]
NoTaintsSeen == [n \in Nodes |-> {}]

Init ==
  /\ ClusterInit
  /\ cr = BlankResource /\ cached = cr /\ aged = FALSE
  /\ pc = "idle" /\ obj = BlankResource
  /\ listed = {} /\ seen = NoTaintsSeen /\ at = 1
  /\ faults = 0 /\ adminWrites = 0

-----------------------------------------------------------------------------
(* How a step ends. *)

Fault == faults < MaxFaults /\ faults' = faults + 1

\* Reconcile returns; the workqueue will call it again.
Return ==
  /\ pc' = "idle" /\ obj' = BlankResource
  /\ listed' = {} /\ seen' = NoTaintsSeen /\ at' = 1

Goto(handler) == pc' = handler /\ UNCHANGED <<obj, listed, seen, at>>

\* Go to a handler with the nodes it is going to patch and their taints.
GotoWith(handler, nodes) ==
  /\ pc' = handler
  /\ listed' = nodes
  /\ seen' = [n \in Nodes |-> IF n \in nodes THEN taints[n] ELSE {}]
  /\ UNCHANGED at

\* Mutant: the next entry is taken up in the middle.
NextEntryInPlace(handler) ==
  /\ at' = at + 1
  /\ UNCHANGED <<pc, obj, listed, seen>>
\* The next entry of spec.deployments.
NextEntry(handler) ==
  /\ pc' = handler
  /\ at' = at + 1
  /\ UNCHANGED <<obj, listed, seen>>

\* A write to the custom resource is accepted if the copy it started from
\* is still current; otherwise, or when the call fails, Reconcile returns.
Accepted(new) == obj = cr /\ cr' = new /\ obj' = new /\ UNCHANGED cached
Refused ==
  /\ \/ obj # cr /\ UNCHANGED faults
     \/ Fault
  /\ Return
  /\ UNCHANGED <<crVars, clusterVars, adminWrites>>

\* What r.Update returns: the server keeps the metadata it was sent and its
\* own status, and the reply is decoded over the object, status included.
UpdateReply(sent) == [cr EXCEPT !.lastKnown = sent.lastKnown]

-----------------------------------------------------------------------------
(* Reconcile *)

HandlerOf(state) ==
  CASE state = "Unset" -> "initStatus"
    [] state = "NoUpgrade" -> "noUpgrade"
    [] state = "AwaitingUpgradeConfirmation" -> "awaiting"
    [] state = "UpgradeInProgress" -> "inProgress"

Reconcile ==
  /\ pc = "idle"
  /\ obj' = cached
  /\ pc' = HandlerOf(cached.state)
  /\ UNCHANGED <<listed, seen, at, crVars, clusterVars, faults, adminWrites>>

\* r.Status().Update of a new state.  Every transition is stamped, but the
\* stamp is read in the awaiting state only: that one is modelled (aged).
SetState(state) ==
  /\ Accepted([obj EXCEPT !.state = state])
  /\ UNCHANGED <<aged, clusterVars, faults, adminWrites>>

InitStatus ==
  /\ pc = "initStatus"
  /\ \/ SetState("NoUpgrade") /\ pc' = "noUpgrade"
        /\ UNCHANGED <<listed, seen, at>>
     \/ Refused

-----------------------------------------------------------------------------
(* handleNoUpgradeState *)

SingleVersion == Cardinality(DetectedVersions) = 1

AllWorkloadsMigrated ==
  \A v \in DetectedVersions : \A w \in Managed : WorkloadMigrated(w, v)

Stabilizing == obj.lastKnown /\ ~SingleVersion
\* Mutant: without a taint there is nothing to clean up.
UpgradeOverIfTainted ==
  /\ obj.lastKnown /\ SingleVersion /\ AllWorkloadsMigrated
  /\ \E n \in present : Upgrade \in taints[n]

UpgradeOver == obj.lastKnown /\ SingleVersion /\ AllWorkloadsMigrated

HandleNoUpgrade ==
  /\ pc = "noUpgrade"
  /\ UNCHANGED <<crVars, clusterVars, faults, adminWrites>>
  /\ \/ UpgradeOver
        /\ GotoWith("cleanup", {n \in present : Upgrade \in taints[n]})
        /\ UNCHANGED obj
     \/ ~UpgradeOver /\ ~Stabilizing /\ AnyNodeCordoned /\ Goto("toAwaiting")
     \/ ~UpgradeOver /\ (Stabilizing \/ ~AnyNodeCordoned) /\ Return

\* Mutant: the write carries no resourceVersion.
ToAwaitingBlind ==
  /\ pc = "toAwaiting"
  /\ cr' = [obj EXCEPT !.state = "AwaitingUpgradeConfirmation"]
  /\ aged' = FALSE
  /\ Return
  /\ UNCHANGED <<cached, clusterVars, faults, adminWrites>>

ToAwaiting ==
  /\ pc = "toAwaiting"
  /\ \/ /\ obj = cr
        /\ cr' = [obj EXCEPT !.state = "AwaitingUpgradeConfirmation"]
        /\ aged' = FALSE
        /\ Return
        /\ UNCHANGED <<cached, clusterVars, faults, adminWrites>>
     \/ Refused

-----------------------------------------------------------------------------
(* cleanupGlobalUpgradeArtifacts and the removal of the annotation.  A     *)
(* failed patch is logged and skipped.                                     *)

\* A merge patch that changes the taints replaces the whole list by the one
\* computed from the copy that was listed.
CleanupNode(n) ==
  /\ pc = "cleanup"
  /\ n \in listed
  /\ listed' = listed \ {n}
  /\ seen' = [seen EXCEPT ![n] = {}]
  /\ \/ /\ n \in present
        /\ taints' = [taints EXCEPT ![n] = seen[n] \ {Upgrade}]
        /\ UNCHANGED faults
     \/ n \notin present /\ UNCHANGED <<taints, faults>>
     \/ Fault /\ UNCHANGED taints
  /\ UNCHANGED <<pc, obj, at, crVars, present, labelled, place, tolerates,
                 userPdb, blocker, adminWrites>>

CleanupPdb ==
  /\ pc = "cleanup" /\ listed = {} /\ at =< Len(Order)
  /\ UNCHANGED <<crVars, present, taints, labelled, place, tolerates,
                 adminWrites>>
  /\ \/ /\ Order[at] \notin Deployed
        /\ NextEntry("cleanup")
        /\ UNCHANGED <<userPdb, blocker, faults>>
     \/ /\ Order[at] \in Deployed
        /\ Goto("cleanupToleration")
        /\ \/ AllowDisruption(Order[at]) /\ UNCHANGED faults
           \/ Fault /\ UNCHANGED <<userPdb, blocker>>

\* Mutant: the patch is forgotten.
CleanupTolerationSkipped ==
  /\ pc = "cleanupToleration"
  /\ NextEntry("cleanup")
  /\ UNCHANGED <<crVars, clusterVars, faults, adminWrites>>

CleanupToleration ==
  /\ pc = "cleanupToleration"
  /\ NextEntry("cleanup")
  /\ \/ tolerates' = tolerates \ {Order[at]} /\ UNCHANGED faults
     \/ Fault /\ UNCHANGED tolerates
  /\ UNCHANGED <<crVars, present, taints, labelled, place, userPdb, blocker,
                 adminWrites>>

ForgetUpgrade ==
  /\ pc = "cleanup" /\ listed = {} /\ at > Len(Order)
  /\ \/ /\ obj = cr
        /\ cr' = UpdateReply([obj EXCEPT !.lastKnown = FALSE])
        /\ Return
        /\ UNCHANGED <<cached, aged, clusterVars, faults, adminWrites>>
     \/ Refused

-----------------------------------------------------------------------------
(* handleAwaitingConfirmationState *)

\* The copy, which may be stale, carries the lastTransitionTime of the last
\* ToAwaiting: a copy that is left over after the timeout has expired too.
HandleAwaiting ==
  /\ pc = "awaiting"
  /\ UNCHANGED <<crVars, clusterVars, faults, adminWrites>>
  /\ \/ aged /\ Goto("toNoUpgrade")
     \/ /\ ~aged
        /\ \/ Cardinality(DetectedVersions) = 2 /\ Goto("initialPdbs")
           \/ Cardinality(DetectedVersions) # 2 /\ Return

ToNoUpgrade ==
  /\ pc = "toNoUpgrade"
  /\ \/ /\ obj = cr
        /\ cr' = [obj EXCEPT !.state = "NoUpgrade"]
        /\ Return
        /\ UNCHANGED <<cached, aged, clusterVars, faults, adminWrites>>
     \/ Refused

\* setInitialPDBState: an error is logged and the next workload is tried.
SetInitialPdb ==
  /\ pc = "initialPdbs" /\ at =< Len(Order)
  /\ NextEntry("initialPdbs")
  /\ UNCHANGED <<crVars, present, taints, labelled, place, tolerates,
                 adminWrites>>
  /\ \/ /\ Order[at] \notin Deployed
        /\ UNCHANGED <<userPdb, blocker, faults>>
     \/ /\ Order[at] \in Deployed
        /\ \/ /\ IF DependsOn[Order[at]] = {} THEN AllowDisruption(Order[at])
                                              ELSE BlockDisruption(Order[at])
              /\ UNCHANGED faults
           \/ Fault /\ UNCHANGED <<userPdb, blocker>>

\* The object in memory once the upgrade is confirmed.
Confirmed == [obj EXCEPT !.state = "UpgradeInProgress", !.lastKnown = TRUE]

\* r.Update: sends the annotation and the new state; the state that comes
\* back in the reply is the old one.
RecordAnnotation ==
  /\ pc = "initialPdbs" /\ at > Len(Order)
  /\ \/ /\ Accepted(UpdateReply(Confirmed))
        /\ pc' = "recordState"
        /\ UNCHANGED <<listed, seen, at, aged, clusterVars, faults,
                       adminWrites>>
     \/ Refused

\* r.Status().Update of the object as the reply left it.
\* Mutant: lastTransitionTime is renewed without a transition.
RecordStateRestamped ==
  /\ pc = "recordState"
  /\ obj = cr /\ cr' = obj
  /\ aged' = FALSE
  /\ Return
  /\ UNCHANGED <<cached, clusterVars, faults, adminWrites>>

RecordState ==
  /\ pc = "recordState"
  /\ \/ /\ obj = cr
        /\ cr' = obj
        /\ Return
        /\ UNCHANGED <<cached, aged, clusterVars, faults, adminWrites>>
     \/ Refused

-----------------------------------------------------------------------------
(* handleUpgradeInProgressState *)

NodesAt(v) == {n \in present : NodeVersion[n] = v}

\* Without exactly two versions the handler does nothing and asks again.
\* Mutant: the state is reset, the target is not.
WaitForVersionsAndLeave ==
  /\ pc = "inProgress"
  /\ Cardinality(DetectedVersions) # 2
  /\ \/ /\ obj = cr
        /\ cr' = [obj EXCEPT !.state = "NoUpgrade"]
        /\ Return
        /\ UNCHANGED <<cached, aged, clusterVars, faults, adminWrites>>
     \/ Refused

\* Mutant: the upgrade is taken to be over, and nothing is cleaned up.
WaitForVersionsAndFinish ==
  /\ pc = "inProgress"
  /\ Cardinality(DetectedVersions) # 2
  /\ \/ /\ obj = cr
        /\ cr' = [obj EXCEPT !.state = "NoUpgrade", !.target = NoVersion]
        /\ Return
        /\ UNCHANGED <<cached, aged, clusterVars, faults, adminWrites>>
     \/ Refused

WaitForVersions ==
  /\ pc = "inProgress"
  /\ Cardinality(DetectedVersions) # 2
  /\ Return
  /\ UNCHANGED <<crVars, clusterVars, faults, adminWrites>>

\* The target is written if it changed; then the target's nodes are listed.
ChooseTarget ==
  /\ pc = "inProgress"
  /\ Cardinality(DetectedVersions) = 2
  /\ \E t \in HighestVersions :
       \/ /\ IF obj.target = t
               THEN UNCHANGED <<cr, cached, obj>>
               ELSE Accepted([obj EXCEPT !.target = t])
          /\ GotoWith("migrate", NodesAt(t))
          /\ UNCHANGED <<aged, clusterVars, faults, adminWrites>>
       \/ obj.target # t /\ Refused

\* prepareNodes: the first failed patch ends the call.
PrepareNode(n) ==
  /\ pc = "migrate"
  /\ n \in listed
  /\ UNCHANGED <<crVars, present, place, tolerates, userPdb, blocker,
                 adminWrites>>
  /\ \/ /\ n \in present
        /\ listed' = listed \ {n}
        /\ seen' = [seen EXCEPT ![n] = {}]
        /\ labelled' = labelled \cup {n}
        /\ taints' = IF Upgrade \in seen[n] THEN taints
                     ELSE [taints EXCEPT ![n] = seen[n] \cup {Upgrade}]
        /\ UNCHANGED <<pc, obj, at, faults>>
     \/ /\ \/ n \notin present /\ UNCHANGED faults
           \/ Fault
        /\ Return
        /\ UNCHANGED <<taints, labelled>>

\* Mutant: the pods' nodes are not compared with the target.
DependenciesScheduled(w) ==
  \A d \in DependsOn[w] : \A p \in PodsOf(d) : place[p] \in present

DependenciesMet(w) == \A d \in DependsOn[w] : WorkloadMigrated(d, obj.target)

Unblock ==
  /\ pc = "migrate" /\ listed = {} /\ at =< Len(Order)
  /\ UNCHANGED <<crVars, present, taints, labelled, place, tolerates,
                 adminWrites>>
  /\ \/ /\ Order[at] \in Deployed /\ DependenciesMet(Order[at])
        /\ AllowDisruption(Order[at])
        /\ Goto("tolerate")
        /\ UNCHANGED faults
     \/ /\ \/ /\ Order[at] \notin Deployed \/ ~DependenciesMet(Order[at])
              /\ UNCHANGED faults
           \/ Fault
        /\ NextEntry("migrate")
        /\ UNCHANGED <<userPdb, blocker>>

\* addTolerationToWorkload
AddToleration ==
  /\ pc = "tolerate"
  /\ NextEntry("migrate")
  /\ \/ tolerates' = tolerates \cup {Order[at]} /\ UNCHANGED faults
     \/ Fault /\ UNCHANGED tolerates
  /\ UNCHANGED <<crVars, present, taints, labelled, place, userPdb, blocker,
                 adminWrites>>

EndOfPass ==
  /\ pc = "migrate" /\ listed = {} /\ at > Len(Order)
  /\ Return
  /\ UNCHANGED <<crVars, clusterVars, faults, adminWrites>>

-----------------------------------------------------------------------------
Controller ==
  \/ Reconcile \/ InitStatus
  \/ HandleNoUpgrade \/ ToAwaiting
  \/ \E n \in Nodes : CleanupNode(n)
  \/ CleanupPdb \/ CleanupToleration \/ ForgetUpgrade
  \/ HandleAwaiting \/ ToNoUpgrade
  \/ SetInitialPdb \/ RecordAnnotation \/ RecordState
  \/ WaitForVersions \/ ChooseTarget
  \/ \E n \in Nodes : PrepareNode(n)
  \/ Unblock \/ AddToleration \/ EndOfPass

\* The process stops and its successor fills its caches anew.
Crash ==
  /\ pc # "idle"
  /\ Fault
  /\ Return
  /\ cached' = cr
  /\ UNCHANGED <<cr, aged, clusterVars, adminWrites>>

CacheSync ==
  /\ cached # cr
  /\ cached' = cr
  /\ UNCHANGED <<cr, aged, clusterVars, controllerVars, faults, adminWrites>>

\* More than UpgradeConfirmationTimeout since the wait began, as long as some
\* copy says that the resource waits.
TimePasses ==
  /\ ~aged
  /\ \E copy \in {cr, cached, obj} :
       copy.state = "AwaitingUpgradeConfirmation"
  /\ aged' = TRUE
  /\ UNCHANGED <<cr, cached, clusterVars, controllerVars, faults, adminWrites>>

\* An administrator edits the status subresource by hand.
AdminSetsState(s) ==
  /\ adminWrites < MaxAdmin
  /\ adminWrites' = adminWrites + 1
  /\ cr.state # s
  /\ cr' = [cr EXCEPT !.state = s]
  /\ UNCHANGED <<cached, aged, clusterVars, controllerVars, faults>>

ClusterChanges == Environment /\ UNCHANGED <<crVars, controllerVars, faults,
                                             adminWrites>>

Next == \/ Controller \/ Crash \/ CacheSync \/ TimePasses \/ ClusterChanges
        \/ \E s \in AdminStates : AdminSetsState(s)

Spec == Init /\ [][Next]_vars

\* The workqueue retries a failed call and requeues the others, the watch
\* delivers every change and time passes: each of them keeps going.
FairSpec == Spec /\ WF_vars(Controller) /\ WF_vars(CacheSync)
                 /\ WF_vars(TimePasses)

-----------------------------------------------------------------------------
(* Properties *)

TypeOK ==
  /\ ClusterTypeOK
  /\ cr \in Resource /\ cached \in Resource /\ aged \in BOOLEAN
  /\ pc \in Handlers /\ obj \in Resource
  /\ listed \subseteq Nodes /\ seen \in [Nodes -> SUBSET Taints]
  /\ at \in 1..Len(Order) + 1
  /\ pc \in {"tolerate", "cleanupToleration"} => at =< Len(Order)
  /\ faults \in 0..MaxFaults /\ adminWrites \in 0..MaxAdmin

\* status.targetVersion is filled in only while the state is
\* UpgradeInProgress, whatever copy of the resource a handler wrote back.
TargetOnlyInProgress ==
  cr.target # NoVersion => cr.state = "UpgradeInProgress"

\* No node is tainted and no workload tolerates the taint outside an upgrade
\* in progress: a handler that acts on a stale copy starts no migration.
MigrationOnlyInProgress ==
  (tolerates # {} \/ \E n \in Nodes : Upgrade \in taints[n])
    => cr.state = "UpgradeInProgress"

\* Why: each handler acts on a copy whose state is the one it handles, and
\* an administrator apart, nothing takes the resource out of
\* UpgradeInProgress; so a copy that says so is right however old it is.
HandledState(h) ==
  CASE h = "initStatus" -> "Unset"
    [] h \in {"noUpgrade", "toAwaiting", "cleanup", "cleanupToleration"}
         -> "NoUpgrade"
    [] h \in {"awaiting", "toNoUpgrade", "initialPdbs", "recordState"}
         -> "AwaitingUpgradeConfirmation"
    [] h \in {"inProgress", "migrate", "tolerate"} -> "UpgradeInProgress"

MigrationInv ==
  /\ pc # "idle" => obj.state = HandledState(pc)
  /\ \A copy \in {obj, cached} :
       copy.state = "UpgradeInProgress" => cr.state = "UpgradeInProgress"
  /\ TargetOnlyInProgress
  /\ MigrationOnlyInProgress

\* The traces of an upgrade: taints, tolerations and blocking PDBs of the
\* workloads that exist.
HeldPdbs == {b \in UserPdbs : userPdb[b] \in {"held", "loosened"}}
Traces ==
  \/ \E n \in present : Upgrade \in taints[n]
  \/ \E w \in Managed \cap Deployed :
       w \in tolerates \cup blocker \/ \E b \in HeldPdbs : w \in Covers[b]

\* The annotation that says an upgrade took place is removed only when the
\* cleanup has left no trace of it.
ForgottenMeansClean == [][cr.lastKnown /\ ~cr'.lastKnown => ~Traces']_vars

\* Why, if no call fails, no user adds a PDB meanwhile and no two PDBs match
\* one workload: the cleanup leaves behind it only entries without a trace,
\* and a workload the operator made a PDB for has no other.
NoTraceOf(w) ==
  w \notin blocker /\ \A b \in HeldPdbs : w \notin Covers[b]

FirstEntry == pc \in {"idle", "initStatus", "noUpgrade"} => at = 1

CleanupInv ==
  /\ FirstEntry
  /\ \A w \in blocker : UserPdbsFor(w) = {}
  /\ pc \in {"cleanup", "cleanupToleration"} =>
       /\ \A n \in present : Upgrade \in taints[n] => n \in listed
       /\ \A i \in 1..at - 1 : Order[i] \in Deployed =>
            NoTraceOf(Order[i]) /\ Order[i] \notin tolerates
  /\ pc = "cleanupToleration" => NoTraceOf(Order[at]) /\ listed = {}

\* A workload migrates after its dependencies: once its pods may enter the
\* target nodes, no pod of a dependency is on a node of another version.
DependenciesFirst ==
  \A w \in tolerates : \A d \in DependsOn[w] : \A p \in PodsOf(d) :
    place[p] \in Nodes => NodeVersion[place[p]] = cr.target

\* Why, in a blue-green upgrade from one version to one other: the target is
\* the newest version, and the old nodes, cordoned since before there was a
\* target, take no pod back.
OrderInv ==
  /\ \A n \in present : n \in InitialNodes \/ Newest(n)
  /\ \A copy \in {cr, cached, obj} : copy.target # NoVersion =>
       /\ cr.target # NoVersion
       /\ \E n \in Nodes : Newest(n) /\ NodeVersion[n] = copy.target
  /\ (cr.target # NoVersion \/ \E n \in present : Newest(n)) =>
       \A m \in present : Newest(m) \/ Cordon \in taints[m]
  /\ \A n \in Nodes : Upgrade \in taints[n] \/ n \in listed => Newest(n)
  /\ pc \in {"migrate", "tolerate"} => obj.target # NoVersion
  /\ tolerates # {} => cr.target # NoVersion
  /\ \A w \in tolerates \cup IF pc = "tolerate" THEN {Order[at]} ELSE {} :
       \A d \in DependsOn[w] : \A p \in PodsOf(d) :
         place[p] \in Nodes => Newest(place[p])

\* An upgrade that is over is cleaned up: if it stays over, the annotation
\* goes away.
OverFromNowOn == /\ cr.state = "NoUpgrade"
                 /\ SingleVersion /\ AllWorkloadsMigrated
CleanupHappens == <>[]OverFromNowOn => <>[]~cr.lastKnown

\* The wait for a confirmation ends: with the timeout if nothing else.
AwaitingEnds == (cr.state = "AwaitingUpgradeConfirmation")
                  ~> (cr.state # "AwaitingUpgradeConfirmation")
=============================================================================

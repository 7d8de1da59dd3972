------------------------------- MODULE Cluster -------------------------------
(***************************************************************************)
(* What the upgrade orchestrator sees and changes of the Kubernetes        *)
(* cluster: nodes and their taints, the pods of the managed workloads, the *)
(* tolerations in the workloads' pod templates and the                     *)
(* PodDisruptionBudgets.  The reads and the PDB writes are translations of *)
(* upgradeorchestrator_controller.go; the actions are the environment      *)
(* (scheduler, node pool, users), modelled from what that code reads.      *)
(***************************************************************************)
EXTENDS Naturals, FiniteSets

CONSTANTS
  Nodes,         \* node names
  Versions,      \* kubelet versions
  NoVersion,     \* the empty string of an unset status.targetVersion
  Rank,          \* semver precedence of a version; build metadata may tie
  NodeVersion,   \* kubelet version a node of this name runs
  InitialNodes,  \* nodes present when the orchestrator is installed
  Workloads,     \* names in spec.deployments and in their dependsOn
  Deployed,      \* those for which a StatefulSet or Deployment exists
  Pods,
  Owner,         \* the workload whose selector matches the pod
  UserPdbs,      \* PDBs written by users, not by the operator
  Covers,        \* workloads whose pod labels match the PDB's selector
  UserActs,      \* what users may do to their PDBs while the operator runs
  BlueGreen      \* TRUE: the old pool is cordoned before the new one joins

Cordon  == "node.kubernetes.io/unschedulable"
Upgrade == "upgrade-orchestrator/status"
Taints  == {Cordon, Upgrade}
Gone    == "gone"       \* no pod object: deleted and not yet recreated
Pending == "pending"    \* a pod whose spec.nodeName is empty

\* Life of a user PDB.  "own": as its user wrote it; "held": blocking, with
\* the original spec saved in its annotation; "loosened": still annotated,
\* but its user has rewritten the spec since.
PdbStates == {"none", "own", "held", "loosened"}

ASSUME ClusterAssumption ==
  /\ NoVersion \notin Versions
  /\ Rank \in [Versions -> Nat]
  /\ NodeVersion \in [Nodes -> Versions]
  /\ InitialNodes \subseteq Nodes
  /\ Deployed \subseteq Workloads
  /\ Owner \in [Pods -> Workloads]
  /\ Covers \in [UserPdbs -> SUBSET Workloads]
  /\ UserActs \subseteq {"create", "delete", "edit"}
  /\ BlueGreen \in BOOLEAN
  /\ {Gone, Pending} \cap Nodes = {}

VARIABLES
  present,     \* nodes that exist
  taints,      \* NoSchedule taints of each node
  labelled,    \* nodes with the upgrade-orchestrator/target-version label
  place,       \* where each pod is: a node name, Pending or Gone
  tolerates,   \* workloads whose pod template tolerates the upgrade taint
  userPdb,     \* state of each user PDB
  blocker      \* workloads that have an upgrade-blocker-<name> PDB

clusterVars == <<present, taints, labelled, place, tolerates, userPdb, blocker>>

ClusterTypeOK ==
  /\ present \subseteq Nodes
  /\ taints \in [Nodes -> SUBSET Taints]
  /\ labelled \subseteq Nodes
  /\ place \in [Pods -> Nodes \cup {Gone, Pending}]
  /\ tolerates \subseteq Workloads
  /\ userPdb \in [UserPdbs -> PdbStates]
  /\ blocker \subseteq Workloads

ClusterInit ==
  /\ present = InitialNodes
  /\ taints = [n \in Nodes |-> {}]
  /\ labelled = {}
  /\ place \in [Pods -> InitialNodes \cup {Gone}]
  /\ \A p \in Pods : place[p] = Gone <=> Owner[p] \notin Deployed
  /\ tolerates = {}
  /\ userPdb \in [UserPdbs -> {"none", "own"}]
  /\ blocker = {}

-----------------------------------------------------------------------------
(* Reads of the controller. *)

DetectedVersions == {NodeVersion[n] : n \in present}

\* Mutant: the comparison is the wrong way round.
LowestVersions ==
  {v \in DetectedVersions : \A u \in DetectedVersions : Rank[v] =< Rank[u]}
\* The versions determineTargetVersion may return: of two versions of equal
\* precedence it takes the one that map iteration happened to put second.
HighestVersions ==
  {v \in DetectedVersions : \A u \in DetectedVersions : Rank[u] =< Rank[v]}

AnyNodeCordoned == \E n \in present : Cordon \in taints[n]

PodsOf(w) == {p \in Pods : Owner[p] = w}

\* A workload that is not there is an error, which both callers treat as
\* "not migrated"; one that has no pods is migrated; a pending pod, and a
\* pod on a node that is gone, are not.
WorkloadMigrated(w, target) ==
  /\ w \in Deployed
  /\ \A p \in PodsOf(w) :
       \/ place[p] = Gone
       \/ place[p] \in present /\ NodeVersion[place[p]] = target

\* User PDBs that findUserManagedPDBForWorkload may return: the first match
\* of a list whose order the informer's cache does not fix.
UserPdbsFor(w) == {b \in UserPdbs : userPdb[b] # "none" /\ w \in Covers[b]}

Annotated(b) == userPdb[b] \in {"held", "loosened"}

-----------------------------------------------------------------------------
(* reconcilePDB: one call, its read and its single write. *)

\* Mutant: the operator's own PDB is never removed.
AllowDisruptionKeepingBlocker(w) ==
  /\ userPdb' = [b \in UserPdbs |-> IF b \in UserPdbsFor(w) /\ Annotated(b)
                                    THEN "own" ELSE userPdb[b]]
  /\ UNCHANGED blocker

\* allowDisruption = true.  Restoring a user PDB returns before the
\* operator's own PDB is looked at.
AllowDisruption(w) ==
  \/ \E b \in UserPdbsFor(w) :
       /\ Annotated(b)
       /\ userPdb' = [userPdb EXCEPT ![b] = "own"]
       /\ UNCHANGED blocker
  \/ /\ \/ UserPdbsFor(w) = {}
        \/ \E b \in UserPdbsFor(w) : ~Annotated(b)
     /\ blocker' = blocker \ {w}
     /\ UNCHANGED userPdb

\* allowDisruption = false.  An annotated PDB is taken to be blocking.
BlockDisruption(w) ==
  \/ \E b \in UserPdbsFor(w) :
       /\ userPdb' = [userPdb EXCEPT ![b] = IF Annotated(b) THEN @ ELSE "held"]
       /\ UNCHANGED blocker
  \/ /\ UserPdbsFor(w) = {}
     /\ blocker' = blocker \cup {w}
     /\ UNCHANGED userPdb

-----------------------------------------------------------------------------
(* The environment. *)

Newest(n) == \A m \in Nodes : Rank[NodeVersion[m]] =< Rank[NodeVersion[n]]

NodeCordoned(n) ==
  /\ n \in present
  /\ Cordon \notin taints[n]
  /\ taints' = [taints EXCEPT ![n] = @ \cup {Cordon}]
  /\ UNCHANGED <<present, labelled, place, tolerates, userPdb, blocker>>

NodeUncordoned(n) ==
  /\ n \in present
  /\ Cordon \in taints[n]
  /\ BlueGreen => Newest(n)
  /\ taints' = [taints EXCEPT ![n] = @ \ {Cordon}]
  /\ UNCHANGED <<present, labelled, place, tolerates, userPdb, blocker>>

NodeJoins(n) ==
  /\ n \notin present
  /\ BlueGreen => /\ Newest(n)
                  /\ \A m \in present : Newest(m) \/ Cordon \in taints[m]
  /\ present' = present \cup {n}
  /\ taints' = [taints EXCEPT ![n] = {}]
  /\ labelled' = labelled \ {n}
  /\ UNCHANGED <<place, tolerates, userPdb, blocker>>

\* A pod may outlive its node until the pod garbage collector stops it.
NodeLeaves(n) ==
  /\ n \in present
  /\ present' = present \ {n}
  /\ taints' = [taints EXCEPT ![n] = {}]
  /\ labelled' = labelled \ {n}
  /\ UNCHANGED <<place, tolerates, userPdb, blocker>>

\* Eviction, a rollout after a template change, or a failure of the pod.
PodStops(p) ==
  /\ place[p] # Gone
  /\ place' = [place EXCEPT ![p] = Gone]
  /\ UNCHANGED <<present, taints, labelled, tolerates, userPdb, blocker>>

PodRecreated(p) ==
  /\ place[p] = Gone
  /\ Owner[p] \in Deployed
  /\ place' = [place EXCEPT ![p] = Pending]
  /\ UNCHANGED <<present, taints, labelled, tolerates, userPdb, blocker>>

\* The scheduler honours the cordon and the upgrade taint.
PodScheduled(p, n) ==
  /\ place[p] = Pending
  /\ n \in present
  /\ Cordon \notin taints[n]
  /\ Upgrade \in taints[n] => Owner[p] \in tolerates
  /\ place' = [place EXCEPT ![p] = n]
  /\ UNCHANGED <<present, taints, labelled, tolerates, userPdb, blocker>>

UserWritesPdb(b) ==
  /\ \/ /\ "create" \in UserActs
        /\ userPdb[b] = "none"
        /\ userPdb' = [userPdb EXCEPT ![b] = "own"]
     \/ /\ "delete" \in UserActs
        /\ userPdb[b] # "none"
        /\ userPdb' = [userPdb EXCEPT ![b] = "none"]
     \/ /\ "edit" \in UserActs
        /\ userPdb[b] = "held"
        /\ userPdb' = [userPdb EXCEPT ![b] = "loosened"]
  /\ UNCHANGED <<present, taints, labelled, place, tolerates, blocker>>

Environment ==
  \/ \E n \in Nodes : \/ NodeCordoned(n)
                      \/ NodeUncordoned(n)
                      \/ NodeJoins(n)
                      \/ NodeLeaves(n)
  \/ \E p \in Pods : PodStops(p) \/ PodRecreated(p)
  \/ \E p \in Pods, n \in Nodes : PodScheduled(p, n)
  \/ \E b \in UserPdbs : UserWritesPdb(b)
=============================================================================

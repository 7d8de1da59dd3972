------------------------ MODULE MCUpgradeOrchestrator ------------------------
(***************************************************************************)
(* Instances of UpgradeOrchestrator for TLC: one old and one new node, a   *)
(* root workload and one that depends on it, one pod each or, in the run   *)
(* that also checks liveness, one pod in all.                              *)
(***************************************************************************)
EXTENDS UpgradeOrchestratorClaims, TLC

MCNodes        == {"old1", "new1"}
MCVersions     == {"v1", "v2"}
MCRank         == ("v1" :> 1) @@ ("v2" :> 2)
MCNodeVersion  == ("old1" :> "v1") @@ ("new1" :> "v2")
MCInitialNodes == {"old1"}
MCWorkloads    == {"data", "master"}
MCOrder        == <<"data", "master">>
MCDependsOn    == ("data" :> {}) @@ ("master" :> {"data"})
MCPods         == {"data-0", "master-0"}
MCOwner        == ("data-0" :> "data") @@ ("master-0" :> "master")
MCOnePod       == {"data-0"}
MCOneOwner     == ("data-0" :> "data")
MCUserPdbs     == {"pdb"}
MCCovers       == ("pdb" :> {"master"})
=============================================================================

SPECIFICATION Spec
CONSTANTS
  Nodes <- MCNodes
  Versions <- MCVersions
  NoVersion = "none"
  Rank <- MCRank
  NodeVersion <- MCNodeVersion
  InitialNodes <- MCInitialNodes
  Workloads <- MCWorkloads
  Deployed <- MCWorkloads
  Pods <- MCPods
  Owner <- MCOwner
  UserPdbs <- MCUserPdbs
  Covers <- MCCovers
  UserActs = {"delete", "edit"}
  BlueGreen = FALSE
  Order <- MCOrder
  DependsOn <- MCDependsOn
  AdminStates = {"UpgradeInProgress", "NoUpgrade"}
  MaxAdmin = 2
  MaxFaults = 0
INVARIANT CleanupInv
PROPERTY ForgottenMeansClean

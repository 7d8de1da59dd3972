SPECIFICATION Spec
CONSTANTS
  Nodes <- MCNodes
  Versions <- MCVersions
  NoVersion = "none"
  Rank <- MCRank
  NodeVersion <- MCNodeVersion
  InitialNodes <- MCInitialNodes
  Workloads <- MCWorkloads
  Deployed <- MCWorkloads
  Pods <- MCPods
  Owner <- MCOwner
  UserPdbs <- MCUserPdbs
  Covers <- MCCovers
  UserActs = {}
  BlueGreen = TRUE
  Order <- MCOrder
  DependsOn <- MCDependsOn
  AdminStates = {"UpgradeInProgress", "NoUpgrade"}
  MaxAdmin = 2
  MaxFaults = 1
INVARIANTS DependenciesFirst OrderInv

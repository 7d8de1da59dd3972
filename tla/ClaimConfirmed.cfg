SPECIFICATION Spec
CONSTANTS
  Nodes <- MCNodes
  Versions <- MCVersions
  NoVersion = "none"
  Rank <- MCRank
  NodeVersion <- MCNodeVersion
  InitialNodes <- MCInitialNodes
  Workloads <- MCWorkloads
  Deployed <- MCWorkloads
  Pods <- MCPods
  Owner <- MCOwner
  UserPdbs <- MCUserPdbs
  Covers <- MCCovers
  UserActs = {}
  BlueGreen = FALSE
  Order <- MCOrder
  DependsOn <- MCDependsOn
  AdminStates = {}
  MaxAdmin = 0
  MaxFaults = 0
PROPERTY ConfirmedUpgradeIsRecorded

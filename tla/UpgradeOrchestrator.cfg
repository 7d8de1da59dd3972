SPECIFICATION FairSpec
CONSTANTS
  Nodes <- MCNodes
  Versions <- MCVersions
  NoVersion = "none"
  Rank <- MCRank
  NodeVersion <- MCNodeVersion
  InitialNodes <- MCInitialNodes
  Workloads <- MCWorkloads
  Deployed <- MCWorkloads
  Pods <- MCOnePod
  Owner <- MCOneOwner
  UserPdbs <- MCUserPdbs
  Covers <- MCCovers
  UserActs = {"create","delete","edit"}
  BlueGreen = FALSE
  Order <- MCOrder
  DependsOn <- MCDependsOn
  AdminStates = {"UpgradeInProgress"}
  MaxAdmin = 1
  MaxFaults = 1
INVARIANTS TypeOK TargetOnlyInProgress MigrationOnlyInProgress MigrationInv
PROPERTIES CleanupHappens AwaitingEnds

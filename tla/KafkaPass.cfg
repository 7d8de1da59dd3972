SPECIFICATION PassSpec
CONSTANTS
  p1 = p1
  p2 = p2
  p3 = p3
  main = main
  init = init
  side = side
  cmFree = cmFree
  cmFixed = cmFixed
  cmGone = cmGone
  cadence = cadence
  free = free
  fixed = fixed
  notes = notes
  hidden = hidden
  nsA = nsA
  nsB = nsB
  None = None
  NoText = ""
  Pods = {p1, p2, p3}
  Containers = {main, init, side}
  Logged = {main, side}
  ConfigMaps = {cmFree, cmFixed, cmGone, cadence}
  Existing = {cmFree, cmFixed, cadence}
  Excluded = {cadence}
  Files = {free, fixed, notes, hidden}
  Yaml = {free, fixed, hidden}
  Scalars = {"", "other", "bss", "cdr", "g", "p", "on", "yes", "9092", "-s", "orders", "v1", "db"}
  Keys <- MCKeys
  Fold <- MCFold
  Rules <- MCRules
  PodOf <- MCPodOf
  Namespace <- MCNamespace
  EnvOf <- MCEnvOf
  MountsOf <- MCMountsOf
  FilesOf <- MCFilesOf
  PodSelector = {"kafka"}
  NamespaceSelector = {"ns"}
  LabelsOf <- MCLabelsOf
  SecretOf <- MCSecretOf
  AddressIn <- MCAddressIn
  PreferredName <- MCPreferredName
  Accounts <- MCAccounts
  Events <- MCEvents
  Documents <- MCDocuments
  Journals <- MCJournals
  Characters <- MCCharacters
  Header = 3
  PageHeader = 2
  SlackCharLimit = 11
  MaxFaults = 1
INVARIANTS TypeOK CountsOccurrences FieldsAreWritten ListIsComplete TenantsAreOneAccounts PagesCover PagesFit
PROPERTY InspectionIsSurvey

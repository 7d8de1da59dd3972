SPECIFICATION FairSpec
CONSTANTS
  a = a
  b = b
  nsA = nsA
  nsB = nsB
  app = app
  envA = envA
  cmA = cmA
  cmB = cmB
  bss = bss
  cdr = cdr
  gA = gA
  gB = gB
  None = None
  Pods = {a, b}
  Names = {app}
  Namespaces = {nsA, nsB}
  Sources = {envA, cmA, cmB}
  Mounted = {cmA, cmB}
  Clusters = {bss, cdr}
  Clients = {gA, gB}
  m1 = m1
  m2 = m2
  Problems = {m1, m2}
  Troubles <- MCTroubles
  NameOf <- MCNameOf
  NamespaceOf <- MCNamespaceOf
  PodOf <- MCPodOf
  ClusterOf <- MCClusterOf
  ClientOf <- MCClientOf
  MaxFaults = 1
  InitialRunning <- MCInitialRunning
  MaxMoves = 1
INVARIANTS TypeOK AnswersFit AnalysedAsAsked SummariesOnce
PROPERTIES ReportFollowsRecord ImplementsSurvey Converges TroubleIsReported

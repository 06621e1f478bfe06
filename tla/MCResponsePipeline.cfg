SPECIFICATION Spec
CONSTANTS
  Threads = {t1, t2}
  web1 = web1
  web2 = web2
  bare = bare
  dns = dns
  NoEvent = NoEvent
  NoPod = NoPod
  NoPolicy = NoPolicy
  Events <- MCEvents
  Pods <- MCPods
  PodNamespace <- MCPodNamespace
  NamePrefix <- MCNamePrefix
  Labels <- MCLabels
  InfraPods = {}
  SystemNamespaces = {"kube-system"}
  ProdNamespaces = {"prod"}
  AutoIsolate = TRUE
  AiEnabled = TRUE
  MaxSize = 1
  MaxSecond = 1
  MaxRestarts = 0
  SuppressThreshold = 75
  DowngradeThreshold = 45
  FallbackThreshold = 35
INVARIANTS
  TypeOK
  IsolationJustified
  OneIsolationPerEvent
  RecordTellsWhatHappened
  CountersAgree
SYMMETRY Symmetry
PROPERTY ImplementsIncidentResponse
CHECK_DEADLOCK FALSE

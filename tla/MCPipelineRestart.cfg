SPECIFICATION FairSpec
CONSTANTS
  Threads = {t1, t2}
  web1 = web1
  web2 = web2
  bare = bare
  dns = dns
  NoEvent = NoEvent
  NoPod = NoPod
  NoPolicy = NoPolicy
  Events <- MCRestarts
  Pods <- MCPods
  PodNamespace <- MCPodNamespace
  NamePrefix <- MCNamePrefix
  Labels <- MCLabels
  InfraPods = {}
  SystemNamespaces = {"kube-system"}
  ProdNamespaces = {"prod"}
  AutoIsolate = TRUE
  AiEnabled = FALSE
  MaxSize = 2
  MaxSecond = 0
  MaxRestarts = 1
  SuppressThreshold = 75
  DowngradeThreshold = 45
  FallbackThreshold = 35
INVARIANTS
  StoredOnceInOrder
  CountersAgree
PROPERTIES
  ImplementsIncidentResponse
  AcceptedEventsEnd
CHECK_DEADLOCK FALSE

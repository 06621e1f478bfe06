SPECIFICATION Spec
CONSTANTS
  Threads = {t1}
  web1 = web1
  web2 = web2
  bare = bare
  dns = dns
  NoEvent = NoEvent
  NoPod = NoPod
  NoPolicy = NoPolicy
  Events <- MCIsolations
  Pods <- MCPods
  PodNamespace <- MCPodNamespace
  NamePrefix <- MCNamePrefix
  Labels <- MCLabels
  InfraPods = {}
  SystemNamespaces = {"kube-system"}
  ProdNamespaces = {"prod"}
  AutoIsolate = TRUE
  AiEnabled = FALSE
  MaxSize = 1
  MaxSecond = 0
  MaxRestarts = 0
  SuppressThreshold = 75
  DowngradeThreshold = 45
  FallbackThreshold = 35
INVARIANT IsolationSelectsItsPod
CHECK_DEADLOCK FALSE

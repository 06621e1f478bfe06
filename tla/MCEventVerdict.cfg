SPECIFICATION VerdictSpec
CONSTANTS
  SuppressThreshold = 75
  DowngradeThreshold = 45
  FallbackThreshold = 35
INVARIANTS
  EvidenceNeverLowers
  NotBelowPriority
  OnlyHostEventsAreSuppressed

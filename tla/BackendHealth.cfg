SPECIFICATION Spec
CONSTANTS
  Windows = {"requests", "errors", "latency"}
  WindowLength = 2
  MaxTime = 7
  Servers = {s1, s2}
  MaxRequests = 2
  MinRequests = 2
  MaxErrorPercent = 50
  Latencies = {3}
  MaxLatency = 3
  MaxDegraded = 2
SYMMETRY Symmetry
VIEW HealthView
INVARIANTS
  WindowIsExact
  NoErrorsNoVerdict
  QuietIsHealthy
CHECK_DEADLOCK FALSE

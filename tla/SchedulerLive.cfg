CONSTANTS
  p1 = p1  p2 = p2  c1 = c1  c2 = c2  c3 = c3  w1 = w1  w2 = w2
  NoPlugin = NoPlugin
  NoTask = NoTask
  Plugins = {p1, p2}
  Background = {p1, p2}
  Callers = {c1, c2}
  Workers = {w1, w2}
  MaxPlugins = 2
  MaxBackground = 1
  EventDepth = 2
  QuarantineFailures = 1
  PendingBound = 2
  BuildKernel = TRUE

SPECIFICATION FairSpec
INVARIANT WorkerOwnsSlot
INVARIANT NoLostWakeup
INVARIANT LimitsKept
PROPERTY CallsReturn
PROPERTY ImplementsFairRegistry

CONSTANTS
  p1 = p1  p2 = p2  c1 = c1  c2 = c2  c3 = c3  w1 = w1  w2 = w2
  NoPlugin = NoPlugin
  NoTask = NoTask
  Plugins = {p1}
  Background = {p1}
  Callers = {c1, c2, c3}
  Workers = {w1, w2}
  MaxPlugins = 1
  MaxBackground = 1
  EventDepth = 1
  QuarantineFailures = 1
  PendingBound = 2
  BuildKernel = FALSE

SPECIFICATION Spec
SYMMETRY TaskSymmetry
INVARIANT OneReaper
INVARIANT SlotKeptForStarter

CONSTANTS
  net = net  ui = ui  c1 = c1  c2 = c2
  Permissions = {net}
  Clients = {c1, c2}
  MaxPending = 1
  MaxStarts = 2
  MaxRequests = 2
  MaxUpdates = 2
  MaxWakeups = 1

SPECIFICATION Spec
CHECK_DEADLOCK FALSE
SYMMETRY ClientSymmetry
INVARIANT RingInv
INVARIANT RefreshReachesPlugin
PROPERTY RevokedResultsWithheld

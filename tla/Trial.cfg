CONSTANTS
  page = page  nas = nas  d1 = d1  d2 = d2
  Permissions = {nas}
  Mutating = {nas}
  Data = {d1, d2}
  MaxVersions = 3

SPECIFICATION Spec
SYMMETRY DataSymmetry
INVARIANT RunsActive
INVARIANT TrialWithheld
PROPERTY RecoveryRestores
PROPERTY ImplementsVersions

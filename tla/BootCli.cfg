CONSTANTS
  x = x  y = y  w1 = w1  w2 = w2  n1 = n1  n2 = n2
  NoImage = NoImage  Partial = Partial  Amp = Amp  Recovery = Recovery
  Images = {x, y}
  Web = {}
  Cli = {n1, n2}
  CliOps = {"stage", "set-active", "request"}
  AmpControl = TRUE
  IoErrors = FALSE
  MaxWrites = 4

SPECIFICATION Spec
SYMMETRY Symmetry
INVARIANT SlotBootsAgain
PROPERTY RunningKept

CONSTANTS
  x = x  y = y  w1 = w1  w2 = w2  n1 = n1  n2 = n2
  NoImage = NoImage  Partial = Partial  Amp = Amp  Recovery = Recovery
  Images = {x, y}
  Web = {w1, w2}
  Cli = {}
  CliOps = {}
  AmpControl = FALSE
  IoErrors = TRUE
  MaxWrites = 6

SPECIFICATION FairSpec
INVARIANT RecordTrue
INVARIANT DoneBootsConfirmed
PROPERTY ImplementsSwitch
PROPERTY ClaimReleased

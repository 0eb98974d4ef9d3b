CONSTANTS
  t1 = t1
  Ids = {t1}
  Horizon = 5
  Jumps = {0, 3}
  MaxMoves = 2
  Duration = 2
  MaxEdits = 3
SPECIFICATION FairSpec
INVARIANT TimeKept
INVARIANT ChimesOnce
PROPERTY Proceeds

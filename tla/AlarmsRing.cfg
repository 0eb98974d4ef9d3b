CONSTANTS
  a1 = a1  a2 = a2
  AlarmIds = {a1}
  Records <- DailyAndOnce
  Horizon = 7
  Jumps = {2, 5}
  MaxMoves = 0
  Day = 3
  Grace = 1
  Ring = 2
  Frame = 4
  MaxRequests = 1
SPECIFICATION AlarmFairSpec
PROPERTY RingEnds

CONSTANTS
  r1 = r1  r2 = r2  t1 = t1  t2 = t2
  Requests = {r1, r2}
  Conversation <- Own
  Remote = {r2}
  Tools = {t1, t2}
  StepLimit = 2
  AcceptLimit = 2
  RecordLimit = 4
  MaxRuns = 2
  MaxBoots = 1
SPECIFICATION FairSpec
INVARIANT RecordSound
INVARIANT EffectsRecorded
PROPERTY FinalStays
PROPERTY NoStepAfterCancel
PROPERTY RunEnds
CHECK_DEADLOCK FALSE

CONSTANTS
  m1 = m1  None = None
  Models = {m1}
  Default = m1
  Parts = 2
  Pieces = 2
  PortDepth = 2
  MaxCalls = 2
  MaxFaults = 1

SPECIFICATION FairSpec
CHECK_DEADLOCK FALSE
INVARIANT AnsweredOnce
INVARIANT CancelObeyed
PROPERTY RefusalsExplained
PROPERTY Settles

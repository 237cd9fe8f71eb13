SPECIFICATION FairSpec
CONSTANTS
  r1 = r1
  r2 = r2
  r3 = r3
  r4 = r4
  r5 = r5
  Request <- Five
  Depth = 2
  MaxRunning = 2
  MayLeave <- OnlyFirst

INVARIANTS
  LineIsSound
PROPERTIES
  NoOvertaking
  WaitersAnswered
  ImplementsPermits

\* The queue stops when every request has been answered.
CHECK_DEADLOCK FALSE

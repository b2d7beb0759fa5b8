SPECIFICATION FairSpec
CONSTANTS
  DayLength = 1
  WeekLength = 2
  OpensAt = 0
  ClosesAt = 1
  Stages = {"DELIVERY", "RETURN"}
  WorkStages = {}
  Target = 1
  Scanners = {s1, s2}
  MaxTime = 3
  MaxRequests = 1
  MaxFailures = 0
  None = None
INVARIANT OneCasePerBreach
PROPERTY OverdueIsReported
CHECK_DEADLOCK FALSE

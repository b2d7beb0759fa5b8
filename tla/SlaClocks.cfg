SPECIFICATION Spec
CONSTANTS
  DayLength = 3
  WeekLength = 2
  OpensAt = 1
  ClosesAt = 3
  Stages = {"LINEHAUL", "DELIVERY"}
  WorkStages = {"DELIVERY"}
  Target = 2
  Scanners = {s1}
  MaxTime = 8
  MaxRequests = 3
  MaxFailures = 1
  None = None
INVARIANT ClockIsFair
PROPERTY ClosingStopsClocks
CHECK_DEADLOCK FALSE

\* As Acquisition.cfg: an audit may find a failure and report nothing.
SPECIFICATION PartsSpec
CONSTANTS
  p1 = p1
  p2 = p2
  Preparers <- MCPreparers
  Names <- MCNames
  Floor <- MCFloor
  Limit = 2
  MaxTreeChanges = 2
  MaxWrites = 3
  MaxEdits = 1
  MaxRunnerChanges = 1
  MaxRuns = 2
  MaxSlips = 2
  ApprovalLife = 4
INVARIANTS
  FailureIsInvalid
CHECK_DEADLOCK FALSE

\* One dossier with up to two slips, and an approval that lasts four steps.  Beside it,
\* each alone, the audit, the reading of the tree, the run of a control, the gate, its
\* runner and the runner's lock.
SPECIFICATION PartsSpec
CONSTANTS
  p1 = p1
  p2 = p2
  Preparers <- MCPreparers
  Names <- MCNames
  Floor <- MCFloor
  Limit = 2
  MaxTreeChanges = 2
  MaxWrites = 3
  MaxEdits = 1
  MaxRunnerChanges = 1
  MaxRuns = 2
  MaxSlips = 2
  ApprovalLife = 4
INVARIANTS
  CountedIsBlind
  RanAsApproved
  PassIsEarned
  AcceptedTreeExisted
  AcceptedIsDemonstrated
  VerdictIsExact
  RunnerIsAuthentic
  ClosureIsExact
CHECK_DEADLOCK FALSE

\* Two processes start, crash and restart both attempts; one proof root may be
\* deleted.
SPECIFICATION FairSpec
CONSTANTS
  p1 = p1
  p2 = p2
  Nobody = Nobody
  Runners <- MCRunners
  MaxDeletions = 1
INVARIANTS
  NoSecondExecution
  CompletionIsBacked
  InvalidIsFinal
PROPERTIES
  AuthorityIsOneShot
  LedgersKeepPromise
  EveryRunEnds

\* As Census.cfg: a chronology may be dated by another source's artifact.
SPECIFICATION PartsSpec
CONSTANTS
  o1 = o1
  o2 = o2
  c1 = c1
  c2 = c2
  small = small
  large = large
  Garbled = Garbled
  Openers <- MCOpeners
  Candidates <- MCCandidates
  Bodies <- MCBodies
  Size <- MCSize
  N = 4
  Corpora <- MCCorpora
  Incidents <- MCIncidents
  Censuses <- MCCensuses
  Ceiling = 4
  NotBefore = 1
  ExpiresAt = 2
  MaxTime = 2
  MaxRetrievals = 3
SYMMETRY MCSymmetry
INVARIANTS
  NoFieldBorrowing
CHECK_DEADLOCK FALSE

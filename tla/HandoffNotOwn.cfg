\* Two cycles beside one append_memory: the handoff a cycle had checked may be another
\* cycle's, and its own never finished.
SPECIFICATION Spec
CONSTANTS
  c1 = c1
  c2 = c2
  a1 = a1
  s1 = s1
  s2 = s2
  Nobody = Nobody
  Cycles <- MCCycles
  Appenders <- MCAppenders
  Sources = {s1}
  FirstSource = s1
  Events <- MCShortEvents
  MaxCommits = 5
  MaxHash = 6
SYMMETRY MCSymmetry
INVARIANTS
  OwnHandoffIsFinished

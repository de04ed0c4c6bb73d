\* One cycle beside one append_memory, torn writes and a person who edits, reverts
\* and commits source and memory.
SPECIFICATION Spec
CONSTANTS
  c1 = c1
  c2 = c2
  a1 = a1
  s1 = s1
  s2 = s2
  Nobody = Nobody
  Cycles <- MCOneCycle
  Appenders <- MCAppenders
  Sources <- MCSources
  FirstSource = s1
  Events <- MCShortEvents
  MaxCommits = 4
  MaxHash = 5
INVARIANTS
  LandedIsSound

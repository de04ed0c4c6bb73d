\* One cycle beside a person who edits and reverts while the plan runs.
SPECIFICATION Spec
CONSTANTS
  c1 = c1
  c2 = c2
  a1 = a1
  s1 = s1
  s2 = s2
  Nobody = Nobody
  Cycles <- MCOneCycle
  Appenders = {}
  Sources <- MCSources
  FirstSource = s1
  Events <- MCShortEvents
  MaxCommits = 4
  MaxHash = 5
INVARIANTS
  ReceiptBindsTestedTree

\* Two cycles interleave on one repository, between them every commit, failure and
\* reset; nobody edits source and nothing else appends.  Beside them, each alone, the
\* rendering of the document and the binding of a preregistration.
SPECIFICATION PartsSpec
CONSTANTS
  c1 = c1
  c2 = c2
  a1 = a1
  s1 = s1
  s2 = s2
  Nobody = Nobody
  Cycles <- MCCycles
  Appenders = {}
  Sources = {s1}
  FirstSource = s1
  Events <- MCShortEvents
  MaxCommits = 5
  MaxHash = 5
  SnapshotChanges = 2
  BindingChanges = 4
SYMMETRY MCSymmetry
INVARIANTS
  LandedIsSound
  HistoryIsAppendOnly
  DocumentIsCurrent
  BindingIsWhole

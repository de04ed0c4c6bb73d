\* Two launches; the repository moves on and the bundle is deleted once.
SPECIFICATION FairSpec
CONSTANTS
  l1 = l1
  l2 = l2
  None = None
  Launches <- MCLaunches
  Controls = 2
  MaxCommits = 2
  MaxDeletions = 1
INVARIANTS
  PublishedIsWhole
  AcceptedIsOneBundle
PROPERTIES
  PublishedIsFinal
  LauncherVouches
  EveryLaunchEnds
CHECK_DEADLOCK FALSE

SPECIFICATION Spec
CONSTANTS
  r1 = r1
  r2 = r2
  Refs = {"main"}
  Runs = {r1}
  Bumps = {"none", "patch", "minor", "major", "stable"}
  Labels = {"no", "rc"}
  FirstVersion <- MCReleased
  Faults = FALSE
  MaxCommits = 3
INVARIANT NoneOnlyCounts

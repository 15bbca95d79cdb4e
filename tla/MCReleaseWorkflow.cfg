SPECIFICATION Spec
CONSTANTS
  r1 = r1
  r2 = r2
  Refs = {"main", "maint"}
  Runs = {r1, r2}
  Bumps = {"patch"}
  Labels = {"no"}
  FirstVersion <- MCFirst
  Faults = TRUE
  MaxCommits = 4
SYMMETRY MCSymmetry
INVARIANT TypeOK
INVARIANT TagsAreOnBranches
PROPERTY TipsOnlyAdvance
PROPERTY KeepsLedger

SPECIFICATION ReadsSpec
CONSTANTS
  MaxCommits = 2
  MaxRanges = 2
INVARIANTS
  SnapshotIsStable

SPECIFICATION Spec
CONSTANTS
  RunIds = {"a", "b"}
  Pollers = {p1}
  Samples = {s1, s2}
  MaxRuns = 1
  Retention = 1
  MinN = 1
  MaxN = 2
  DefaultN = 2
  MaxTime = 2
  MaxRefs = 3
  MaxLen = 2
SYMMETRY Symmetry
INVARIANTS StoreOK LiveRunsAreNewest RepliesAnswerTheirQuestion ResultUnlessEvicted
CHECK_DEADLOCK FALSE

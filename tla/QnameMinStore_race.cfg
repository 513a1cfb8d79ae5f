SPECIFICATION Spec
CONSTANTS
  Clients = {c1, c2}
  Handlers = {h1, h2}
  MaxPerClient = 2
  Retention = 1
  MaxTime = 3
  MaxQueries = 4
SYMMETRY Symmetry
INVARIANTS TypeOK OwnQueryReported ExpiredOnlyBehindFresh
CHECK_DEADLOCK FALSE

SPECIFICATION Spec
CONSTANTS
  t1 = t1
  t2 = t2
  h1 = h1
  h2 = h2
  d1 = d1
  d2 = d2
  c1 = c1
  c2 = c2
  Tokens = {t1, t2}
  Clients = {c1, c2}
  Handlers = {h1}
  DoHHandlers = {}
  Dashboards = {}
  Watches <- NoWatch
  MaxPerToken = 2
  BufferSize = 1
  Retention = 3
  RelatedWindow = 2
  Second = 2
  MaxTime = 6
  MaxEvents = 4
SYMMETRY ClientSymmetry
INVARIANTS TypeOK Bounded OldestFirst RelatedMatchesPrimary
PROPERTIES ImplementsLog
CHECK_DEADLOCK FALSE

SPECIFICATION ServiceSpec
CONSTANTS
  t1 = t1
  t2 = t2
  h1 = h1
  h2 = h2
  d1 = d1
  c1 = c1
  c2 = c2
  Tokens = {t1, t2}
  Clients = {c1}
  Handlers = {h1, h2}
  DoHHandlers = {h2}
  Dashboards = {d1}
  Watches <- BothWatchT1
  MaxPerToken = 2
  BufferSize = 2
  Retention = 1
  RelatedWindow = 1
  Second = 2
  MaxTime = 2
  MaxEvents = 3
  SessionTTL = 1
INVARIANTS SessionIsLatest RowsMatchRecords QuietPageComplete
CHECK_DEADLOCK FALSE

SPECIFICATION LiveSpec
CONSTANTS
  t1 = t1
  t2 = t2
  h1 = h1
  h2 = h2
  d1 = d1
  d2 = d2
  c1 = c1
  c2 = c2
  Tokens = {t1}
  Clients = {c1}
  Handlers = {h1, h2}
  DoHHandlers = {h2}
  Dashboards = {d1, d2}
  Watches <- BothWatchT1
  MaxPerToken = 2
  BufferSize = 1
  Retention = 2
  RelatedWindow = 1
  Second = 1
  MaxTime = 0
  MaxEvents = 2
PROPERTIES EventuallyShown HandlersNeverBlock
CHECK_DEADLOCK FALSE

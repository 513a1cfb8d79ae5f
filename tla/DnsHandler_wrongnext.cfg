SPECIFICATION Spec
CONSTANTS
  h1 = h1
  h2 = h2
  Handlers = {h1}
  Queries <- WrongNextQueries
  SequenceLengths = {1, 8}
  ZoneBytes = 13
  LabelBytes = 12
  RequestId = 7
  HasSigner = TRUE
  PublishCDS = TRUE
  Nameservers <- OneNs
  IPv4s = 1
  IPv6s = 1
  HostnameBytes = 11
INVARIANTS WrongNextSent
CHECK_DEADLOCK FALSE

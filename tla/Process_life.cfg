SPECIFICATION FairSpec
CONSTANTS
  Zero = Zero
  Malformed = Malformed
  InterfaceIPs = {}
  Machines <- SixMachines
  Certs = {c1, c2, c3, c4}
  Lifetime = 2
  MaxFaults = 1
  MaxObtains = 1
INVARIANTS ReadersAndWriterApart OneCertificate ServingIsComplete
PROPERTIES StaysWhole DueIsRenewed Recovers
CHECK_DEADLOCK FALSE

SPECIFICATION Spec
CONSTANTS
  Zero = Zero
  Malformed = Malformed
  InterfaceIPs <- TwoInterfaces
  Inputs <- AllInputs
INVARIANTS HighestLayerWins SocketsApart AdvertisedIsServed
PROPERTIES NothingTakenBack
CHECK_DEADLOCK FALSE

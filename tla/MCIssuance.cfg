SPECIFICATION Spec
CONSTANTS
  Root = "root"
  Nowhere = "nowhere"
  None = None
  Claims <- MCClaims
  Parent <- MCParent
  Shape <- MCShape
  Requests <- MCRequests
  PadTos = {None, 1, 2}
  Decoys = {"decoy1", "decoy2"}
  MaxDepth = 5
INVARIANTS TypeOK ClosedPresentationsVerify RoundTrip EveryHashOpens SlotsHideCount
CHECK_DEADLOCK FALSE

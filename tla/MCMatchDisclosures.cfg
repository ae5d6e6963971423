SPECIFICATION Spec
CONSTANTS
  Root = "payload"
  Nodes <- MCNodes
  Digests <- MCDigests
  Form <- MCForm
  Key <- MCKey
  Value <- MCValue
  Hashes <- MCHashes
  Tagged <- MCTagged
  Clear <- MCClear
  Parents <- MCParents
INVARIANTS TypeOK VerdictIsExact ResultIsReachable ClosedSelectionsPass
CHECK_DEADLOCK FALSE

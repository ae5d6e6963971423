SPECIFICATION Spec
CONSTANTS
  Submissions = {s1}
  MaxSeqno = 1
  MaxMsrcRestarts = 1
  MaxScittRestarts = 1
  None = None
  Root = "payload"
  Nodes <- MCNodes
  Digests <- MCDigests
  Form <- MCForm
  Key <- MCKey
  Value <- MCValue
  Hashes <- MCHashes
  Tagged <- MCTagged
  Clear <- MCClear
  Issued <- MCIssued
  FieldKeys = {1001}
  BodyKey = 1002
  ReferencesKey = 1006
  HiddenKeys = {1000}
  Selections <- MCSelections
  Audiences <- MCAudiences
  Trim <- MCTrim
  Blank = ""
  Services = {TRUE, FALSE}
  MaxAge = 2
  MaxAhead = 1
  Lifetime = 2
  Backdate = 1
  Skews <- MCSkews
  MaxTime = 2
INVARIANTS TypeOK HonestDisclosureVerifies ReportNeedsTrust ValidMeansPresented ValidIsFresh
CHECK_DEADLOCK FALSE

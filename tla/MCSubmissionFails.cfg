SPECIFICATION Spec
CONSTANTS
  Submissions = {s1, s2}
  MaxSeqno = 2
  MaxMsrcRestarts = 0
  MaxScittRestarts = 0
  None = None
  Merkle = FALSE
  Faulty = FALSE
  MaxAttempts = 2
SYMMETRY Symmetry
INVARIANTS FailedMeansNotSubmitted

SPECIFICATION FairSpec
CONSTANTS
  Submissions = {s1, s2}
  MaxSeqno = 2
  MaxMsrcRestarts = 1
  MaxScittRestarts = 0
  None = None
  Merkle = TRUE
  Faulty = TRUE
  MaxAttempts = 2
INVARIANTS InboxIsUsable DisclosuresFollowVerification EntriesAreReceipted
PROPERTIES SubmissionEnds

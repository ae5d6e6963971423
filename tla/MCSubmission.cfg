SPECIFICATION Spec
CONSTANTS
  Submissions = {s1, s2}
  MaxSeqno = 2
  MaxMsrcRestarts = 1
  MaxScittRestarts = 1
  None = None
  Merkle = FALSE
  Faulty = FALSE
  MaxAttempts = 2
SYMMETRY Symmetry
INVARIANTS TypeOK ReceiptsAreUnique LedgerMatchesReceipts CompletionIsTrue TransactionsDoNotCross
PROPERTIES ImplementsGate LedgerIsAppendOnly

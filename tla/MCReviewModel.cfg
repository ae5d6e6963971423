SPECIFICATION FairSpec
CONSTANTS
  f1 = f1
  f2 = f2
  Files <- MCFiles
  ChoiceIds <- MCChoiceIds
  ChoicesOf <- MCChoicesOf
  Disabled <- MCDisabled
  Kind <- MCKind
  Audiences <- MCAudiences
  Trim <- MCTrim
  Blank = ""
  NoReport = NoReport
  NoToken = NoToken
  MaxRevision = 6
INVARIANTS TypeOK ExportIsCurrent NewestImportWins WaitsForOneAnswer
PROPERTIES ChangesTakeARevision SignsAtomically RequestsEnd
CHECK_DEADLOCK FALSE

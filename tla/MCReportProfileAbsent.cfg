SPECIFICATION Spec
CONSTANTS
  None = None
  Padding = Padding
  Body = "body"
  References = "references"
  ChunkSize = 2
  HexStrings = {"f59f"}
  Names <- MCNames
  Kind <- MCKind
  Type <- MCType
  Reports <- MCReports
INVARIANTS AbsentIsNotShown
CHECK_DEADLOCK FALSE

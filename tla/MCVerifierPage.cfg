SPECIFICATION Spec
CONSTANTS
  f = f
  g = g
  Files = {f, g}
  Audiences = {"a", "b"}
  MaxEvents = 6
  None = None
INVARIANTS TypeOK ResultsAreOfInputs CanVerifyAgain
CHECK_DEADLOCK FALSE

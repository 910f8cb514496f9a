CONSTANTS
  Calls = {c1, c2}
  Clis = {"claude", "gemini"}
  Outputs <- MCOutputs
  Size <- MoreErrors
  Room = 1
  MaxTries = 2
  Left <- TwoLeft
SPECIFICATION Spec
SYMMETRY Alike
\* Each call is made once.
CHECK_DEADLOCK FALSE
INVARIANTS
  CallsCleanUp
  AnswersAreWhole
  MeteredStops

SPECIFICATION Spec
CONSTANTS
  q1 = q1
  q2 = q2
  q3 = q3
  v = v
  w = w
  z = z
  long = long
  Packs <- MCPacks
  Inputs <- MCInputs
  Trees <- MCTrees
  Registry <- MCRegistry
  Actions <- MCActions
  Null <- MCNull
  Blank = Blank
  TooLong = long
INVARIANTS
  QuestionsExact
  DatesExact
  DeadlinesExact
CHECK_DEADLOCK FALSE

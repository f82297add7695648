CONSTANTS
  r1 = r1
  r2 = r2
  Runs = {r1, r2}
  Live = {r1}
  MaxEdits = 1
SPECIFICATION FairSpec
INVARIANTS LinesSound LifeInOrder LogAgrees
PROPERTIES AppendOnly RunsEnd
\* Every run ends.
CHECK_DEADLOCK FALSE

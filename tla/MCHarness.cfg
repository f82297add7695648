CONSTANTS
  s1 = s1
  s2 = s2
  Sessions = {s1, s2}
  Casts <- MCCasts
  Plan <- MCPlan
  Live = {s1}
  MaxChanges = 2
SPECIFICATION FairSpec
INVARIANT PassedIsEarned
PROPERTY SessionsEnd
\* Every session ends.
CHECK_DEADLOCK FALSE

CONSTANTS
  f = f
  g = g
  h = h
  Flags = {f, g, h}
  N = 3
  RuleSpace <- MCRuleSpace
SPECIFICATION FairDerivation
INVARIANTS LeastFixedPoint TraceReplays
PROPERTY Terminates
\* The function returns.
CHECK_DEADLOCK FALSE

CONSTANTS
  d = d
  df = df
  n = n
  nx = nx
  r = r
  ry = ry
  OutputPaths = {d, df, n, nx, r, ry}
  Above <- MCAbove
  Reserved = {n, nx}
  N = 3
  ClaimSpace <- MCClaims
SPECIFICATION PlanSpec
INVARIANTS CompileExact PlanExact PlanFits
\* The work ends with a verdict.
CHECK_DEADLOCK FALSE

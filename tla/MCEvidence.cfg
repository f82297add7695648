CONSTANTS
  a = a
  b = b
  r = r
  f = f
  g = g
  role = role
  ok = ok
  bad = bad
  d = d
  dx = dx
  dy = dy
  e = e
  AnyRole = AnyRole
  Flags = {f, g}
  Actions = {a, b}
  Articles = {r}
  Roles = {role}
  Outcomes = {ok, bad}
  Paths = {d, dx, e}
  Files = {dx, dy, e}
  Within <- MCWithin
  Packs <- MCPacks
SPECIFICATION Spec
INVARIANTS AttributionsAgree CiExact SealExact CiSeals
\* The work ends with a verdict.
CHECK_DEADLOCK FALSE

SPECIFICATION Spec
CONSTANTS
  man = man
  r1 = r1
  r2 = r2
  prof = prof
  node = node
  part = part
  readme = readme
  lic = lic
  x = x
  y = y
  none = none
  Files <- MCFiles
  Manifest = man
  Templates <- MCTemplates
  Jinja <- MCJinja
  CoreDocs = {readme}
  Sections = {"rules", "profiles"}
  Required = {"rules"}
  Law = {"rules"}
  Profiles = {"profiles"}
  Contents <- MCContents
  Packs <- MCPacks
  Absent <- MCAbsent
  Link <- MCLink
  None = none
  MaxEdits = 2
INVARIANTS
  VerdictExact
  HashCoversUse
  RendersFromCapture
CHECK_DEADLOCK FALSE

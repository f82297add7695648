CONSTANTS
  s1 = s1
  s2 = s2
  s3 = s3
  z1 = z1
  z2 = z2
  Sealers = {s1, s2}
  Signing = {s1}
  Strict = {s1}
  Live = {}
  Zips = {z1}
  Target <- SharedTarget
  NoZip = NoZip
  Metadata = {m}
  Evidence = {e}
  m = m
  e = e
  MaxForeign = 2
SPECIFICATION Spec
INVARIANTS ZipFaithful SealCertifies
PROPERTY NeverReplaces
\* Every sealer ends.
CHECK_DEADLOCK FALSE

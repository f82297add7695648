CONSTANTS
  s1 = s1
  s2 = s2
  s3 = s3
  z1 = z1
  z2 = z2
  Sealers = {s1, s2, s3}
  Signing = {s1, s2}
  Strict = {s1, s3}
  Live = {s1}
  Zips = {z1, z2}
  Target <- OwnTarget
  NoZip = NoZip
  Metadata = {m}
  Evidence = {e}
  m = m
  e = e
  MaxForeign = 0
SPECIFICATION FairSpec
INVARIANTS SuccessComplete FailuresExplained
PROPERTY SealsEnd
\* Every sealer ends.
CHECK_DEADLOCK FALSE

CONSTANTS
  e1 = e1
  e2 = e2
  a1 = a1
  m = m
  p = p
  x = x
  Writers = {e1, e2, a1}
  Exporters = {e1, e2}
  Live = {e1}
  Paths = {m, p, x}
  Inventory = {m, p}
  RequiredMetadata = {m}
  Foreign = Foreign
  Nobody = Nobody
  MaxForeign = 1
SPECIFICATION FairSpec
INVARIANTS StagingExclusive PublishedIntact NoLeftovers
PROPERTIES Refines CallsEnd
\* Every invocation ends.
CHECK_DEADLOCK FALSE

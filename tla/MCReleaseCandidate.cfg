CONSTANTS
  b1 = b1
  v1 = v1
  PYTHONS <- MCPythons
  FullPython = "3.12"
  Artifacts <- MCArtifacts
  Preparers = {b1}
  Verifiers = {v1}
  MaxChanges = 2
SPECIFICATION Spec
INVARIANTS CandidateBound RejectsWithReason DescribedSources
\* Every invocation ends.
CHECK_DEADLOCK FALSE

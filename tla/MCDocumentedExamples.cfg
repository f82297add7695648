CONSTANTS
  Documents <- MCDocuments
  Blocks <- MCBlocks
  MaxEdits = 2
SPECIFICATION FairExamples
INVARIANT PassedIsComplete
INVARIANT PassedOnRecordedSources
PROPERTY RunEnds
\* A run ends.
CHECK_DEADLOCK FALSE

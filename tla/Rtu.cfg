\* Answers that are late, cut in two, exceptions, taken for others and left in
\* the buffer, for ever or not; a data point that kills the thread.
SPECIFICATION FairSpec
CONSTANTS
  Maps <- TwoSlaves
  MaxInput = 3
INVARIANTS
  TypeOK
  FiledRight
  CleanAnswerCounts
PROPERTIES
  ReportsInTurn
  EverySlaveReported

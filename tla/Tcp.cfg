\* Three slaves, nine register groups.
CONSTANT Maps <- ThreeSlaves
SPECIFICATION FairSpec
INVARIANTS
  TypeOK
  FiledUnderItsSlave
  NoMadeUpValues
PROPERTIES
  LateAnswersEnd
  ReportsInTurn
  EverySlaveReported
  ReadingsResume

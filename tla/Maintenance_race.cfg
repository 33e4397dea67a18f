\* A listed file that the compression thread removes before metadata() is
\* called on it.
SPECIFICATION Spec
CONSTANTS
  Rows = {}
  Backups = {b1}
  MsgTtl = 1
  BackupTtl = 1
  MaxQueue = 2
  MaxBack = 0
PROPERTIES
  SchedulerSurvives

\* The wall clock is set back once.
SPECIFICATION Spec
CONSTANTS
  Rows = {r1}
  Backups = {b1}
  MsgTtl = 1
  BackupTtl = 1
  MaxQueue = 2
  MaxBack = 1
PROPERTIES
  KeepsFreshRows

\* Two backups, so that a copy can be cleaned up while the next one is made
\* and named; a row that ages past messages_ttl in the queue or in the table.
SPECIFICATION Spec
CONSTANTS
  Rows = {r1}
  Backups = {b1, b2}
  MsgTtl = 1
  BackupTtl = 1
  MaxQueue = 3
  MaxBack = 0
INVARIANTS
  TypeOK
  TruncatedBeforeBackup
  NoStrayCopies
  BackupKeepsItsFile
PROPERTIES
  KeepsFreshRows
  KeepsFreshCopies

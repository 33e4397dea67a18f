\* One row and one backup name: the row and the copies age out, come back
\* and age out again, with crashes and restarts at every point and the wall
\* clock set back once.
SPECIFICATION FairSpec
CONSTANTS
  Rows = {r1}
  Backups = {b1}
  MsgTtl = 0
  BackupTtl = 1
  MaxQueue = 2
  MaxBack = 1
PROPERTIES
  ExpiredRowsGo
  ExpiredCopiesGo

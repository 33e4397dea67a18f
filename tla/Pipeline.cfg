\* Two messages, a scheduler command and a restart: a message can be in every
\* stage while another one is ahead of it, and the storage thread can die with
\* work queued on both sides of the crash.
SPECIFICATION FairSpec
CONSTANTS
  MaxSent = 2
  MaxJobs = 1
  MaxRestarts = 1
INVARIANTS
  TypeOK
  NoMessageVanishes
  StorageOfferedFirst
PROPERTIES
  DeliversInOrder
  StoreProgress
  PublishProgress

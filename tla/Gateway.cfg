\* Two channel definitions with three slaves; one message, one command of the
\* scheduler and one restart: each thread can be anywhere while main starts up.
SPECIFICATION FairSpec
CONSTANTS
  Channels <- TwoChannels
  MaxSent = 1
  MaxJobs = 1
  MaxRestarts = 1
INVARIANTS
  TypeOK
  StartsWhatItCan
PROPERTIES
  ImplementsPipeline
  StorageDeathEndsProcess

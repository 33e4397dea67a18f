\* What the log line of storage.rs:132 says against what a failed INSERT or
\* a rolled-back commit does.
SPECIFICATION Spec
CONSTANTS
  MaxSent = 1
  MaxJobs = 0
  MaxRestarts = 0
INVARIANTS
  LoggedWrittenIsStored

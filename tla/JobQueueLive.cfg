\* One process with one loop and two accounts whose syncs the scheduler files,
\* the first one included; one of them ages once.  An outage, a crash or lost
\* statement, or a stop, and restarts.
SPECIFICATION FairSpec
CONSTANTS
  NoJob = NoJob
  NoInfo = NoInfo
  Accounts = {a1, a2}
  Jobs <- MCJobs4
  Procs = {p1}
  Embedded = {}
  Concurrency = 1
  MaxApiJobs = 0
  MaxTicks = 1
  MaxOutages = 1
  MaxFaults = 1
  MaxStops = 1
  MaxMishaps = 1
  MaxOrphans = 0
PROPERTIES
  JobsStart
  JobsFinish
  AccountsStaySynced
CHECK_DEADLOCK FALSE

\* The worker is restarted once, as an upgrade does: the periodic sync of an
\* account can stop for good.
SPECIFICATION FairSpec
CONSTANTS
  NoJob = NoJob
  NoInfo = NoInfo
  Accounts = {a1}
  Jobs <- MCJobs5
  Procs = {p1}
  Embedded = {}
  Concurrency = 1
  MaxApiJobs = 1
  MaxTicks = 1
  MaxOutages = 0
  MaxFaults = 0
  MaxStops = 1
  MaxMishaps = 1
  MaxOrphans = 0
PROPERTY
  StaleIsSynced
CHECK_DEADLOCK FALSE

\* Two worker processes share the queue with the API; an account ages once.
\* One crash or lost statement, one requested stop, and one statement that
\* outlives the process that sent it.
SPECIFICATION Spec
CONSTANTS
  NoJob = NoJob
  NoInfo = NoInfo
  Accounts = {a1}
  Jobs <- MCJobs2
  Procs = {p1, p2}
  Embedded = {p1, p2}
  Concurrency = 1
  MaxApiJobs = 1
  MaxTicks = 1
  MaxOutages = 0
  MaxFaults = 1
  MaxStops = 1
  MaxMishaps = 2
  MaxOrphans = 1
INVARIANTS
  TypeOK
  OneLoopPerJob
  StartedOnce
  RunningIsOwned
  OneScheduledSync
  StartInOrder
PROPERTIES
  FinishedIsFinal
  JobContract
CHECK_DEADLOCK FALSE

\* Two loops: a sync overlaps a create job on the same account.
SPECIFICATION Spec
CONSTANTS
  u1 = u1
  u2 = u2
  a1 = a1
  a2 = a2
  l1 = l1
  l2 = l2
  nouser = nouser
  nojob = nojob
  norow = norow
  NoUser = nouser
  NoJob = nojob
  NoRow = norow
  Users <- OneUser
  Accounts <- OneAccount
  Loops <- TwoLoops
  Requests <- SyncAndCreate
  Quota = 2
  PageSize = 1
  MaxDroplets = 1
  MaxJobs = 1
  MaxOutages = 0
  MaxCrashes = 0
  MaxTransfers = 0
  MaxUnlinks = 0
  MaxConsole = 0
PROPERTIES
  CredentialKept
CHECK_DEADLOCK FALSE

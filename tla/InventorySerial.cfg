\* One loop, jobs of every kind on one account whose listing has a page for
\* every droplet; a failing call, a crash, a transfer, an unlinking and a
\* droplet destroyed in the console.
SPECIFICATION FairSpec
CONSTANTS
  u1 = u1
  u2 = u2
  a1 = a1
  a2 = a2
  l1 = l1
  l2 = l2
  nouser = nouser
  nojob = nojob
  norow = norow
  NoUser = nouser
  NoJob = nojob
  NoRow = norow
  Users <- TwoUsers
  Accounts <- OneAccount
  Loops <- OneLoop
  Requests <- AllKinds
  Quota = 2
  PageSize = 1
  MaxDroplets = 2
  MaxJobs = 2
  MaxOutages = 1
  MaxCrashes = 1
  MaxTransfers = 1
  MaxUnlinks = 1
  MaxConsole = 1
INVARIANTS
  TypeOK
  ActiveIsCurrent
  SuccessIsTrue
PROPERTIES
  SyncsSpare
  InventoryConverges
CHECK_DEADLOCK FALSE

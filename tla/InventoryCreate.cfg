\* Two loops with create jobs only, on two accounts of one user whose quota is
\* half of what the accounts have room for; listings have one page.
SPECIFICATION Spec
CONSTANTS
  u1 = u1
  u2 = u2
  a1 = a1
  a2 = a2
  l1 = l1
  l2 = l2
  nouser = nouser
  nojob = nojob
  norow = norow
  NoUser = nouser
  NoJob = nojob
  NoRow = norow
  Users <- OneUser
  Accounts <- TwoAccounts
  Loops <- TwoLoops
  Requests <- Creates
  Quota = 2
  PageSize = 2
  MaxDroplets = 2
  MaxJobs = 3
  MaxOutages = 0
  MaxCrashes = 1
  MaxTransfers = 0
  MaxUnlinks = 0
  MaxConsole = 1
INVARIANTS
  QuotaHeld
  SuccessIsTrue
PROPERTIES
  CredentialKept
CHECK_DEADLOCK FALSE

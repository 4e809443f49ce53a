\* Two administrators' changes may overlap once.
SPECIFICATION Spec
CONSTANTS
  root = root
  guest = guest
  s1 = s1
  s2 = s2
  r1 = r1
  r2 = r2
  NoRow = NoRow
  NoSession = NoSession
  NoRequest = NoRequest
  Users <- TwoUsers
  Sessions <- TwoSessions
  Requests <- TwoRequests
  FirstAdmin = root
  Changes <- SomeChanges
  MaxResets = 0
  MaxOverlaps = 1
SYMMETRY Interchangeable
INVARIANTS
  LastAdminKept
CHECK_DEADLOCK FALSE

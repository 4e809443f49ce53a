\* Two requests side by side, one kind of which may conflict; an administrator
\* and a visitor who registers.
SPECIFICATION Spec
CONSTANTS
  root = root
  guest = guest
  s1 = s1
  s2 = s2
  r1 = r1
  r2 = r2
  NoRow = NoRow
  NoSession = NoSession
  NoRequest = NoRequest
  Users <- TwoUsers
  Sessions <- TwoSessions
  Requests <- TwoRequests
  FirstAdmin = root
  Changes <- SomeChanges
  MaxResets = 1
  MaxOverlaps = 1
SYMMETRY Interchangeable
INVARIANTS
  TypeOK
  AdminRemains
  SessionsMatchPassword
PROPERTIES
  DisabledStaysOut
CHECK_DEADLOCK FALSE

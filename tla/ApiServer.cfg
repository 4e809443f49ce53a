\* A rolling upgrade, a limited route and saves of settings that overlap.
SPECIFICATION Spec
CONSTANTS
  api = api
  worker = worker
  r1 = r1
  r2 = r2
  keep = keep
  new = new
  none = none
  Installed = Installed
  NoSecret = NoSecret
  NoSave = NoSave
  Processes <- TwoProcesses
  Release <- Releases
  MaxDeaths = 1
  Servers <- OneServer
  Limit = 2
  Window = 1
  MaxClock = 3
  MaxAttempts = 4
  Saves <- TwoSaves
  KeyOrder <- SomeKeys
  Pages <- SomePages
  Password <- PagePassword
  MaxSaves = 2
  MaxFailures = 1
  Host <- OnApi
INVARIANTS
  TypeOK
  ServesOnSchema
  SchemaIsRecorded
  AdmissionsBounded
  SavedIsWhole
  SecretMatchesHost
PROPERTIES
  RefusalsJustified
  StaysUp
CHECK_DEADLOCK FALSE

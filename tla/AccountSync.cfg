\* Two loops sync one account, three disturbances.
SPECIFICATION Spec
CONSTANTS
  l1 = l1
  l2 = l2
  d1 = d1
  d2 = d2
  d3 = d3
  ann = ann
  bob = bob
  old = old
  new = new
  foreign = foreign
  NoRow = NoRow
  NoToken = NoToken
  Loops <- TwoLoops
  Droplets <- ThreeDroplets
  Users <- TwoUsers
  Tokens <- ThreeTokens
  TeamTokens <- OurTokens
  FirstToken = old
  FirstOwner = ann
  FirstCloud <- TwoDroplets
  PageSize = 1
  MaxEvents = 3
INVARIANTS
  TypeOK
  VerdictIsAboutToken
PROPERTIES
  RowsSurvive
  StatusConverges
  RowsConverge

\* One connection more than loops.
SPECIFICATION FairSpec
CONSTANTS
  NoConn = NoConn
  NoKey = NoKey
  Loops = {l1, l2}
  Handlers = {h1}
  Conns = {c1, c2, c3}
  Keys = {k1, k2}
  MaxStatements = 2
INVARIANTS
  TypeOK
  NotStuck
PROPERTY
  LoopsReturn

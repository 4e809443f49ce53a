\* As many loops as connections, as WORKER_CONCURRENCY above 20 gives.
SPECIFICATION Spec
CONSTANTS
  NoConn = NoConn
  NoKey = NoKey
  Loops = {l1, l2}
  Handlers = {h1}
  Conns = {c1, c2}
  Keys = {k1, k2}
  MaxStatements = 2
SYMMETRY PoolSymmetry
INVARIANT
  NotStuck

CONSTANTS
  Threads = {p, q}
  Txs = {x, y, z}
  TVars = {u, v}
  MaxOps = 3
  MaxMarks = 2
  AwaitInTx = FALSE
SPECIFICATION Spec
INVARIANTS TypeOK NoMarkFault
PROPERTY RunsAsOneStep
CHECK_DEADLOCK FALSE
SYMMETRY Symmetry

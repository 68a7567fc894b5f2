CONSTANTS
  Threads = {p, q}
  Txs = {x, y}
  TVars = {u, v}
  MaxOps = 3
  MaxMarks = 1
  AwaitInTx = TRUE
SPECIFICATION Spec
PROPERTY RunsAsOneStep
CHECK_DEADLOCK FALSE
SYMMETRY Symmetry

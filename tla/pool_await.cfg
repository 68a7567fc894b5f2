CONSTANTS
  NThreads = 2
  Tasks = {a, b, c}
  IoTasks = {b, c}
  None = None
  Wrap = 16
  ForkJoin = FALSE
  SpuriousWakes = FALSE
SPECIFICATION Spec
INVARIANT PoolNotStuck
CHECK_DEADLOCK FALSE

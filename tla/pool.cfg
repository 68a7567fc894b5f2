CONSTANTS
  NThreads = 2
  Tasks = {a, b, c}
  IoTasks = {b, c}
  None = None
  Wrap = 16
  ForkJoin = TRUE
  SpuriousWakes = TRUE
SPECIFICATION FairSpec
INVARIANTS TypeOK AtMostOnce NoLostWakeup QueuedCounts ExitAfterIo PoolNotStuck
PROPERTY MainExits
CHECK_DEADLOCK FALSE

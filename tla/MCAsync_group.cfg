CONSTANTS
  Tasks = {main, a, b}
  Main = main
  None = None
  Caps <- MCCaps
  MaxChans = 1
  MaxMsgs = 2
  PollFails = TRUE
SPECIFICATION FairSpec
INVARIANTS TypeOK ChannelFifo ParkedForCause OnePlace DeliveredOnce EndsBlocked
PROPERTY ReadyRuns
CHECK_DEADLOCK FALSE

SPECIFICATION ScheduledSpec
CONSTANTS
  Conn = {c1, c2, c3}
  None = None
  MaxClients = 2
  Transport = "tcp"
  Reconnects = FALSE
  MaxFaults = 1
CHECK_DEADLOCK FALSE
INVARIANTS
  SlotPerWorker
  DescriptorsOwned
  CleanReturn
  MutexOutlivesWorkers
  AdmittedWhenRoom
PROPERTIES
  ShutdownWaitsForCommands
  OthersServed

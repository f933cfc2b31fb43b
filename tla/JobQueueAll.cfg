SPECIFICATION Spec
CONSTANTS
  a = a  b = b  c = c  u = u  v = v
  NoJob = NoJob
  Jobs <- ThreeJobs
  Handled <- WithHandler
  Waiters <- TwoClients
  CanStop = TRUE
INVARIANTS NoLostWakeup RegistryExact RepliesAreFinal CancelHonoured GaugeExact
PROPERTIES JobsSettle WaitersAnswered Implements
CHECK_DEADLOCK FALSE

SPECIFICATION FairSpec
CONSTANTS
  Hosts = {h1}
  Workers = {hw, w1}
  HostWorker = hw
  MaxRegisters = 2
  NoWorker = NoWorker
  NoHost = NoHost
INVARIANTS
  TypeOK
  CurrentIsServed
  ServingIsCurrent
  SignalIsReceived
  RetiredIsDisconnected
  EarlySessionIsKept
PROPERTIES
  ReconcileEnds
  RetiredIsClosed
\* the operator may have stopped, and Register calls are bounded
CHECK_DEADLOCK FALSE

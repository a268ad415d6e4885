CONSTANTS
  Registers = {alice}
  Checks = {check}
  Sockets = {socket}
  PoolSize = 1
  MaxSignals = 1
SPECIFICATION FairSpec
INVARIANTS TypeOK GracefulShutdown
PROPERTIES ImplementsService SignalEndsProcess RequestsEnd

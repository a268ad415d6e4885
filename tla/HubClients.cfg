CONSTANTS
  Clients = {c1, c2}
  Emitters = {e1}
  NoClient = NoClient
  SendBuf = 1
SPECIFICATION FairSpec
INVARIANTS TypeOK NoPanic NobodySkipped
PROPERTIES ImplementsMailboxes UnregisteredForGood BroadcastReturns GonePeerIsReleased

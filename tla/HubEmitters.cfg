CONSTANTS
  Clients = {c1}
  Emitters = {e1, e2}
  NoClient = NoClient
  SendBuf = 2
SPECIFICATION FairSpec
INVARIANTS FramesInOrder 
PROPERTIES QueuedFrameArrives

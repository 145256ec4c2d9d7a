CONSTANTS
  None = None
  Conns <- MCConns
  PeerOf <- MCPeerOf
  DirOf <- MCDirOf
  MaxInbound = 1
  MaxOutbound = 1
SPECIFICATION NetworkSpec
CHECK_DEADLOCK FALSE
INVARIANTS
  NoGhost
  Delivered
PROPERTIES
  PendingEnds
  QueueServed
  JoinReturns
  EventArrives
  FilterGoes

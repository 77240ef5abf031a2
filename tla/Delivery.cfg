SPECIFICATION FairSpec
CONSTANTS
  Packets = {p1, p2, p3}
  PacketLength = 2
  SocketRoom = 3
  EdgeTriggered = TRUE
INVARIANTS FramesIntact OutputIsNoticed
PROPERTIES ImplementsChannel AllIsSent

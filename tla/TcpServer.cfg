SPECIFICATION FairSpec
CONSTANTS
  Conn = {c1, c2}
  NoConn = NoConn
  Descriptor = {f1}
  NoFd = NoFd
  MaxPacket = 2
  MaxPosted = 2
CHECK_DEADLOCK FALSE
INVARIANTS
  TypeOK
  NothingLost
  GracefulClose
  DescriptorOwned
PROPERTIES
  FreshStaysConnected
  ImplementsConnection
  DisconnectCompletes
  DescriptorReleased

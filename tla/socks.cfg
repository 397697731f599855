SPECIFICATION FairSpec
CONSTANTS
  Kinds = {"direct", "HTTP", "SOCKS4", "SOCKS5"}
  Hosts = {"name", "v6"}
  Ports = {0, 80}
  Greetings <- SilentOrNot
  Fds = {0, 3}
  None = None
CHECK_DEADLOCK FALSE
INVARIANTS TypeOK ConnectedMeansGranted StreamWhole FailsForReason
PROPERTIES AuthorisedFirst HandshakeEnds

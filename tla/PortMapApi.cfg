SPECIFICATION ApiSpec
CONSTANTS
  c1 = c1
  c2 = c2
  c3 = c3
  s1 = s1
  s2 = s2
  NoIP = NoIP
  MAX_PMAP_ROWS = 2
  PMAP_TIMEOUT = 2
  W = 4
  PORT_SEQ_BASE = 10
  SEQ_FACTOR = 1
  ICMP_IDS = 3
  Protocols <- UdpAndTcp
  ClientIPs <- TwoClients
  ServerIPs <- TwoServers
  EthPorts <- OnePort
SYMMETRY Interchangeable
INVARIANTS UniqueLtePort UniqueClientKey NoMisdelivery
PROPERTY ImplementsNat
VIEW Ages

SPECIFICATION Spec
CONSTANTS
  c1 = c1
  c2 = c2
  c3 = c3
  s1 = s1
  s2 = s2
  NoIP = NoIP
  MAX_PMAP_ROWS = 3
  PMAP_TIMEOUT = 2
  W = 5
  PORT_SEQ_BASE = 10
  SEQ_FACTOR = 1
  ICMP_IDS = 2
  Protocols <- EchoOnly
  ClientIPs <- ThreeClients
  ServerIPs <- OneServer
  EthPorts <- OnePort
SYMMETRY Interchangeable
INVARIANT GeneratorTerminates

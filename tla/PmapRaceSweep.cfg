SPECIFICATION RaceSpec
CONSTANTS
  c1 = c1
  c2 = c2
  s1 = s1
  NoIP = NoIP
  MAX_PMAP_ROWS = 2
  PMAP_TIMEOUT = 3
  W = 5
  PORT_SEQ_BASE = 10
  SEQ_FACTOR = 1
  ICMP_IDS = 1
  Protocols <- UdpOnly
  ClientIPs <- TwoClients
  ServerIPs <- OneServer
  EthPorts <- OnePort
SYMMETRY Interchangeable
INVARIANTS MappingKept
VIEW Ages

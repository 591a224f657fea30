SPECIFICATION RaceSpec
CONSTANTS
  c1 = c1
  c2 = c2
  s1 = s1
  NoIP = NoIP
  MAX_PMAP_ROWS = 2
  PMAP_TIMEOUT = 2
  W = 4
  PORT_SEQ_BASE = 10
  SEQ_FACTOR = 1
  ICMP_IDS = 2
  Protocols <- EchoOnly
  ClientIPs <- TwoClients
  ServerIPs <- OneServer
  EthPorts <- OnePort
SYMMETRY Interchangeable
INVARIANTS RaceTypeOK NoSharedPort MappingSurvives 
VIEW Ages

SPECIFICATION Spec
CONSTANTS
  i1 = i1
  i2 = i2
  i3 = i3
  m1 = m1
  m2 = m2
  NoIP = NoIP
  NoMac = NoMac
  MAX_ARP_CACHE_ROWS = 2
  ARP_CACHE_TIMEOUT = 2
  RESOLVE_TIMEOUT = 1
  W = 4
  IPs <- ThreeHosts
  MACs <- TwoMacs
SYMMETRY Interchangeable
INVARIANTS TypeOK UniqueIp
PROPERTIES WrongMacNeedsLapse KnownHostKept

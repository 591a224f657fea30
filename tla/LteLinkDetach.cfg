SPECIFICATION FairSpec
CONSTANTS
  Addrs = {a1, a2}
  NoAddr = NoAddr
  ModemMay = {"detach"}
  MaxTrouble = 1
PROPERTY LinkComesBack

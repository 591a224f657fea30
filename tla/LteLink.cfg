SPECIFICATION FairSpec
CONSTANTS
  Addrs = {a1, a2}
  NoAddr = NoAddr
  ModemMay = {"detach", "drop", "flight"}
  MaxTrouble = 2
INVARIANTS TypeOK StaleTakedownOnce StampCurrent SessionCurrent ResetsDetached
PROPERTY ComesUp

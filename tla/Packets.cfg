SPECIFICATION DataSpec
CONSTANTS
  B = 16
  NRF9160_MTU = 13
  EthHdr = 2
  server = 15
  my_ip_addr = 12
  server_port = 3
  pmap <- SomeRows
  LtePorts = {3, 11, 13}
  Payloads <- SomeData
  FragSizes = {8, 13}
  Hurt = {1, 6, 7, 8, 11}
  Char <- SomeChars
  Numbers <- SomeNumbers
  Texts <- SomeTexts
  Malformed <- OtherForms
  MaxFields = 2
INVARIANTS TypeOK SumsAgree ForwardedWhole SentVerifies DamageContained ReadsBack
CONSTRAINT Continues

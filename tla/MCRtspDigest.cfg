SPECIFICATION MCSpec
CONSTANTS
  Units <- MCUnits
  InitSeqs <- MCInitSeqs
  SeqSpace = 8
  HubCap = 1
  AsyncCap = 1
  StallLimit = 2
  MaxAus = 3
  MaxSetups = 2
  MaxPlays = 2
  Methods = {"DESCRIBE", "SETUP", "PLAY", "TEARDOWN", "OPTIONS"}
  MaxMessages = 3
  Mtu = 4
  SliceSizes = {5, 6}
  TsMax = 8
  TsStep = 3
  Gaps = {0, 5}
  MaxUnits = 3
INVARIANTS DigestAdmitted
CHECK_DEADLOCK FALSE

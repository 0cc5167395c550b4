CONSTANTS
  Byte = {0, 1}
  Zero = 0
  PACKETSIZE = 2
  MaxLen = 2
  MaxSize = 4
  MaxSend = 2
  MaxGiven = 3
  AppContexts = {{}, {"READABLE", "CLOSABLE", "ET"}}
SPECIFICATION ConnSpec
INVARIANTS
  TypeOK
  OutputInOrder
PROPERTIES
  BehavesAsQueue
  AppendsExactly
  GrowsOnlyWhenFull
  WaitingOutputSilences
CHECK_DEADLOCK FALSE

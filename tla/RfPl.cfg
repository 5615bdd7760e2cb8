SPECIFICATION Spec
CONSTANTS
  TX_DEPTH = 2
  RX_DEPTH = 2
  START_DELAY = 1
  MaxTx = 5
  MaxRx = 4
CHECK_DEADLOCK FALSE
INVARIANTS
  TransmitInOrder
  ReceiveInOrder

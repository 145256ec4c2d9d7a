CONSTANTS
  A = A
  Txs <- Rivals
  MaxSlots = 3
  GaugeMod = 16
  MaxHandlers = 2
SPECIFICATION Spec
INVARIANTS
  ExecutablesPromoted
  GaugeBalance
PROPERTIES
  ExpectedServed

\* Two first reports of a worker insert two rows: the gate depends on the row read.
SPECIFICATION Spec
CONSTANTS
  p1 = p1  p2 = p2
  Pollers <- OnePoller
  Mode <- OneMode
  Calls = {1, 2}
  RowIds = {1, 2}
  Faults = FALSE
  MaxCalls = 2
PROPERTIES
  ClosedGateHolds

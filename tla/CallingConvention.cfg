CONSTANTS
  argResigters <- MCIntRegisters
  doubleArgRegisters <- MCDoubleRegisters
  MaxArgs = 5
  MaxDepth = 3
  MaxCalls = 2
SPECIFICATION Spec
INVARIANTS
  TypeOK
  ParamsKept
  AlignedAtCall
  FrameRestored
  ResultDelivered
PROPERTY ReturnsToCaller

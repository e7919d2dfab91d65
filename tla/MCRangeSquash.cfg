SPECIFICATION SquashSpec
CONSTANTS
  MaxPort = 3
  MaxLen = 3
  Classes = {1, 2}
  Ports <- PortSpan
  Inputs <- SmallInputs
INVARIANTS
  CoverageKept
  MandatoryKept
  SquashIsCanonical
CHECK_DEADLOCK FALSE

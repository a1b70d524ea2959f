SPECIFICATION GenSpec
CONSTANTS
  Headers <- KernelHeaders
INVARIANTS
  ConstantsKnown
CHECK_DEADLOCK FALSE

SPECIFICATION GenSpec
CONSTANTS
  Headers <- HeadersUnderTest
INVARIANTS
  GenTypeOK
  TablesRight
  KeysUnique
  NamesResolve
CHECK_DEADLOCK FALSE

SPECIFICATION UtilSpec
CONSTANTS
  ClockMod = 16
  MaxReal = 40
  Half = 4
  ByteMod = 2
  HcsPos = 2
  MaxLen = 5
INVARIANTS
  ExactWithinOneTurn
  SumsExact
  Repaired
  DamageDropped
CHECK_DEADLOCK FALSE

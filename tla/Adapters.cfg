SPECIFICATION Spec
CONSTANTS
  Methods <- CoreMethods
  Inputs <- AllInputs
  Texts <- AllTexts
INVARIANT NothingGoodRefused
INVARIANT NothingBadPassed
INVARIANT HandWrittenHeld

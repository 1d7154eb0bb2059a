SPECIFICATION Spec
CONSTANTS
  Slots = {1, 2}
  MAX_ATTEMPTS = 2
  MaxEvents = 2
PROPERTIES
  PreinitEndsInPlace
  HomeIsFresh
CHECK_DEADLOCK FALSE

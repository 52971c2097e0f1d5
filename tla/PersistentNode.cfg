SPECIFICATION Spec
CONSTANTS
  Blocks = {"good", "bad"}
  Poison = {"bad"}
  Tears = {"part", "text"}
  Keep = 2
  MaxWrites = 4
  Refused = Refused
  Torn = Torn
INVARIANTS
  PromisedSurvives
  RecoveryEquivalence
  ObserverSeesNoDrift
CHECK_DEADLOCK FALSE

SPECIFICATION Spec
CONSTANTS
  Cals = {1, 2}
  StepsOf <- MCStepsOf
  Advertised = {"send"}
  MaxAttempts = 2
  MaxId = 5
  Nobody = Nobody
INVARIANTS RecordIsTheServers StepsInOrder
PROPERTIES EveryCallEnds
CHECK_DEADLOCK FALSE

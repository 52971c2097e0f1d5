SPECIFICATION Spec
CONSTANTS
  Blocks = {"good"}
  Poison = {}
  Tears = {"part", "text"}
  Keep = 2
  MaxWrites = 3
  Refused = Refused
  Torn = Torn
INVARIANTS
  TickNeverLost
CHECK_DEADLOCK FALSE

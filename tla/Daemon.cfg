SPECIFICATION DaemonSpec
CONSTANTS
  s1 = s1
  s2 = s2
  s3 = s3
  s4 = s4
  a1 = a1
  a2 = a2
  Submissions = {s1, s2, s3, s4}
  Bad = {s4}
  Agents = {a1, a2}
  AgentOf <- MCAgentOf
  Cadence = 2
  Blocks <- MCBlocks
  Poison <- MCPoison
  Tears = {"part"}
  Keep = 1
  MaxWrites = 4
  Refused = Refused
  Torn = Torn
INVARIANTS
  
  RestartIsInstant
  RestartsWhereItStopped
PROPERTIES
  ImplementsIntake
CHECK_DEADLOCK FALSE

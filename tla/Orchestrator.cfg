SPECIFICATION NodeSpec
CONSTANTS
  a1 = a1
  a2 = a2
  c1 = c1
  c2 = c2
  c3 = c3
  Agents = {a1, a2}
  Cals = {c1, c2, c3}
  Params = {"capture_guard_threshold", "flat_validation_fee", "gas_price"}
  Guards = {"any"}
  Feeds = {}
  MaxUint = 12
  MaxOwners = 2
  Absent = Absent
  Failed = Failed
  Cal <- MCCal
  Whitelist = {"failure_mode.exit_bounded"}
  OwnerActions = {"treasury.transfer"}
  DefaultFee = 1
  DefaultGasPrice = 1
  LimitMultiplier = 3
  OwnerAuthBase = 0
  VerifyWeight = 1
  InitBalances <- MCInitBalances
  InitLeaf <- MCInitLeaf
  Traces <- MCTraces
  Ticks = {0, 1}
  MaxAdmitted = 3
INVARIANTS
  AtRest
  ExecutedAtItsNonce
  FinalizedInTime
  ValidatorReducerAgree
PROPERTIES
  ChargeFollowsOutcome

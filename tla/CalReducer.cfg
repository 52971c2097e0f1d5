SPECIFICATION Spec
CONSTANTS
  a1 = a1
  a2 = a2
  c1 = c1
  c2 = c2
  c3 = c3
  Agents = {a1, a2}
  Cals = {c1, c2, c3}
  Params = {"capture_guard_threshold"}
  Guards = {"any"}
  Feeds = {"ton"}
  MaxUint = 3
  MaxOwners = 2
  Absent = Absent
  Failed = Failed
  AgentOf <- MCAgentOf
  InitBalances <- MCInitBalances
  InitLeaf <- MCInitLeaf
  Amounts = {0, 1, 2}
  FeedValues = {1}
  EffectLists <- MCEffectLists
  Ticks = {1}
  MaxNonce = 2
INVARIANTS
  TypeOK
  OneInFlightPerAgent
  EntriesClean
  Conserved
PROPERTIES
  EffectsOnlyWhenFinalized
  NonceBurnedOnLeaving
  ImplementsAgentEscrow

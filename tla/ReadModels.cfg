SPECIFICATION ViewsSpec
CONSTANTS
  Deployments = {{"registry"}, {"treasury"}, {"failure-state"}, {"capability"}, {"anchor-index"},
                 {"governance-view"}, {"oracle-view"}, {"ptra-view"}, {"registry", "anchor-index"}}
  Publisher = Publisher
  Stranger = Stranger
  Agents = {1, 2}
  MaxVersion = 3
  NarrowMax = 1
  MaxWire = 2
INVARIANTS MirrorsDecided DigestsDictionary
CHECK_DEADLOCK FALSE

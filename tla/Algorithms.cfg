SPECIFICATION Spec
CONSTANTS
  IntMin <- MCIntMin
  IntMax = 3
  MaxDepth = 3
  MaxNodes = 5
  MaxPathSegments = 3
  MaxExpressionCost = 20
  Cap = 2
  SlaMs = 6
  AtRiskMs = 4
  SnapshotLoadMs = 1
  PerTickMs = 2
  MarginMs = 1
  DriftWarnMs = 1
  DriftCritMs = 2
  Expressions <- MCExpressions
  Scopes <- MCScopes
  Versions <- MCVersions
  Operands <- MCOperands
  Treasuries <- MCTreasuries
  Costs <- MCCosts
  MaxHistory = 4
  Tails = {0, 1, 2}
  Drifts = {0, 1, 2}
  Oracles <- MCOracles
  Streams <- MCStreams
  Addresses = {"alice", "bob", "agent", "item", "wallet"}
  U64Max = 3
  CoinsMax = 8
  MaxOutActions = 2
  TransferTon = 1
  Cals <- MCCals
  JettonWallet = "wallet"
  Texts <- MCTexts
  Base = 2
  IntBytes = 3
  TagBytes = 2
  LengthBytes = 2
  SeqnoBytes = 2
  Integers_ <- MCIntegers
  ByteStrings <- MCByteStrings
  Frames <- MCFrames
  Addresses_ <- MCAddresses
  Namespaces <- MCNamespaces
  Toolsets <- MCToolsets
  Noncanonical = {"bom"}
  CalU64Max = 3
  CalU256Max = 7
  Int32Max = 1
  KeysInOrder <- MCKeysInOrder
  Presented <- MCPresented
  Acts <- MCActs
  Agents_ <- MCAgents
  AgentNonces <- MCIntegers
  AgentRecords <- MCAgentRecords
  Programs <- MCPrograms
  Transcripts <- MCTranscripts
  Checkpoints <- MCCheckpoints
  JsonValues <- MCJsonValues
  Records <- MCRecords
  Cells <- MCCells
  Directories <- MCDirectories
  Sinks <- MCSinks
  SoakSteps <- MCSoakSteps
  MaxSoak = 3
  NonceBits = 2
  HashBits = 3
  TimeBits = 2
  OpBits = 2
  StatusBits = 3
  OpUpsertRecord = 2
  AnchorOp = 1
  SoakCadence = 1
  SoakSlaMs = 5
  RetentionMax = 2
  GrowthCap = 2
  TargetMs = 2
  FdCeil = 1
  DiskCeil = 1
INVARIANTS
  AcceptsTheBounded
  
  CadenceMeetsSla
  MonitorTellsTheTruth
  
  CanonicalIsUnique
  EncodingsBind
  AdmittedIsSigned
  
CHECK_DEADLOCK FALSE

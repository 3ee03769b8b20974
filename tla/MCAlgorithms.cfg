SPECIFICATION Spec
CONSTANTS
  A = "A"
  B = "B"
  MaxLines = 3
  Overlap = 1
  ParamSyntax <- MCSyntax
  Upper <- MCUpper
  Threshold = 70
  Dynamic = "<dynamic>"
  HttpMethods <- MCHttpMethods
  ExpressNames <- MCExpressNames
  NestNames <- MCNestNames
  ClientNames <- MCClientNames
  TopicNames <- MCTopicNames
  MaxDepth = 4
  PyTrees <- MCPyTrees
  TsTrees <- MCTsTrees
  Wires <- MCWires
  Streams <- MCStreams
  RrfK = 60
  OverFetch = 2
  Longest = 3
  Files <- MCFiles
  Links <- MCLinks
  Programs <- MCPrograms
  SourceRoots = {"src", "lib"}
  HttpCases <- MCHttpCases
  KafkaCases <- MCKafkaCases
  Queries <- MCQueries
  HardMax = 2
  MinSuffix = 2
  Reach = 2
  Lookups <- MCLookups
  Graphs <- MCGraphs
  Impacts <- MCImpacts
  Connection <- MCConnection
  Logging <- MCLogging
  Defaults <- MCDefaults
  Password = "PASSWORD"
  Commented <- MCCommented
  Setups <- MCSetups
  Migrations <- MCMigrations
INVARIANTS
  ChunksCover
  ChunksNeverMix
  CallsResolve
  ImportsReach
  CallsOwned
  FlowsReach
  HttpFlowsBest
  KafkaFlowsPaired
  FusionInterleaves
  FusionKeepsBest
  VectorFills
  LookupStrictest
  CallGraphExact
  InboundAgrees
  SettingsKept
  SchemaSettles
CHECK_DEADLOCK FALSE

SPECIFICATION Spec
CONSTANTS
  Unusable = Unusable
  None = None
  Idle = Idle
  Site = {"s1"}
  Lambda = {1, 2, 3}
  TextOf <- SampleTexts
  Operand = {"v"}
  MaxNets = 3
  Node = {"r", "a", "b"}
  Root = "r"
  Asked = "obj"
  Field = {1, 2}
  Plain = "v"
  Null = "null"
  Graphs <- SampleGraphs
  MaxPuts = 1
  Port = {1, 5}
  FirstPort = 1
  NoPeer = 0
  MaxPeers = 4
  Cell = {"a", "b"}
  Writer = {"s", "u", "w"}
  Writes <- SampleWrites
  Contradiction = 0
  MaxWrites = 4
  MaxIncrements = 2
  MaxBeats = 4
  Depth = 2
  Source = {"s", "u"}
  MaxDefinitions = 3
  Card = {1, 2}
  Name <- SampleNames
  Session = {"s", "u"}
  Sent <- SampleSent
  Computed <- SampleComputed
  Numerals = {"42"}
  Blank = {" "}
  MaxRequests = 4
  KnownPrimitives = {"+"}
  Values <- SampleValues
  Encoded <- SampleEncoded
  Rank <- SampleRank
INVARIANTS SitesApplyTheDefinition NoStrayNetworks NullsHaveReasons
INVARIANTS CommandsReachAPeer CellsShowTheLatest StoredIsStrongest
INVARIANTS NothingLostNothingLeft NamesMeanTheirScope ComesBack
INVARIANTS StreamsAreCurrent
CHECK_DEADLOCK FALSE

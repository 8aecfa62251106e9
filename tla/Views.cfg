SPECIFICATION AnySpec
CONSTANTS
  Sources <- MCSources
  FinalSources <- MCFinalSources
  MaxStreams = 1
  GiveUp = 2
  MaxSockets = 2
  MaxLoose = 1
  HardCap = 3
  MaxSaved = 2
  MaxLine = 4
  Conns = {1, 2}
  AllContainers = {"app", "side", "init"}
  Regular = {"app", "side"}
  ContainerSets <- MCContainerSets
  MaxClock = 2
  HistoryLen = 2
  Scopes = {"worker", "master"}
  Metrics = {"cpu", "memory"}
  Workloads = {"w1", "w2"}
  PanelNodes = {"n1", "n2"}
  Objects <- MCObjects
  NameOf <- MCNames
  Shapes <- MCShapes
  Fixed <- MCFixed
  Behind <- MCBehind
  Specs <- MCSpecs
  NumMains = 2
  Exits <- MCExits
INVARIANTS
  NeverStalls
  SamplesOfTheShown
  BelongingsAreRight
  PodIsReadRight
PROPERTIES
  RingIsFaithful
  PicksSurvive
CHECK_DEADLOCK FALSE

SPECIFICATION AnySpec
CONSTANTS
  TabClusters = {"a", "b"}
  Pages = {"overview", "resource"}
  ListPages = {"overview"}
  MaxTabs = 2
  Places = {"l1", "l2", "l3"}
  NavMax = 3
  MaxHist = 4
  MaxMoves = 2
  PaneRefs = {"logs", "exec"}
  Launcher = "terminal"
  ShellRef = "exec"
  Details = {"o"}
  PanePages = {"p", "q"}
  MaxPanes = 2
  Editors = {"pane", "tab"}
  MaxVersion = 3
  Names = {"x", "y"}
  Runs = {1, 2}
  MaxUid = 2
  Beside = {"delete"}
  NumFixed = 2
  NumStreamed = 1
  MatchCap = 2
  Contexts = {"c1", "c2"}
  BareNumbers = {"c2"}
  Windows = {1, 2}
  PinClusters = {"a", "b"}
  PinNames = {"x", "y", "z"}
  Pinnable <- MCPinnable
  MaxPins = 3
  MaxUnsaved = 1
  Edited = {"tag"}
  TemplateKeys = {"image", "sidecar"}
  TemplateValues = {1}
  Absent = 0
  Rolled <- MCRolled
  MaxRevision = 3
  MaxOwners = 2
  Lists = {"pods", "nodes"}
  PodList = "pods"
  MetricKeys = {"cpu"}
  OffByDefault = {"nodes"}
  Edges = {"cpu"}
INVARIANTS
  ListMirrorsHistory
  NoLostUpdate
  HighlightOnARow
  HiddenOnPurpose
PROPERTIES
  TabsAreFaithful
  SessionsCloseOnPurpose
  DeletesAsConfirmed
  SendsTheChecked
  PinsAreAsArranged
  PhotoStays
  AppliesTheReviewed
CHECK_DEADLOCK FALSE

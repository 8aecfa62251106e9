SPECIFICATION AnySpec
CONSTANTS
  None = none
  NoId = noid
  Keys = {k1}
  Ticker = ticker
  ChanCap = 1
  MaxVersion = 0
  Entries = {e1}
  Subs = {s1}
  Callers = {g1}
  Pods <- MCPods
  ContainersOf <- MCContainers
  Shells = {"auto", "sh"}
  Sessions = {1, 2}
  PipeRead = 1
  MaxTyped = 2
  MaxFlying = 1
  Tabs = {t1, t2}
  OtherIds = {idB}
  NewIds = {id1, id2}
  Requests = {q1, q2}
  NodePods = {p1, p2, p3}
  Exempt = {p3}
  ShellAsks = {a1, a2}
  Manifests <- MCManifests
  Scripts = {c1, c2, c3}
INVARIANTS
  PausedInformersAreStragglers
  TerminalIsFaithful
  AdoptionSticks
  DrainMissesNobody
PROPERTIES
  ConnectedConverges
  SessionsEnd
  JobsEndWell
CHECK_DEADLOCK FALSE

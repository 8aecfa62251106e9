SPECIFICATION BothSpec
CONSTANTS
  Streams = {s1, s2}
  NoStream = none
  Views = {v1, v2}
  Sources = {n1, n2}
  Objects = {o1, o2}
  n1 = n1
  n2 = n2
  o1 = o1
  o2 = o2
  SourceOf <- OneEach
  MaxWire = 2
  LifeClusters = {c1, c2}
  MaxCalls = 2
  MaxBusy = 1
  MaxPolled = 0
INVARIANTS
  SubscriptionsMatchUse
  ListsAreFaithful
  ActiveHasTab
SYMMETRY Interchangeable
VIEW NoHistory

SPECIFICATION AnySpec
CONSTANTS
  one = one
  two = two
  h1 = h1
  h2 = h2
  None = None
  Payloads = {one, two}
  ContextsIn <- Overlapping
  Stems = {1}
  Handlers = {h1, h2}
  MaxClusters = 3
  MaxFiles = 2
  i1 = i1
  i2 = i2
  i3 = i3
  l1 = l1
  l2 = l2
  NoIdentity = NoIdentity
  Identities = {i1, i2, i3}
  Legacy = {l1, l2}
SYMMETRY Alike
INVARIANTS
  RestartRestores
  LegacyHasOneOwner
PROPERTY
  NamesAreStable

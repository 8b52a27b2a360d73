SPECIFICATION Spec
CONSTANTS
  admin = admin
  bosun = bosun
  p1 = p1
  p2 = p2
  m1 = m1
  m2 = m2
  Procs <- MCProcs
  Keys <- MCKeys
  Panes <- MCPanes
  NoPane = NoPane
  Legacy = {1, 2, 3}
  MaxRow = 4
  MaxStamp = 2
  MaxMsg = 2
SYMMETRY Alike
INVARIANTS
  HealsNeverCollide
  OneIdentity
  NothingPendingStranded
PROPERTY ReopenIsInert

SPECIFICATION FairSpec
CONSTANTS
  Conns = {c1, c2, c3}
  Listeners = {l1, l2}
  NoConn = NoConn
  MaxConnections = 1
  MaxRpcs = 1
INVARIANTS
  TypeOK
  SlotsBalanced
  DrainIsClean
PROPERTIES
  NoLateSession
  DrainEnds

SPECIFICATION FairSpec
CONSTANTS
  c1 = c1
  c2 = c2
  None = None
  Conns <- MCConns
  Lines <- MCLines
INVARIANTS TypeOK NoNullSocket OneOwner LinesAreWhole
PROPERTIES HungUpIsClosed

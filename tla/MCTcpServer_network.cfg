SPECIFICATION FairSpec
CONSTANTS
  c1 = c1
  c2 = c2
  None = None
  Conns <- MCConns
  Lines <- MCOneLine
PROPERTIES DisconnectForced

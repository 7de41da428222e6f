SPECIFICATION CentreSpec
CONSTANTS
  a = a  c = c  d = d
  Main = Main
  Accounts = {Main, a, c, d}
  Id <- SharedId
  MaxFollowers = 2
INVARIANTS VectorsAgree MainFollowsPool
PROPERTY ImplementsFollowGraph

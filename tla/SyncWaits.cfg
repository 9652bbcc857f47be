SPECIFICATION FairSpec
CONSTANTS
  root = root
  child = child
  peer = peer
  tool = tool
  runner = runner
  Nodes <- MCNodes
  Kind <- MCKind
  Calls = {c1, c2, c3}
  MaxNodes = 4
  MaxEdges = 3
INVARIANTS
  CountsAreCalls
  NoCycle
PROPERTY
  EveryCallReturns

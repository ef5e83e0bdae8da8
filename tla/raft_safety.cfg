CONSTANTS
  Node = {n1, n2, n3}
  NoNode = NoNode
  MaxTerm = 2
SPECIFICATION Spec
INVARIANTS OneLeaderPerTerm
SYMMETRY Nodes
CHECK_DEADLOCK FALSE

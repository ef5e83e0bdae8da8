CONSTANTS
  Node = {n1, n2}
  NoNode = NoNode
  MaxTerm = 1
SPECIFICATION Spec
INVARIANTS LeaderHasMajority
CHECK_DEADLOCK FALSE

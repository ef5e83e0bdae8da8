CONSTANTS
  Node = {n1, n2, n3}
  NoNode = NoNode
  MaxTerm = 2
SPECIFICATION Spec
INVARIANTS LeaderHasMajority
PROPERTIES VoteKeptUntilLeader TermsAdvance
SYMMETRY Nodes
CHECK_DEADLOCK FALSE

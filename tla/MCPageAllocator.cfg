SPECIFICATION Spec
CONSTANTS
  PoolBytes = 49
  PageBytes = 2
  ManagerBytes = 8
  MetaBytes = 6
  Requests = {1, 2, 3, 6}
  Handle = {h1, h2, h3, h4}
  NoBlock = NoBlock
SYMMETRY HandleSymmetry
INVARIANTS
  BlocksDisjoint
  ChecksHold
  NoBlockLost

SPECIFICATION Spec
CONSTANTS
  Leaf <- MCLeaf
  Tree <- MCSmallTree
  NoTree = NoTree
  MaxRelateAttempts = 3
  MaxBaselines = 1
INVARIANTS RefusalShowsAPair

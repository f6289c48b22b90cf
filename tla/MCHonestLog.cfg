SPECIFICATION HonestSpec
CONSTANTS
  Leaf <- MCLeaf
  Tree <- MCTree
  History <- MCHistory
  NoTree = NoTree
  MaxRelateAttempts = 3
  MaxBaselines = 1
INVARIANTS NoFalseAccusation AbsorbsMovement

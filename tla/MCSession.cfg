SPECIFICATION FairSpec
CONSTANTS
  Leaf <- MCLeaf
  Tree <- MCTree
  NoTree = NoTree
  MaxRelateAttempts = 3
  MaxBaselines = 2
INVARIANTS Inv OneHistory AnchorHeld CommitsAsItAdvances ForkEvidenceShowsIt
PROPERTIES SavedRatchet ImplementsView LinkReturns

CONSTANTS
  SNAKE_MAX = 5
  MaxLen = 5
  PAGE_MAX = 2
  MaxInputs = 2
  Steers <- MCUpDown
  FoodCells <- MCFood
SPECIFICATION FairSpec
CONSTRAINT FoldsOnce
VIEW View
INVARIANTS RingHoldsTheSnake BodyIsConnected NoGhostCells
PROPERTIES QueueRefinement RedrawEnds

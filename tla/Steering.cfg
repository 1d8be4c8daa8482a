CONSTANTS
  Snakes = {s1}
  snake_max = 2
  MaxKeys = 3
  Depth = 2
SPECIFICATION FairSpec
INVARIANT CountdownInRange
PROPERTIES NoReversalByChance SettledKeyDecides ChanceReturns

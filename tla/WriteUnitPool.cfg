SPECIFICATION MCFairSpec
CONSTANTS
  Calls = {1, 2, 3}
  Workers = {w1, w2}
  PoolSize = 3
  Kinds = {"save", "updateWhere", "many"}
  MaxCrashes = 0
  NoCall = 0
PROPERTIES
  EveryRequestReturns

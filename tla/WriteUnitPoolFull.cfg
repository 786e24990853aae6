SPECIFICATION MCFairSpec
CONSTANTS
  Calls = {1, 2, 3}
  Workers = {w1, w2}
  PoolSize = 2
  Kinds = {"save", "updateWhere", "destroy"}
  MaxCrashes = 0
  NoCall = 0
PROPERTIES
  EveryRequestReturns

SPECIFICATION MCSpec
CONSTANTS
  Calls = {1, 2, 3}
  Workers = {w1}
  PoolSize = 2
  Kinds = {"save", "destroy"}
  MaxCrashes = 0
  NoCall = 0
INVARIANTS
  HookWritesReach

SPECIFICATION ConsoleMCSpec
CONSTANTS
  Calls = {1, 2, 3}
  Workers = {w1, w2}
  PoolSize = 3
  Kinds = {"save", "destroy", "many", "txRepo", "txScript"}
  MaxCrashes = 1
  Pages = {"records", "fields", "scripts", "indexes", "collections", "options"}
  Things = {1, 2}
  Blank = Blank
  Missing = Missing
  MaxEvents = 3
  MaxTroubles = 1
  NoCall = 0
SYMMETRY WorkerSymmetry
INVARIANTS
  TypeOK
  RequestAtomic
  HookAfterDurable
  HooksInOrder
  NoLeakedTransaction
  SingleBegin
  ConsoleHolds
PROPERTIES
  ImplementsPromise

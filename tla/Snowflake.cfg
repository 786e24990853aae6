SPECIFICATION MCFairSpec
CONSTANTS
  Workers = {w1, w2}
  NoWorker = NoWorker
  Machines = 2
  Numbers = 2
  Epoch = 1
  MaxIds = 4
  MaxAhead = 2
  MaxSetBacks = 1
  MaxBoots = 2
  ClientKinds = {"records", "files", "links", "collections", "fields", "indexes", "scripts"}
  Ids = {x, y}
  Absent = Absent
  Unsaid = Unsaid
  PageLength = 1
  MaxCalls = 2
INVARIANTS
  TypeOK
  Increasing
  MachinesApart
  ReturnsHold
PROPERTIES
  EveryCallReturns

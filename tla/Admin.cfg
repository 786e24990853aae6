SPECIFICATION MCSpec
CONSTANTS
  p = p
  r = r
  first = first
  second = second
  route = route
  broken = broken
  Places = {p}
  Routes = {r}
  Definitions <- MCDefinitions
  Slot <- MCSlot
  Priority <- MCPriority
  Compiles <- MCCompiles
  Owned = {second}
  ScriptAdmins = {a1, a2}
  Callers = {c}
  NoScript = NoScript
  MaxScripts = 2
  MaxScriptCalls = 3
  MaxScriptFaults = 1
  f1 = f1
  f2 = f2
  f3 = f3
  k = k
  i1 = i1
  i2 = i2
  Fields = {f1, f2, f3, k}
  Virtual = {f3}
  System = {k}
  Unloadable = {k}
  Stored = {f2, k}
  Indexes = {i1, i2}
  On <- MCOn
  Own <- MCOwn
  l1 = l1
  l2 = l2
  Labels = {l1, l2}
  SchemaAdmins = {s1, s2}
  NoField = NoField
  MaxSchemaCalls = 4
  MaxSchemaFaults = 2
  Schemas <- MCSchemas
  Words = {"a", "bad"}
  Inputs = {1, 2}
  Limit = 1
  RecordIds = {8, 9}
  Exact = 8
  Keys = {k1, k2}
  FirstKey = k1
  MaxTrips = 4
SYMMETRY Symmetry
INVARIANTS
  AdminTypeOK
  ScriptsHold
  SchemaHolds
  RecordsHold

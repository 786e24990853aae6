SPECIFICATION MCSpec
CONSTANTS
  id = id
  owner = owner
  note = note
  stamp = stamp
  u = u
  w = w
  Columns = {id, owner, note, stamp}
  Key = id
  Owner = owner
  Stamps = {stamp}
  UpdatedAt = stamp
  Contents = {u, w}
  RowIds = {1, 2}
  FirstRows <- MCFirst
  Policies <- MCPolicies
  FirstPolicies <- MCFirstPolicies
  PolicyIds = {1, 2}
  Asked <- MCAsked
  Additions = {{}, {note}}
  AllowTruncate = TRUE
  Clients = {c1, c2}
  PolicyAdmins = {a1, a2}
  NoPolicy = NoPolicy
  NoOne = NoOne
  MaxAccessCalls = 2
  MaxPolicyCalls = 2
  MaxAccessEvents = 3
  MaxAccessFaults = 1
  s1 = s1
  s2 = s2
  t1 = t1
  t2 = t2
  t3 = t3
  Sources = {s1, s2}
  Targets = {t1, t2, t3}
  Null = Null
  Here = Here
  Gone = Gone
  FirstLinks <- MCFirstLinks
  LinkIds <- MCLinkIds
  OnDelete = {"SET NULL", "CASCADE", "RESTRICT"}
  MaxPage = 2
  Workers = {c1, c2}
  MaxLinkCalls = 2
  RecIds = {1, 2, 3}
  Codes = {x, y}
  NoCode = NoCode
  NoRec = NoRec
  StartsAt = 2
  Step = 1
  Writers = {c1, c2}
  MaxValueCalls = 3
  MaxValueRestarts = 1
  Nil = Nil
  Relation <- MCRelation
  Coll = "posts"
  FirstTables <- MCFirstTables
  Edits <- MCEdits
  Lists <- MCLists
  KeyColumns = {"id", "owner", "parent"}
  SpecialOption <- MCSpecial
  Unnamed = Unnamed
  MaxPageSize = 2
  MaxNest = 2
  MaxEdits = 1
  Foci = {"access", "relations", "values", "reading"}
SYMMETRY Symmetry
INVARIANTS
  DataTypeOK
  NothingBeyond
  PoliciesPublished
  UpdateDone
  LinksHold
  ValuesApart
  ReadsHold

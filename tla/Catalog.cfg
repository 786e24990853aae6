SPECIFICATION MCSpec
CONSTANTS
  p = p
  q = q
  f = f
  g = g
  w = w
  x = x
  y = y
  Names <- MCNames
  Fields <- MCFields
  Unloadable = {w}
  Indexes <- MCIndexes
  Unique <- MCUnique
  On <- MCOn
  Target <- MCTarget
  Inputs <- MCInputs
  Admins = {a1, a2}
  None = None
  MaxCalls = 5
  MaxFaults = 2
  MaxDepth = 3
  MaxEvents = 6
  UserIds = {1, 2}
  RoleIds = {1, 2}
  Root = "root"
  UserNames = {"root", "ann"}
  RoleNames = {"admin", "clerk"}
  RuleIds = {1, 2, 3}
  Offers <- MCOffers
  Under <- MCUnder
  Vocabulary <- MCVocabulary
  Scripts = {"plain", "named", "clash"}
  Declared <- MCDeclared
  Ties <- MCTies
  Orders <- MCOrders
  FirstAccounts <- MCAccounts
  Processes = {p1, p2}
  Askers = {a1, a2}
  Nobody = Nobody
  Absent = Absent
  MaxErrands = 2
  MaxOutages = 1
  Foci = {"catalog", "presets", "authority"}
SYMMETRY Symmetry
INVARIANTS
  TypeOK
  CreatedLasts
  DroppedIsGone
  LeftoversListed
  AuthorityTypeOK
  ActsAsGranted
  StartsWhole

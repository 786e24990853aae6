SPECIFICATION MCFairSpec
CONSTANTS
  Clients = {c1, c2}
  Tokens = {1, 2, 3}
  None = 0
  Lifetime = 1
  MaxTime = 1
  MaxCrashes = 1
  b = b
  k = k
  z = z
  h = h
  g = g
  m = m
  a = a
  c = c
  d = d
  q = q
  s1 = s1
  s2 = s2
  s3 = s3
  t1 = t1
  t2 = t2
  t3 = t3
  t4 = t4
  t5 = t5
  t6 = t6
  Unset = Unset
  RelFields = {b, k, z, h, g, m, a}
  Kind <- MCKind
  KeyGiven <- MCKeyGiven
  FieldNames = {b, k, z, a, c}
  Sources = {s1, s2, s3}
  Targets = {t1, t2, t3, t4, t5, t6}
  Lists <- MCLists
  FirstKept <- MCFirstKept
  MaxLinked = 2
  MaxNested = 1
  Uploaders = {u1, u2}
  Viewers = {v1}
  MaxUploads = 2
  MaxByHand = 1
  MaxFileTroubles = 2
INVARIANTS
  TypeOK
  SingleLive
  LogoutFinal
  HeldSaved
  NestedWhole
  FilesHold
PROPERTIES
  KeepsContract
  EveryRequestAnswered

SPECIFICATION RecordsSpec
CONSTANTS
  w1 = w1  w2 = w2  c = c  a1 = a1  a2 = a2  n1 = n1  n2 = n2
  m1 = m1  m2 = m2  i1 = i1  p1 = p1  o1 = o1  o2 = o2  f1 = f1  f2 = f2
  k1 = k1  t1 = t1  r1 = r1  r2 = r2  s1 = s1
  None = None
  Nil = Nil
  EmptyName = EmptyName
  NoText = NoText
  Nobody = Nobody
  scope = scope
  rules = rules
  Account = {w1, w2, c}
  Sender = {w1, w2}
  Self = c
  Agent = {a1, a2}
  RoleScope = {scope}
  Rules = {rules}
  Threshold <- TriedThresholds
  MaxOwned = 2
  Name = {n1, n2}
  Guardian = a1
  Wallet = w1
  OwnName = n1
  Key = {k1}
  Text = {t1}
  TTL = 1
  MaxChanges = 4
  Request = {r1, r2}
  Script = {s1}
  Label = {n1}
  Party = {w1, w2}
  Budget = 2
  Root = {m1, m2}
  Entry <- Entries
  Intent = {i1}
  Tally = {2, 3}
  Rest = {o1, o2}
  PolicyText = {p1}
  Source = {"chain", "kv_or_chain"}
  Fetch = {f1, f2}
  ToVerify = {m1}
  PageSize = 2
  OthersDo <- OneOther
  Decided <- OneDecision
  Claims <- OneClaim
  Reports <- OneOrTwo
SYMMETRY SameSlots
INVARIANTS
  OwnersFindTheirAgents
  ReverseIsCurrent
  AnsweredNamesExist
  DetailIsSelected
  VerifiedIsBacked
  OwnDecisionsVerify
PROPERTIES
  OrphansAreFrozen
  CacheIsHonest
CHECK_DEADLOCK FALSE

SPECIFICATION SceneSpec
CONSTANTS
  a1 = a1  a2 = a2  g1 = g1  g2 = g2  m1 = m1  m2 = m2  p1 = p1  p2 = p2
  l1 = l1  l2 = l2  k1 = k1  k2 = k2
  Nothing = Nothing
  Load = {l1, l2}
  Lookup = {k1, k2}
  TrailPage = 1
  WalkPage = 1
  Account = {a1, a2}
  Agent = {g1, g2}
  Root = {m1, m2}
  Outcome <- TriedOutcomes
  Votes = {1}
  Deployer = a1
  MaxTime = 2
  Poll = {p1, p2}
  PageSize = 10
  RootType = "string"
INVARIANTS
  FeedInLedgerOrder
  ViewsTellLedger
PROPERTIES
  FeedShowsEveryBlock
  ImplementsLedger

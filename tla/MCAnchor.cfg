SPECIFICATION AnchorSpec
CONSTANTS
  a1 = a1  a2 = a2  g1 = g1  m1 = m1  m2 = m2  r1 = r1  r2 = r2
  Account = {a1, a2}
  Agent = {g1}
  Root = {m1, m2}
  Outcome <- TriedOutcomes
  Votes <- TriedVotes
  Deployer = a1
  MaxTime = 1
  Request = {r1, r2}
  Wallet = a1
  Guardians = 4
  Mode = "majority"
  Tallies <- FourOrThree
  Foreign <- OneOther
  MaxFaults = 1
  NoRoot = NoRoot
INVARIANTS
  ReportedMeansRecorded
  LedgerBackedByStorage
  ApprovalShowsMajority
CHECK_DEADLOCK FALSE
PROPERTIES
  AnswerNotBlocked
  RecordsInTheEnd

SPECIFICATION VotedSpec
CONSTANTS
  a1 = a1  a2 = a2  c1 = c1  s1 = s1  u1 = u1  u2 = u2  g1 = g1  g2 = g2
  None = None
  Any = Any
  Agent = {a1, a2}
  First = a1
  Kinds <- MCKinds
  Path = {"p"}
  Message <- Messages
  RawPolicy <- RawPolicies
  Turn = {"t1", "t2"}
  Call = {c1, s1}
  Script = {s1}
  Key = {"main", "other"}
  Configured = TRUE
  TTL = 2
  MaxTime = 3
  MaxActs = 4
  MaxGuardians = 8
INVARIANTS
  PassRestsOnApproval
  ToolRunsAsApproved
  ReplyAdmitted
  ExecuteAsDocumented
PROPERTIES
  ComposerComesBack
  EarlyExecutionStands
CHECK_DEADLOCK FALSE

SPECIFICATION SceneSpec
CONSTANTS
  w1 = w1  c = c  a1 = a1  a2 = a2  s1 = s1  s2 = s2  act = act  act2 = act2  both = both  scope = scope  n1 = n1  e1 = e1  l1 = l1
  None = None
  NoRole = NoRole
  EmptyName = EmptyName
  Account = {w1, c}
  Sender = {w1}
  Self = c
  Name = {n1}
  NameOf <- MCNameOf
  Agent = {a1, a2}
  RoleScope = {scope}
  Rules <- FormRules
  Threshold = {2}
  MaxOwned = 2
  Sync = {s1, s2}
  Eval = {e1}
  Action = {act, act2, both}
  Intent <- TriedIntents
  Source = {"kv", "chain"}
  Posts <- OnePost
  MaxBacklog = 1
  Parts <- MCParts
  Load = {l1}
  MaxClicks = 3
  Scenes = {"page", "gate", "form"}
INVARIANTS
  MirrorFollows
  ApprovalsHold
  DialogIsOfAgent
PROPERTY ButtonsComeBack
CHECK_DEADLOCK FALSE

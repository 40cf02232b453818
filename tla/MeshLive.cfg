SPECIFICATION LiveSpec
CONSTANTS
  hub = hub  g1 = g1  g2 = g2
  None = None
  Node = {hub, g1}
  Hub = hub
  Peers <- TwoPeers
  Req = {r1}
  RequestModes <- Phase5Only
  Ballots <- ApproveOnly
  SpoolOnly = TRUE
  QueueCapacity = 100
  MaxFaults = 2
  a1 = a1  a2 = a2
  NoService = NoService
  Request = {a1, a2}
  Service = {"weather"}
  MaxConns = 1
  Streams = {"mcp", "a2a"}
  MaxChanges = 1
  x1 = x1  x2 = x2  x3 = x3  x4 = x4  m1 = m1
  Gossiper = {x1, x2, x3, x4}
  Reachable <- Star
  Msg = {m1}
  DLow = 1
  D = 1
  DHigh = 2
  DGossip = 1
  IWantLimit = 64
PROPERTIES
  EveryRequestAnswered
  EveryQueuedIntentJudged
  PublishedReachesAll
  SlotsComeBack
CHECK_DEADLOCK FALSE

SPECIFICATION EdgesSpec
CONSTANTS
  hub = hub  g1 = g1  g2 = g2
  None = None
  Node = {hub, g1}
  Hub = hub
  Peers <- TwoPeers
  Req = {r1, r2}
  RequestModes <- Phase5Only
  Ballots <- ApproveOnly
  SpoolOnly = FALSE
  QueueCapacity = 100
  MaxFaults = 0
  f1 = f1  f2 = f2  e1 = e1  d1 = d1  d2 = d2  x1 = x1
  Unset = Unset
  File = {f1, f2}
  MaxSize = 6
  MaxFiles = 2
  FileCap = 5
  TotalCap = 8
  CombinedCap = 9
  Header = 1
  Sep = 1
  Reserve = 2
  Notice = 1
  StoreCap = 4
  ReadCap = 3
  DirCap = 2
  SampleCap = 2
  DefaultSample = 1
  DocCap = 1
  Entry = {e1}
  EntryPeers = 3
  ServerMode = "phase5"
  Cmd = {d1, d2}
  Environment <- Environments
  Options <- OneOption
  Value = {x1}
  MaxEndpoints = 2
  q1 = q1  q2 = q2  n1 = n1  n2 = n2  n3 = n3  n4 = n4
  NoService = NoService
  Request = {q1, q2}
  Service = {"weather"}
  MaxConns = 1
  Streams = {"mcp", "a2a"}
  MaxChanges = 3
  Gossiper = {n1, n2, n3, n4}
  Reachable <- Star
  Msg = {}
  DLow = 1
  D = 1
  DHigh = 2
  DGossip = 1
  IWantLimit = 64
  Root = Root
  Tree = {n1, n2, n3, n4}
  Parent <- ParentOf
  Sessions = 2
INVARIANTS
  NoVerdictCountedTwice
  WipedNeverReported
  BridgeCodesTell
  TestTellsOfMesh
  CapsKeptAndTold
  AnswersAccountedFor
  MeshWithinBounds
  SuccessIsComplete
SYMMETRY RequestSymmetry
CHECK_DEADLOCK FALSE

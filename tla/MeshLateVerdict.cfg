SPECIFICATION Spec
CONSTANTS
  hub = hub  g1 = g1  g2 = g2
  None = None
  Node = {hub, g1}
  Hub = hub
  Peers <- TwoPeers
  Req = {r1, r2}
  RequestModes <- Unanimous
  Ballots <- ApproveOnly
  SpoolOnly = TRUE
  QueueCapacity = 100
  MaxFaults = 0
INVARIANT UnanimousMeansAllApproved
CHECK_DEADLOCK FALSE

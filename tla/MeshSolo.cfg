SPECIFICATION Spec
CONSTANTS
  hub = hub  g1 = g1  g2 = g2
  None = None
  Node = {hub, g1, g2}
  Hub = hub
  Peers <- ThreePeers
  Req = {r1}
  RequestModes <- AllModes
  Ballots <- YesOrNo
  SpoolOnly = FALSE
  QueueCapacity = 2
  MaxFaults = 1
INVARIANT ExecuteBackedByGuardians
CHECK_DEADLOCK FALSE

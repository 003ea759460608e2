CONSTANTS
  healthy = healthy
  faulty = faulty
  Remote = {r1, r2, r3}
  MaxPeers = 2
  PeerTimeout = 2
  Publisher = {healthy, faulty}
  Interval <- MCInterval
  Faulty = {faulty}
  IdleSleep = 2
  MinSleep = 2
  MaxLag = 1
  SeqSpace = 2
  Boot = 5
  MaxTime = 12
  Absent = Absent
SYMMETRY MCSymmetry
SPECIFICATION CSpec
INVARIANTS TypeOK PeersBounded SilentPeersForgotten BroadcastsReachEntitled HealthyOnTime PeersServed
PROPERTY EvictsLeastRecent

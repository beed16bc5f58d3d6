SPECIFICATION Spec
INVARIANT CapacityBound
PROPERTY ImplementsClaimService
SYMMETRY Symmetry
CHECK_DEADLOCK FALSE
CONSTANTS
  Recordings = {r1, r2}
  Workers = {slot1, slot2}
  RequestWorkers = {}
  Reindexers = {}
  Daemons = {d1}
  Hosts = {hostA, hostB}
  OwnerOf <- MCOwnerSlots
  HostOf <- MCHostOne
  Capacity = 1
  LeaseTicks = 1
  HeartbeatTicks = 1
  NoWorker = NoWorker
  NoRecording = NoRecording
  NoDaemon = NoDaemon
  r1 = r1
  r2 = r2
  slot1 = slot1
  slot2 = slot2
  web = web
  cli = cli
  d1 = d1
  d2 = d2
  hostA = hostA
  hostB = hostB

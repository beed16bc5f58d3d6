SPECIFICATION Spec
INVARIANT LedgerAgrees
INVARIANT LiveClaimIsManned
PROPERTY LiveClaimIsNotStolen
CHECK_DEADLOCK FALSE
CONSTANTS
  Recordings = {r1}
  Workers = {web, cli}
  RequestWorkers = {web, cli}
  Reindexers = {web}
  Daemons = {d1, d2}
  Hosts = {hostA, hostB}
  OwnerOf <- MCOwnerFailover
  HostOf <- MCHostApart
  Capacity = 1
  LeaseTicks = 1
  HeartbeatTicks = 1
  NoWorker = NoWorker
  NoRecording = NoRecording
  NoDaemon = NoDaemon
  r1 = r1
  r2 = r2
  slot1 = slot1
  slot2 = slot2
  web = web
  cli = cli
  d1 = d1
  d2 = d2
  hostA = hostA
  hostB = hostB

SPECIFICATION FairSpec
PROPERTY RestoreIsNotBlocked
\* A recording on disk that nobody touches again stops here.
CHECK_DEADLOCK FALSE
CONSTANTS
  Pollers <- MCPollers
  Visitors <- MCVisitors
  Daemon <- MCDaemon
  AutoDownload = TRUE
  EvictAudio = TRUE
  None = None
  MaxRequests = 1
  MaxFaults = 0
  MaxCrashes = 1
  poll = poll
  web = web
  serve = serve

SPECIFICATION LiveSpec
INVARIANTS AudioIsOnDisk FullCycleKeepsAudio 
PROPERTIES LateDownloadIsMute DownloadsSettle EverythingSettles FailureIsRetried 
\* A recording that is done and never touched again stops here.
CHECK_DEADLOCK FALSE
CONSTANTS
  Settings <- LiveSettings
  Pollers <- MCPollers
  Visitors <- MCVisitors
  Daemon <- MCDaemon
  AutoDownload = TRUE
  EvictAudio = TRUE
  None = None
  MaxRequests = 3
  MaxFaults = 1
  MaxCrashes = 1
  poll = poll
  web = web
  serve = serve

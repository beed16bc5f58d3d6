CONSTANTS
  web1 = web1  web2 = web2
  Main = main
  Process = {main}
  Thread = {web1, web2}
  Home <- HomeOf
  NoOne = NoOne
  MaxRequests = 1
  MaxBirths = 1
  Job = {job1}
  MaxSubmits = 1
  Recording = {r1}
  Overlong = {}
  Syncer = {daemon}
  Daemon = daemon
  Nobody = Nobody
  ImportRuns = 1
  CatalogCrashes = 1
SPECIFICATION LiveSpec
PROPERTIES PauseDrains UploadIsSeen ProcessingEnds DownloadedIsPickedUp
CHECK_DEADLOCK FALSE

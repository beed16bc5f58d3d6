CONSTANTS
  System = {"gate", "worker", "catalog", "automations", "start",
            "evidence", "polish", "outline", "reduction",
            "voices", "texts", "notes", "profiles", "backups"}
  Main = main
  Process = {main}
  Thread = {web1, web2}
  Home <- HomeOf
  NoOne = NoOne
  MaxRequests = 2
  MaxBirths = 2
  Job = {job1}
  MaxSubmits = 2
  Recording = {r1, r2}
  Overlong = {r2}
  Syncer = {daemon, browser}
  Daemon = daemon
  Nobody = Nobody
  ImportRuns = 1
  CatalogCrashes = 1
  weak = weak  strong = strong
  Rule = {weak, strong}
  Priority <- PriorityOf
  OnTranscript = {weak}
  NoRule = NoRule
  Evaluator = {poller, pipeline}
  Pipeline = pipeline
  Edited = {strong}
  MaxVersion = 2
  MaxTries = 2
  Starter = {serve, cli1}
  NoStarter = NoStarter
  StartCrashes = 2
  Chunks = 2
  Batches = 1
  Repairs = 1
  Parallelism = 2
  MaxReplies = 2
  StageTries = 2
  Segments = 5
  Blank = {2}
  PolishRange <- Ranges
  ReviewBatch = 2
  PolishWorkers = 2
  Timeline <- Timelines
  PartOf = 2
  OutlineReplies <- Namings
  MaxChapters = 3
  FewChapters = 2
  Gap = 1
  PerChapter = 3
  LongChunks = 2
  ChunkChars = 5
  NoteLength = {2, 7}
  MaxRounds = 2
  Writing = {"note", "map"}
  k1 = k1  k2 = k2
  Key = {k1, k2}
  Turn = {1, 2}
  Name = {ann}
  Unnamed = Unnamed
  MaxVoiceEvents = 3
  MaxPasses = 2
  Width = 2
  MaxTakes = 2
  MaxChanges = 4
  Template = {meeting, actions}
  Retired = old
  Primary = meeting
  Label = Speaker1
  Called = {ann}
  MaxDrafts = 5
  MaxNoteOps = 3
  m1 = m1  m2 = m2
  ours = ours
  Model = {m1, m2}
  File = {ours}
  OwnFiles = {ours}
  Profiles = 2
  MaxEdits = 3
  Media = {audio, wav, peaks}
  Cached = {peaks}
  Original = audio
  MaxArchives = 2
  KeepLatest = 1
  Courier = {sender1, sender2}
  MaxWrites = 2
  MaxSends = 2
SPECIFICATION ServicesSpec
INVARIANTS ServicesTypeOK AnswerHolds JobSafety CatalogSafety AutomationSafety   AlgorithmSafety
PROPERTY TextSafety
VIEW AtHand
CHECK_DEADLOCK FALSE

SPECIFICATION FairSpec
 
INVARIANT SearchIsCurrent
INVARIANT OneCallPerDocument
PROPERTY NoteIsIndexed
\* Notes that are indexed and never touched again stop here.
CHECK_DEADLOCK FALSE
CONSTANTS
  preferred = preferred
  fallback = fallback
  None = None
  Notes = {note1}
  Generated = {note1}
  Indexers = {slot, cli}
  Askers = {}
  Daemon = {slot}
  Tokens = {t1, t2, t3}
  Spaces = {preferred, fallback}
  Profiles <- MCFallbackThenOther
  Models = 1
  Ceiling = 2
  MaxVersion = 2
  MaxRequests = 1
  MaxFaults = 1
  MaxCrashes = 1

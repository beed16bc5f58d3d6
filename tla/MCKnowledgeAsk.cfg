SPECIFICATION Spec
INVARIANT LedgerIsExact
INVARIANT EvidenceStands
INVARIANT AnswerFollowsHistory
\* A conversation nobody continues stops here.
CHECK_DEADLOCK FALSE
CONSTANTS
  preferred = preferred
  fallback = fallback
  None = None
  Notes = {note1}
  Generated = {}
  Indexers = {slot}
  Askers = {tab1, tab2}
  Daemon = {slot, tab1, tab2}
  Tokens = {t1}
  Spaces = {preferred, fallback}
  Profiles <- MCOneThenOther
  Models = 2
  Ceiling = 3
  MaxVersion = 2
  MaxRequests = 1
  MaxFaults = 1
  MaxCrashes = 1

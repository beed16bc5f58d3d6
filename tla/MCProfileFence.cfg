SPECIFICATION ProfileSpec
INVARIANT EveryWorkerIsFenced
\* The edits of the owner are used up.
CHECK_DEADLOCK FALSE
CONSTANTS
  m1 = m1  m2 = m2
  ours = ours  theirs = theirs
  Model = {m1, m2}
  File = {ours, theirs}
  OwnFiles = {ours}
  Profiles = 2
  MaxEdits = 2

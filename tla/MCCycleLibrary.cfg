SPECIFICATION Spec
INVARIANT TypeOK
INVARIANT DoneIsCurrent
INVARIANT QueuedIsRunnable
PROPERTY MarkOutlivesAttempt
PROPERTY HumanEditSurvives
PROPERTY RollUpIsHonest
PROPERTY MapReadsCurrentNote
\* A recording that is done and never touched again stops here.
CHECK_DEADLOCK FALSE
CONSTANT Settings <- MCSafety

SPECIFICATION Spec
INVARIANT QueuedIsRunnable
\* A recording that is done and never touched again stops here.
CHECK_DEADLOCK FALSE
CONSTANT Settings <- MCRestart

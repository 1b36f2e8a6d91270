\* One program that forks one child, and waitpid on it.  Every process
\* may exit and Run then ends, so the system really stops.
CONSTANTS
  MaxPid = 2
  NumProgs = 1
SPECIFICATION Spec
INVARIANT WaitTargetAlive
CHECK_DEADLOCK FALSE

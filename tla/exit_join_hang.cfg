\* Two threads of one process, each free to join, cancel, call
\* pthread_exit or exit.  A process whose last thread sleeps forever
\* really stops, so deadlock is not an error here; ExitTerminates says
\* whether that can happen after exit.
CONSTANTS
  Threads = {1, 2}
SPECIFICATION Spec
PROPERTY ExitTerminates
CHECK_DEADLOCK FALSE

\* One fork: a parent and a child sharing two pages, single-threaded,
\* no teardown.  Checks isolation and the owner-set discipline.
CONSTANTS
  NumProcs = 2
  InitThreads = 1
  NumVPages = 2
  NumFrames = 10
  MaxWrites = 3
SPECIFICATION CoreSpec
INVARIANT Isolation
INVARIANT OwnersHoldReadOnly
PROPERTY FaultCompletes

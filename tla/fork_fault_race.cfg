\* Nested forks: a process forks while its earlier partner resolves a
\* shared page in case 2 of handleCOWPageFault.
CONSTANTS
  NumProcs = 3
  InitThreads = 1
  NumVPages = 1
  NumFrames = 7
  MaxWrites = 3
SPECIFICATION CoreSpec
INVARIANT Isolation

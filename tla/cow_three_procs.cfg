\* Two forks: up to three processes share a frame, so the >= 3 branch of
\* handleCOWPageFault runs; single-threaded, no teardown.
CONSTANTS
  NumProcs = 3
  InitThreads = 1
  NumVPages = 1
  NumFrames = 7
  MaxWrites = 3
SPECIFICATION CoreSpec
INVARIANT NoFrameLeak
PROPERTY FaultCompletes

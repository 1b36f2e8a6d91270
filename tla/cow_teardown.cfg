\* One fork with exit and teardown (eraseProcessFromCOWMap, ~ArchMemory);
\* a sole remaining owner runs case 1 of handleCOWPageFault.
CONSTANTS
  NumProcs = 2
  InitThreads = 1
  NumVPages = 2
  NumFrames = 10
  MaxWrites = 3
SPECIFICATION Spec
INVARIANT TypeOK
INVARIANT OwnersHoldReadOnly
INVARIANT NoFrameLeak
PROPERTY FaultCompletes

CONSTANTS
  MaxPid = 3
  NumProgs = 2
SPECIFICATION Spec
INVARIANT NoWaitCycle
PROPERTY RegistryFinishes
\* Run ends after the last process, and a kernel fault stops every step.
CHECK_DEADLOCK FALSE

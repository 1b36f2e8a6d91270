\* The parent opens a pipe of 3 slots (2 characters), forks, and writes
\* while the child reads; both may close the pipe and exit at any point.
CONSTANTS
  Size = 3
  Chars = {"a", "b"}
  Writers = {1}
  Readers = {2}
  MaxCount = 2
  MaxCalls = 4
SPECIFICATION Spec
INVARIANTS TypeOK PipeLivesWithHolders
PROPERTIES PipeRefined
\* Every behaviour ends with the syscall budget spent or both processes gone.
CHECK_DEADLOCK FALSE

\* An exec'd process, or a fork child whose parent's thread had 2 stack
\* pages and whose stack_pages_ happens to hold 0; its main thread
\* creates a second one and both fault on their stacks (3 pages at most)
\* and on an image page, inside one hierarchy with 2 entries per table.
CONSTANTS
  Fanout = 2
  Threads = {1, 2}
  NumFrames = 24
  CheckedPages = {0, 1, 2, 3, 4, 5, 6, 7}
  StackMaxPages = 3
  StackSpaceEnd = 1
  ImagePages = {0}
  Offsets = {1}
  Origins = {"exec", "fork"}
  ParentStackPages = {2}
  Garbage = {0}
SPECIFICATION StackSpec
INVARIANTS LiveFramesAllocated StackCommitted
PROPERTIES FaultCompletes

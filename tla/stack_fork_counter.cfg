\* A fork child whose parent's thread had 2 stack pages; the child's thread
\* keeps whatever stack_pages_ held: 0, 2 (the right count) or 65535.
CONSTANTS
  Fanout = 2
  Threads = {1}
  NumFrames = 16
  CheckedPages = {0, 1, 2, 3, 4, 5, 6, 7}
  StackMaxPages = 3
  StackSpaceEnd = 1
  ImagePages = {0}
  Offsets = {1}
  Origins = {"fork"}
  ParentStackPages = {2}
  Garbage = {0, 2, 65535}
SPECIFICATION StackSpec
INVARIANT StackFaultsServed

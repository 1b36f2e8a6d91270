\* One thread mapping and unmapping user pages 0, 1 and 4 of a hierarchy
\* with 2 entries per table: 0 and 1 share a PT, 0 and 4 share only the
\* PDPT, so every table is created and every cascade depth is reclaimed.
CONSTANTS
  Fanout = 2
  Threads = {1}
  NumFrames = 10
  CheckedPages = {0, 1, 4}
SPECIFICATION Spec
INVARIANTS TablesReclaimed NoFrameLeak
PROPERTIES AddressSpaceRefined

\* Parent and child both write a shared page: the later fault is judged
\* after the earlier one's case 2 has resolved both sides.
CONSTANTS
  NumProcs = 2
  InitThreads = 1
  NumVPages = 2
  NumFrames = 10
  MaxWrites = 3
SPECIFICATION CoreSpec
INVARIANT LegitimateFaultsSurvive

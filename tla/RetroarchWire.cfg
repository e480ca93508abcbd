SPECIFICATION FairSpec
CONSTANTS
  Lists <- FewLists
  FrameSizes <- FewFrames
  MaxStray = 2
INVARIANTS TypeOK AddsUp RightPlace GivenUpExplained
PROPERTIES Returns

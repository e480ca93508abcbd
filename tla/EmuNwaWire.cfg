SPECIFICATION FairSpec
CONSTANTS
  Lists <- FewLists
INVARIANTS TypeOK InStep SwallowExplained NoMutualWait EndExplained
PROPERTIES Returns

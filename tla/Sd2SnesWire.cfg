SPECIFICATION FairSpec
CONSTANTS
  Block = 4
  VBlock = 2
  ByteRange = 3
  MaxEntries = 2
  InFlight = 1
  Lists <- FewLists
  Lengths <- FewLengths
INVARIANTS TypeOK InStep Trimmed PanicExplained
PROPERTIES Returns

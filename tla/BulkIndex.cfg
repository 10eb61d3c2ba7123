CONSTANTS
  Exports <- MCExports
  Mixes <- MCMixes
  Size = 8
  Hashes = {0, 7}
  NThreads = 3
SPECIFICATION FairSpec
INVARIANTS DupExact OneHandle Findable
PROPERTIES Termination

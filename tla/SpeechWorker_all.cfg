SPECIFICATION FairSpec
CONSTANTS
  MaxSpeeches = 2
  MaxStops = 1
  MaxChunks = 2
INVARIANTS  EndMeansWhole
PROPERTIES SilentAfterStop  
CHECK_DEADLOCK FALSE

SPECIFICATION FairSpec
CONSTANTS
  c1 = c1  c2 = c2  c3 = c3
  Clients = {c1, c2, c3}
  NoOne = NoOne
  MaxChunks = 3
  Capacity = 2
INVARIANTS CleanWhenIdle OwnAudio 
PROPERTIES EveryRequestEnds OnlyPeersHoldUp
CHECK_DEADLOCK FALSE

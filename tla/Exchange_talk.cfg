SPECIFICATION Spec
CONSTANTS
  c1 = c1  c2 = c2  c3 = c3
  Clients = {c1, c2, c3}
  NoOne = NoOne
  MaxChunks = 2
  Capacity = 2
INVARIANT NoForeignAudio
CHECK_DEADLOCK FALSE

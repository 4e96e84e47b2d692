SPECIFICATION RenderSpec
CONSTANTS
  Conns = {c1, say}
  Say = say
  Main = Main
  Nobody = Nobody
  MaxStarts = 2
  Segments = 2
  MaxChunks = 1
  SizeLimit = 1
INVARIANTS   HeaderFits
PROPERTIES StopEnds SayEnds
CHECK_DEADLOCK FALSE

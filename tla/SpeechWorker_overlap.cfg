SPECIFICATION Spec
CONSTANTS
  MaxSpeeches = 2
  MaxStops = 1
  MaxChunks = 2
PROPERTY OnlyCurrentSpeech
CHECK_DEADLOCK FALSE

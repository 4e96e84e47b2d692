SPECIFICATION MCSpec
CONSTANTS
  Modelled = {"kokoro", "pocket", "moss", "longcat", "omnivoice", "qwen3", "qwen3Held"}
  MaxFrames = 2
  MaxPieces = 2
  MaxEdits = 2
  MaxRequests = 2
  MaxStarts = 2
  Target = 3
  HardCap = 4
  MaxText = 6
INVARIANTS PromptNotOlder 
PROPERTIES ThreadAlone Promise RequestAnswered ProcessLeaves
CHECK_DEADLOCK FALSE

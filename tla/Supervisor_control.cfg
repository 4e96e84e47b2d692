SPECIFICATION FairSpec
CONSTANTS
  kokoro = kokoro  qwen3 = qwen3  omnivoice = omnivoice
  c1 = c1  c2 = c2  c3 = c3
  Registry <- ThreeProviders
  Installed = {kokoro, qwen3}
  Clients = {c1}
  Controls = {reload}
  Idle = idle
  NoOne = NoOne
  IdleEviction = TRUE
  Slots = {1, 2}
  MaxCrashes = 0
  MaxStartFailures = 1
PROPERTIES ControlsAnswered EnumerationSkipsForCause

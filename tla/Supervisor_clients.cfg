SPECIFICATION FairSpec
CONSTANTS
  kokoro = kokoro  qwen3 = qwen3  omnivoice = omnivoice
  c1 = c1  c2 = c2  c3 = c3
  Registry <- TwoProviders
  Installed = {kokoro, qwen3}
  Clients = {c1, c2}
  Controls = {}
  Idle = idle
  NoOne = NoOne
  IdleEviction = FALSE
  Slots = {1, 2}
  MaxCrashes = 1
  MaxStartFailures = 0
PROPERTY ClientsAnswered

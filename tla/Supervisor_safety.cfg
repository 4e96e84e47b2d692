SPECIFICATION Spec
CONSTANTS
  kokoro = kokoro  qwen3 = qwen3  omnivoice = omnivoice
  c1 = c1  c2 = c2  c3 = c3
  Registry <- TwoProviders
  Installed = {kokoro, qwen3}
  Clients = {c1, c2}
  Controls = {}
  Idle = idle
  NoOne = NoOne
  IdleEviction = TRUE
  Slots = {1, 2}
  MaxCrashes = 1
  MaxStartFailures = 1
SYMMETRY ClientSymmetry
INVARIANTS TypeOK NoForgottenChild SettledActive RoutedToOwner
PROPERTIES IdleLoopEndsByCollision SlotPromise

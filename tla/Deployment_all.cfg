SPECIFICATION Spec
CONSTANTS
  MaxEdits = 2
  MaxScripts = 3
INVARIANTS  OneLinePerRepo InstallComplete UninstallLeavesNone
 
CHECK_DEADLOCK FALSE

CONSTANTS
  Floor = 1
  Mtms <- MCMtms
  SlRs = 3
  LossRs = 3
  PreBreachRs = 3
  TargetRs = 5
  PctRs = 4
  Stress = {}
  Overlays <- MCOverlays
  Confirm = 0
  Cooldown = 0
  RetryAfter = 1
  Reloaders = {"periodic"}
  MaxDisturbed = 2
  WritesFail = FALSE
SPECIFICATION Spec
CHECK_DEADLOCK FALSE
INVARIANTS
  PeakDurable
PROPERTIES
  PointerNeverBack

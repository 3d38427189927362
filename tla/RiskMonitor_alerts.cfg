CONSTANTS
  Floor = 1
  Mtms <- MCLosses
  SlRs = 4
  LossRs = 3
  PreBreachRs = 1
  TargetRs = 2
  PctRs = 2
  Stress = {}
  Overlays <- MCOverlay
  Confirm = 1
  Cooldown = 1
  RetryAfter = 1
  Reloaders = {"periodic"}
  MaxDisturbed = 0
  WritesFail = FALSE
SPECIFICATION Spec
CHECK_DEADLOCK FALSE
INVARIANTS
  TypeOK
PROPERTIES
  AlertOncePerBreach
  KeepsTrying

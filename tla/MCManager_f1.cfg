\* Two slots for rebuild tasks, one instance may die; get_world_size on a dead
\* instance does not raise here, so only the scale_down paths are exercised.
CONSTANTS
  i1 = i1  i2 = i2  i3 = i3  r1 = r1  r2 = r2
  Inst <- MCInst
  RSlots <- MCRSlots
  MaxCrashes = 1
  InitMayFail = FALSE
  TaskErrors = FALSE
  MaxMigrations = 1
  WorldSizeRaises = FALSE
  Tp <- MCTp
  InstOrder <- MCOrder
SPECIFICATION Spec
INVARIANT PendingHandled

\* One instance may die; ray.get(get_world_size) raises when it is dead.
CONSTANTS
  i1 = i1  i2 = i2  i3 = i3  r1 = r1  r2 = r2
  Inst <- MCInst2
  RSlots <- MCRSlots
  MaxCrashes = 1
  InitMayFail = FALSE
  TaskErrors = FALSE
  MaxMigrations = 1
  WorldSizeRaises = TRUE
  Tp <- MCTp2
  InstOrder <- MCOrder2
SPECIFICATION Spec
INVARIANT MigrationEnabledWhenIdle

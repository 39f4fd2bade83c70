\* Two instances, one may die, one migration: the survivor's cleanup.
CONSTANTS
  i1 = i1  i2 = i2  i3 = i3  r1 = r1  r2 = r2
  Inst <- MCInst2
  RSlots <- MCRSlots
  MaxCrashes = 1
  InitMayFail = FALSE
  TaskErrors = FALSE
  MaxMigrations = 1
  WorldSizeRaises = FALSE
  Tp <- MCTp2
  InstOrder <- MCOrder2
SPECIFICATION Spec
PROPERTY SurvivorCleared

\* Instances only join; init_backend may time out during a rebuild.
CONSTANTS
  i1 = i1  i2 = i2  i3 = i3  r1 = r1  r2 = r2
  Inst <- MCInst
  RSlots <- MCRSlots
  MaxCrashes = 0
  InitMayFail = TRUE
  TaskErrors = FALSE
  MaxMigrations = 2
  WorldSizeRaises = TRUE
  Tp <- MCTp
  InstOrder <- MCOrder
SPECIFICATION Spec
INVARIANT GroupConsistent

\* Instances join and one of them may die at any point: the poll loop,
\* the migration callbacks and the rebuild task all scale it down.
CONSTANTS
  i1 = i1  i2 = i2  i3 = i3  r1 = r1  r2 = r2
  Inst <- MCInst2
  RSlots <- MCRSlots
  MaxCrashes = 1
  InitMayFail = FALSE
  TaskErrors = FALSE
  MaxMigrations = 3
  WorldSizeRaises = TRUE
  Tp <- MCTp2
  InstOrder <- MCOrder2
SPECIFICATION Spec
INVARIANT TypeOK
INVARIANT MigrationExclusive

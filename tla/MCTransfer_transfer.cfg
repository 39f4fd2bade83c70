\* Stages of 0..3 blocks through a 2-block buffer, 2 layers, both backends,
\* equal tp and fan-in, plus RayRpc fan-out of 0..2 blocks; with and without
\* SPMD workers, last stage or not.
CONSTANTS
  Stages <- MCStagesPass
  BufBlocks = 2
  Layers = 2
  SpmdModes = {FALSE, TRUE}
  LastModes = {FALSE, TRUE}
SPECIFICATION Spec
INVARIANT TypeOK
INVARIANT TransferDelivers

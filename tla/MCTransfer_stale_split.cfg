\* Fan-out: one source worker, two destination workers (chunk ranks 0 and
\* 1), a stage of 0..3 blocks through a 2-block buffer, 2 layers, both
\* backends, no SPMD metadata.
CONSTANTS
  Stages <- MCStagesFanOut
  BufBlocks = 2
  Layers = 2
  SpmdModes = {FALSE}
  LastModes = {FALSE}
SPECIFICATION Spec
INVARIANT TransferDelivers

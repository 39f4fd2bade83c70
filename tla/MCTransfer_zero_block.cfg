\* A stage of 0..2 blocks of every shape (equal tp, fan-in, fan-out) on both
\* backends, with and without SPMD workers, last stage or not.
CONSTANTS
  Stages <- MCStagesAll
  BufBlocks = 2
  Layers = 1
  SpmdModes = {FALSE, TRUE}
  LastModes = {FALSE, TRUE}
SPECIFICATION Spec
INVARIANT StageSucceeds

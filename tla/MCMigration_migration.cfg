\* Two requests on the source, each finishing with its 3rd token; r2 is a
\* blocking migration (every stage is its last), r1 a live one whose stages
\* of one block are the last.  The destination has 1 or 4 free blocks, so
\* pre-allocations both succeed and are refused and every abort path is
\* taken; at most 3 migrations; with and without async output processing.
CONSTANTS
  r1 = r1
  r2 = r2
  Reqs <- MCReqs
  MaxTok = 3
  Blocking <- MCBlocking
  LastStageMaxBlocks = 1
  DstBlockModes = {1, 4}
  MaxAttempts = 3
  AsyncModes = {FALSE, TRUE}
  SpmdWorker = TRUE
SPECIFICATION Spec
INVARIANT TypeOK RequestPlaced MetadataFollowsRequest
PROPERTY MigrationRefinesAbs MigrationEnds ClientFinishes MetadataReleased

----------------------------- MODULE MCMigration -----------------------------
EXTENDS Migration

CONSTANTS r1, r2

MCReqs == {r1, r2}
MCBlocking == {r2}
=============================================================================

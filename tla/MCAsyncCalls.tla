---------------------------- MODULE MCAsyncCalls ----------------------------
EXTENDS AsyncCalls, TLC

CONSTANTS j1, j2

MCJobs == {j1, j2}
=============================================================================

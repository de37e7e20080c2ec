----------------------------- MODULE MCTaskRun -----------------------------
EXTENDS TaskRun
=============================================================================

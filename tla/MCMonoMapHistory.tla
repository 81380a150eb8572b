-------------------------- MODULE MCMonoMapHistory --------------------------
EXTENDS MCMonoMap, MonoMapHistory
=============================================================================

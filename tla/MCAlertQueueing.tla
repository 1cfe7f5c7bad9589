-------------------------- MODULE MCAlertQueueing --------------------------
EXTENDS AlertQueueing

CONSTANTS l1, l2, i1
=============================================================================

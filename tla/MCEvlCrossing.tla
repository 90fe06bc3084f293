---------------------------- MODULE MCEvlCrossing ----------------------------
\* Model values for EvlCrossing: the operations are given in the .cfg.
EXTENDS EvlCrossing
==============================================================================

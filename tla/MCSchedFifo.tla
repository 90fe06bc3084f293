------------------------------ MODULE MCSchedFifo ------------------------------
\* Constants for SchedFifo come from the configuration.
EXTENDS SchedFifo
==============================================================================

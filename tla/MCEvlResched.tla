----------------------------- MODULE MCEvlResched -----------------------------
\* Constants for EvlResched come from the configurations.
EXTENDS EvlResched, TLC

\* The CPUs are interchangeable; for the configuration without liveness.
CpuSymmetry == Permutations(CPUs)
==============================================================================

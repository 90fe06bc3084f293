---------------------------- MODULE MCEvlSpinlock ----------------------------
\* Constants for EvlSpinlock come from the configurations.
EXTENDS EvlSpinlock, TLC

\* The CPUs are interchangeable; for the configurations without liveness.
CpuSymmetry == Permutations(CPUs)
==============================================================================

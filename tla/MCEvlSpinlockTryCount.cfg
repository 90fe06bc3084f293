SPECIFICATION SpecL
CONSTANTS
  CPUs = {cpu0, cpu1}
  MaxNest = 1
  Locks = {1}
  TryLocks = TRUE
INVARIANTS CountIsNesting
SYMMETRY CpuSymmetry

SPECIFICATION SpecL
CONSTANTS
  CPUs = {cpu0, cpu1}
  MaxNest = 2
  Locks = {1, 2}
  TryLocks = TRUE
 
PROPERTIES HolderKeepsCpu
SYMMETRY CpuSymmetry

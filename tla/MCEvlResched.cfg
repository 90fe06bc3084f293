SPECIFICATION Spec
CONSTANTS
  CPUs = {cpu0, cpu1}
  MaxNest = 2
INVARIANTS ReschedNotLost IpisGetSent
PROPERTIES SwitchOnlyWhenAllowed
SYMMETRY CpuSymmetry

SPECIFICATION SpecL
CONSTANTS
  CPUs = {cpu0}
  MaxNest = 2
  Locks = {1, 2}
  TryLocks = FALSE
PROPERTIES ReschedAfterUnlock

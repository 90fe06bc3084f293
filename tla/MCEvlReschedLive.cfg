SPECIFICATION Spec
CONSTANTS
  CPUs = {cpu0, cpu1}
  MaxNest = 0

PROPERTIES ReschedHappens

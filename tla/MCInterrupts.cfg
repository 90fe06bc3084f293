SPECIFICATION Spec
CONSTANTS
  Harts = {0, 1}
  BootHart = 0
  Fwspecs <- MCFwspecs
  BITS_PER_LONG = 64
  BITS_PER_INT = 32
  ANDES_SLI_CAUSE_BASE = 256
  ANDES_RV_IRQ_LAST = 18
  Lines = {1, 257}
  OobIrqs = {257}
  MaxSections = 2
INVARIANTS StateMatchesSections HwnodeLive 
PROPERTIES KeepsPromise LoggedIsHandled

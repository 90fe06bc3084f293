SPECIFICATION Spec
CONSTANTS
  Threads = {t1, t2, k1}
  Users = {t1, t2}
  Root = root
  MAX_RT_PRIO = 3
INVARIANTS MlqCoherent RunnableLinkedOnce BestRuns
PROPERTIES ImplementsFifo

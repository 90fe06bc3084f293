SPECIFICATION ObjectsSpec
CONSTANTS
  Timers = {"a", "b"}
  Cpus = {0, 1}
  InbandTimers = {"b"}
  InitRq <- MCRq
  InitFlags <- MCFlags
  Gravity <- MCGravity
  Intervals = {1}
  Clients <- MCClients
  MaxDate = 1
  Threads = {"a", "b"}
  UserThreads = {"a"}
  EVL_CORE_MIN_PRIO = 0
  EVL_CORE_MAX_PRIO = 3
  EVL_FIFO_MIN_PRIO = 1
  EVL_FIFO_MAX_PRIO = 2
  EVL_WEAK_MIN_PRIO = 0
  EVL_WEAK_MAX_PRIO = 1
  EVL_CLASS_WEIGHT_FACTOR = 10
  Agents = {1, 2}
  Addresses = {1, 2}
  Rqs = {1, 2}
  Wchans = {"w", "v"}
  Weights = {1, 2}
  Users = {"a", "b"}
  Creator = "a"
  Handlers = {"h", "i"}
  Watchers = {"p", "q"}
  TrueSize = 2
  rmem_max = 4
INVARIANTS TimersAccountedFor NoLateShot  ClassesAgree NoLockCycle RequeueOwed  FlushWaits  PollNotMissed

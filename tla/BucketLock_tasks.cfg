CONSTANTS
  t1 = t1
  t2 = t2
  SyncActors = {}
  AsyncActors = {t1, t2}
  SlockMax = 1
SPECIFICATION FairSpec
INVARIANTS LockWordExact NoDanglingEntry NoLostWakeup
PROPERTIES RefinesRwLock WaiterIsSignaled DropTerminates

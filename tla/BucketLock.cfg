CONSTANTS
  s1 = s1
  t1 = t1
  SyncActors = {s1}
  AsyncActors = {t1}
  SlockMax = 1
SPECIFICATION FairSpec
INVARIANTS LockWordExact NoDanglingEntry NoLostWakeup
PROPERTIES RefinesRwLock WaiterIsSignaled DropTerminates

\* One task of two steps, one worker, one ticket of the retention job.
SPECIFICATION Spec
CONSTANTS
  Task = {t1}
  Worker = {w1}
  NoWorker = NoWorker
  NoLease = NoLease
  MaxSteps = 2
  LeaseDuration = 2
  MaxVersion = 2
  MaxAge = 0
PROPERTIES
  ActiveNeverPruned

\* Two processes that share a worker id, one task of up to three steps, three faults.
SPECIFICATION FairSpec
CONSTANTS
  Task = {t1}
  Worker = {w1}
  NoWorker = NoWorker
  NoLease = NoLease
  MaxSteps = 3
  LeaseDuration = 3
  MaxVersion = 8
  MaxAge = 0
  Process = {p1, p2}
  IdOf <- SharedId
  StepDelay = 2
  HeartbeatInterval = 1
  MaxFaults = 3
  NoTask = NoTask
INVARIANTS
  SystemIInv
  TokensAreUnique
  HealthyKeepsLease
  OneHealthyExecutor
PROPERTIES
  OldTokensAreRefused
  EveryTaskSettles

\* One process, one task of up to four steps, no faults. The delay of a step is
\* shorter than the heartbeat interval, which main accepts.
SPECIFICATION SystemSpec
CONSTANTS
  Task = {t1}
  Worker = {w1}
  NoWorker = NoWorker
  NoLease = NoLease
  MaxSteps = 4
  LeaseDuration = 3
  MaxVersion = 2
  MaxAge = 0
  Process = {p1}
  IdOf <- SharedId
  StepDelay = 1
  HeartbeatInterval = 2
  MaxFaults = 0
  NoTask = NoTask
INVARIANTS
  HealthyKeepsLease

\* Three processes, one of which only migrates; a task of up to two steps; two faults.
SPECIFICATION FairMigrationSpec
CONSTANTS
  Task = {t1}
  Worker = {w1}
  NoWorker = NoWorker
  NoLease = NoLease
  MaxSteps = 2
  LeaseDuration = 1
  MaxVersion = 1
  MaxAge = 0
  Starter = {server, worker, job}
  MigrateOnly = {job}
  Nobody = Nobody
  DeadSession = DeadSession
  MaxFaults = 2
INVARIANTS
  MigrationIInv
  LedgerTellsSchema
  NobodyOvertakes
  ServingHasSchema
  OldActiveHasLease
PROPERTIES
  EveryoneServes
  OldTasksAreTakenOver

\* Two processes and two tasks; leases of one tick in a race of up to three,
\* transactions of up to one tick, two faults.
SPECIFICATION FairRaceSpec
CONSTANTS
  Task = {1, 2}
  Worker = {1, 2}
  NoWorker = NoWorker
  NoLease = NoLease
  MaxSteps = 1
  LeaseDuration = 1
  MaxVersion = 4
  MaxAge = 1
  Workers = 2
  Tasks = 2
  NoTask = NoTask
  MaxFaults = 2
  MaxTime = 3
CHECK_DEADLOCK FALSE
INVARIANTS
  VerdictIsTrue
PROPERTIES
  RaceImplementsStore
  RaceEnds

\* One task of up to two steps, two workers, two hand-overs, up to ten events.
SPECIFICATION ActivitySpec
CONSTANTS
  Task = {t1}
  Worker = {w1, w2}
  NoWorker = NoWorker
  NoLease = NoLease
  MaxSteps = 2
  LeaseDuration = 1
  MaxVersion = 2
  MaxAge = 0
  MaxEvents = 10
SYMMETRY Interchangeable
INVARIANTS
  LogTellsTables
  EventsAreTheOwners
  FirstReportIsUnique
  CancelledIsLastEvent
PROPERTIES
  EventsTellChange

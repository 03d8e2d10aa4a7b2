\* Two tasks of up to three steps, two workers, two hand-overs per task, and
\* transactions that may have waited one tick for their lock.
SPECIFICATION Spec
CONSTANTS
  Task = {t1, t2}
  Worker = {w1, w2}
  NoWorker = NoWorker
  NoLease = NoLease
  MaxSteps = 3
  LeaseDuration = 1
  MaxVersion = 2
  MaxAge = 1
SYMMETRY Interchangeable
INVARIANTS
  IInv
  StepsInOrder
  StatusAgreesWithSteps
  LogAgreesWithSteps
  ActiveHasLease
  OwnerCanProceed
PROPERTIES
  TerminalIsFinal
  StepsMoveForward
  ImplementsLifecycle

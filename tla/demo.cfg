\* Two requests at a time, two goroutines each, four demos of which one is kept,
\* two faults. The system stops when the last demo was run.
SPECIFICATION Spec
CONSTANTS
  Handler = {h1, h2}
  Racer = {r1, r2}
  NoRacer = NoRacer
  Keep = 1
  MaxDemos = 4
  MaxFaults = 2
SYMMETRY Interchangeable
CHECK_DEADLOCK FALSE
INVARIANTS
  OneWinner
  NothingLeftBehind
  DoneDemosBounded

\* Two requests at a time, four demos of which one is kept, no faults.
SPECIFICATION Spec
CONSTANTS
  Handler = {h1, h2}
  Racer = {r1, r2}
  NoRacer = NoRacer
  Keep = 1
  MaxDemos = 4
  MaxFaults = 0
CHECK_DEADLOCK FALSE
INVARIANTS
  OnlyRecentDemosKept

\* One request, one demo, no faults.
SPECIFICATION Spec
CONSTANTS
  Handler = {h1}
  Racer = {r1, r2}
  NoRacer = NoRacer
  Keep = 1
  MaxDemos = 1
  MaxFaults = 0
CHECK_DEADLOCK FALSE
PROPERTIES
  CancelledIsTerminal

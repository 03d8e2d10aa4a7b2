\* Two tasks of up to two steps on pages of one task, one click, one failing call.
SPECIFICATION DashboardSpec
CONSTANTS
  Task = {1, 2}
  Worker = {w1}
  NoWorker = NoWorker
  MaxSteps = 2
  Request = {1, 2}
  PageSize = 1
  MaxToken = 1
  MaxChanges = 5
  MaxClicks = 1
  MaxFaults = 1
INVARIANTS
  StepsFitTheirTask
PROPERTIES
  NeverGoesBack
  PageSettles

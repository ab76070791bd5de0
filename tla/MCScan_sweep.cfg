SPECIFICATION MCSpec
CONSTANTS
  d1 = d1  d2 = d2
  Dets = {d1, d2}
  CanPause = {d1}
  Commands = {"break", "stop", "step"}
  MaxCommands = 1
  Faults = {}
  NPoints = 2
  MaxCalls = 2
  Sweep = TRUE
  DataFaults = {}
INVARIANTS StopEndsScript

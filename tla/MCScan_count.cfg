SPECIFICATION MCFairSpec
CONSTANTS
  d1 = d1  d2 = d2
  Dets = {d1, d2}
  CanPause = {d1}
  Commands = {"break", "stop", "step", "finish", "pausecount"}
  MaxCommands = 2
  Faults = {"prepare", "loop", "put", "pausing", "finishing", "resuming", "stop"}
  NPoints = 2
  MaxCalls = 2
  Sweep = TRUE
  DataFaults = {"create", "begin", "values", "end", "move"}
INVARIANTS ScanTypeOK NoneLeftCounting PausedCountsNothing EveryResult NothingLeftOpen OwnParent 
PROPERTIES CallsEnd

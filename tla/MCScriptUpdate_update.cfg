SPECIFICATION MCFairSpec
CONSTANTS
  h1 = h1  h2 = h2  a = a  b = b  None = None
  Blocks = {a, b}
  MaxLen = 3
  Handlers = {h1, h2}
  MaxUpdates = 2
INVARIANTS ShownIsRun
PROPERTIES PastKept ScriptEnds

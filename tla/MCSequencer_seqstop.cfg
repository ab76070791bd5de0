SPECIFICATION MCFairSpec
CONSTANTS
  u1 = u1  u2 = u2  a1 = a1  a2 = a2
  Users = {u1, u2}
  Ops <- WithReset
  MaxCalls <- TwoAndOne
  MaxSeqs = 2
  NSteps = 2
  Actions = {a1, a2}
  HonorStop = TRUE
  Faults = {"run", "wait", "stop", "other"}
INVARIANTS OneSequence StopBound SuccessMeansDone
PROPERTIES StopEnds

SPECIFICATION FairSpec
CONSTANTS
  s1 = s1  s2 = s2
  Sessions = {s1, s2}
  Nobody = Nobody
  Ended = Ended
  Timeout = 1
  Retries = 1
  Others = {"slave"}
  Wanting = {s1}
  MaxFaults = 2
INVARIANTS MastersHoldLock
PROPERTIES LockComesFree

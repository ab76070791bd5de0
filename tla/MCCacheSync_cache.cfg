SPECIFICATION MCFairSpec
CONSTANTS
  w1 = w1  w2 = w2  r1 = r1  a = a  b = b
  Writers = {w1, w2}
  Readers = {r1}
  Values = {a, b}
  Absent = Absent
  MaxPuts = 2
  MaxFaults = 2
INVARIANTS CopiesAgree
PROPERTIES CatchesUp

SPECIFICATION MCFairSpec
CONSTANTS
  a = a  b = b  c = c  w = w  Dummy = dummy
  Setups = {a, b, c, w}
  Plan <- Grows
  Changes = {"late"}
  Autosetup = FALSE
  Poll = {a, b, c}
  Neverpoll = {c}
  Alwayspoll = {w}
  Signals = {"quit", "reload"}
  MaxPids = 6
  MaxCrashes = 2
INVARIANTS TypeOK OnePerSetup Reflects MasterSurvives
PROPERTIES CatchesUp QuitEnds

SPECIFICATION AuditSpec
CONSTANTS
  c1 = c1  c2 = c2
  s1 = s1  s2 = s2  s3 = s3  e1 = e1  e2 = e2  setup = setup
  Handlers = {c1, c2}
  Free = Free
  NoReq = NoReq
  Scripts = {s1}
  Estops = {e1}
  Setup = setup
  Requests = {s1, e1, setup}
  NBlocks = 1
  Levels = {2}
  Ops <- EmergencyOps
  MaxCommands <- EmergencyCommands
  StopLevels = {1}
  IdLists <- NoIdLists
  ScriptSteps = {}
  ClearOnStart = {FALSE}
CHECK_DEADLOCK FALSE
PROPERTIES EmergencyInterrupts

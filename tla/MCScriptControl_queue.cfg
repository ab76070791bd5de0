SPECIFICATION MCFairSpec
CONSTANTS
  c1 = c1  c2 = c2
  s1 = s1  s2 = s2  s3 = s3  e1 = e1  e2 = e2  setup = setup
  Handlers = {c1, c2}
  Free = Free
  NoReq = NoReq
  Scripts = {s1, s2, s3}
  Estops = {}
  Setup = setup
  Requests = {s1, s2, s3, setup}
  NBlocks = 1
  Levels = {}
  Ops <- QueueOps
  MaxCommands <- QueueCommands
  StopLevels = {1}
  IdLists <- SomeIdLists
  ScriptSteps = {"badsyntax"}
  ClearOnStart = {TRUE}
INVARIANTS EventExact AtOnePlace NothingLost
PROPERTIES RearrangedAsAsked RefinesLifecycle QueueDrains CommandsEnd

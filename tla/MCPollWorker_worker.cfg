SPECIFICATION MCFairSpec
CONSTANTS
  slow = slow  none = none
  Intervals = {slow, none}
  NoInterval = none
  TimesOutAt = 3
  Volatile = TRUE
  Happens = {"adev_busy", "dev_target"}
  MaxQueue = 1
INVARIANTS StopBound
PROPERTIES PollsAgain FollowsParameter ProcessEnds

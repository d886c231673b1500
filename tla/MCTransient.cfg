CONSTANTS
  NBuf = 11
  SamplesBuffer = 2
  Pres = {0, 3}
  Posts = {3}
  MaxForTrack = 3
  MaxBackTrack = 2
  EventLimit = 1
  MaxIrq = 1
  MaxLag = 2
  MaxWait = 14
  MaxEvents = 1
  MaxShots = 2
  Sites = {s1}
  MaxLaunches = 2
SPECIFICATION AllSpec
INVARIANTS DataSetComplete SitesHeld
PROPERTIES ShotEnds EndsTogether
CHECK_DEADLOCK FALSE

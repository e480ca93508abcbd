SPECIFICATION FairSpec
CONSTANTS
  d1 = d1
  d2 = d2
  d3 = d3
  Devices = {d1, d2, d3}
  NoDevice = NoDevice
  NoPort = NoPort
  InfoCap = 2
  p1 = p1
  p2 = p2
  Ports = {p1, p2}
INVARIANTS TypeOK FollowsPolls
PROPERTIES FeedSpec UnpluggedIsRemoved

SPECIFICATION Spec
CONSTANTS
  d1 = d1
  d2 = d2
  d3 = d3
  Devices = {d1, d2, d3}
  NoDevice = NoDevice
  NoPort = NoPort
  InfoCap = 2
  Url = Url
  EnumCap = 2
INVARIANTS RemovalFindsDevice

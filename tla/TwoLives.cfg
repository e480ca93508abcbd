SPECIFICATION Spec
CONSTANTS
  c1 = c1
  c2 = c2
  d1 = d1
  d2 = d2
  n1 = n1
  n2 = n2
  Clients = {c1, c2}
  Devices = {d1, d2}
  Names = {n1}
  NoClient = NoClient
  NoDevice = NoDevice
  NoName = NoName
  Manager = Manager
  Tray = Tray
  Close = Close
  NameOf <- OneName
  Kind <- RetroarchTwice
  Commands = {"Info", "PutAddress"}
  Sizes = {1}
  MaxFrame = 2
  ChannelCap = 1
  LuaInboxCap = 1
  EventCap = 2
SYMMETRY Symmetry
INVARIANTS TypeOK GuardPinsDevice WaitsOnce RegistryFollowsHandles

SPECIFICATION FairSpec
CONSTANTS
  c1 = c1
  c2 = c2
  d1 = d1
  d2 = d2
  n1 = n1
  n2 = n2
  Clients = {c1}
  Devices = {d1, d2}
  Names = {n1, n2}
  NoClient = NoClient
  NoDevice = NoDevice
  NoName = NoName
  Manager = Manager
  Tray = Tray
  Close = Close
  NameOf <- TwoNames
  Kind <- EmuNwaAndSd2Snes
  Commands = {"PutAddress"}
  Sizes = {1}
  MaxFrame = 1
  ChannelCap = 1
  LuaInboxCap = 1
  EventCap = 2
PROPERTIES MenuOpens

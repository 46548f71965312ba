CONSTANTS
  a = a
  b = b
  Packs = {a, b}
  NoPack = NoPack
  Server = Server
  Client = Client
  MaxPublished = 1
  MaxServerCommands = 1
  MaxClientCommands = 1
  MaxLogins = 2
  MaxCrashes = 1
SPECIFICATION Spec
PROPERTY DirtyIsReported
CHECK_DEADLOCK FALSE
SYMMETRY SamePacks

CONSTANTS
  u1 = u1
  d1 = d1
  Users = {u1}
  Devices = {d1}
  Conns = {1, 2}
  Capacity = 1
  MaxCommands = 1
  MaxCrashes = 1
SPECIFICATION Spec
INVARIANT SameCipher
INVARIANT BansHold
INVARIANT OneLogin
INVARIANT AdmittedHasRows
PROPERTY HandshakeEnds
CHECK_DEADLOCK FALSE

CONSTANTS
  u1 = u1
  u2 = u2
  Bot = Bot
  Users = {u1, u2}
  Rooms = {1}
  Capacity = 2
  MaxObjs = 3
  MaxLogins = 3
  MaxDrops = 1
  MaxKicks = 1
  MaxGames = 1
SPECIFICATION Spec
INVARIANT TypeOK
INVARIANT InOnePlace
INVARIANT OneSession
INVARIANT AbandonedIsFreed
INVARIANT OwnerPresent
CHECK_DEADLOCK FALSE
SYMMETRY SameUsers

CONSTANTS
  p1 = p1
  p2 = p2
  Clients = {p1, p2}
  Versions = {1, 2}
  RoomsPerThread = 1
  Seats = 2
  MaxThreads = 2
  MaxRooms = 2
  MaxChanges = 2
  MaxLogins = 3
  MaxGames = 1
SPECIFICATION Spec
INVARIANT NoSignalLost
CHECK_DEADLOCK FALSE

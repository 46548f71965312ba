CONSTANTS
  a = a
  b = b
  u = u
  v = v
  g = g
  h = h
  Threads = {a, b}
  Main = Main
  Free = Free
  Users = {u, v}
  Generals = {g, h}
  Tables <- MCTables
  MaxGames = 2
  MaxLogins = 0
  MaxCrashes = 0
SPECIFICATION Spec
INVARIANT EveryGameCounts
CHECK_DEADLOCK FALSE

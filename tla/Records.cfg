CONSTANTS
  a = a
  b = b
  u = u
  v = v
  g = g
  h = h
  Threads = {a, b}
  Main = Main
  Free = Free
  Users = {u, v}
  Generals = {g, h}
  Tables <- MCTables
  MaxGames = 2
  MaxLogins = 1
  MaxCrashes = 1
SPECIFICATION Spec
INVARIANT OneTransaction
INVARIANT TransactionsWhole
INVARIANT CountedOnce
PROPERTY RecordsEnd
CHECK_DEADLOCK FALSE

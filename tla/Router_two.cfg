\* Two room threads: the rooms of p1 and of p2 run on different threads.
CONSTANTS
  p1 = p1
  p2 = p2
  t1 = t1
  t2 = t2
  Players = {p1, p2}
  Threads = {t1, t2}
  Home <- TwoThreads
  MaxSerial = 2
  MaxInFlight = 1
  NoPlayer = NoPlayer
SPECIFICATION Spec
INVARIANT ReplyMatchesRequest
CHECK_DEADLOCK FALSE

\* One room thread: every room of the server shares it.
CONSTANTS
  p1 = p1
  p2 = p2
  t1 = t1
  t2 = t2
  Players = {p1, p2}
  Threads = {t1}
  Home <- OneThread
  MaxSerial = 2
  MaxInFlight = 1
  NoPlayer = NoPlayer
SPECIFICATION Spec
INVARIANT ReplyMatchesRequest
INVARIANT OneSignalPerRequest
PROPERTY FirstReplyRecorded
CHECK_DEADLOCK FALSE

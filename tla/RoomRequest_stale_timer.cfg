CONSTANTS
  u1 = u1
  u2 = u2
  bot = bot
  Seats = {1, 2}
  Users = {u1}
  Bots = {bot}
  Controller <- HumanAndBot
  Questions <- Everybody
  Winners = 2
  AcceptCancel = FALSE
  Timeout = 1
  MaxAsks = 2
  MaxDelays = 0
  MaxDrops = 0
  MaxSurrenders = 0
  MaxWaste = 3
SPECIFICATION Spec
INVARIANT NoEarlyTimeout
CHECK_DEADLOCK FALSE

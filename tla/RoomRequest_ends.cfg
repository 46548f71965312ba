CONSTANTS
  u1 = u1
  u2 = u2
  bot = bot
  Seats = {1, 2}
  Users = {u1, u2}
  Bots = {}
  Controller <- TwoHumans
  Questions <- Everybody
  Winners = 2
  AcceptCancel = FALSE
  Timeout = 1
  MaxAsks = 1
  MaxDelays = 0
  MaxDrops = 1
  MaxSurrenders = 0
  MaxWaste = 3
SPECIFICATION FairSpec
PROPERTY AskEnds
CHECK_DEADLOCK FALSE

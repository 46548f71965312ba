CONSTANTS
  u1 = u1
  u2 = u2
  bot = bot
  Seats = {1, 2, 3}
  Users = {u1, u2}
  Bots = {bot}
  Controller <- TwoAndBot
  Questions <- Everybody
  Winners = 1
  AcceptCancel = FALSE
  Timeout = 1
  MaxAsks = 1
  MaxDelays = 0
  MaxDrops = 2
  MaxSurrenders = 0
  MaxWaste = 3
SPECIFICATION Spec
INVARIANT NoLostReply
INVARIANT AIAnswersLast
INVARIANT RaceIsFair
CHECK_DEADLOCK FALSE

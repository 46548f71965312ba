CONSTANTS
  u1 = u1
  u2 = u2
  bot = bot
  Seats = {1, 2}
  Users = {u1}
  Bots = {}
  Controller <- OneForTwo
  Questions <- Everybody
  Winners = 1
  AcceptCancel = FALSE
  Timeout = 1
  MaxAsks = 2
  MaxDelays = 1
  MaxDrops = 0
  MaxSurrenders = 1
  MaxWaste = 2
SPECIFICATION Spec
INVARIANT TypeOK
INVARIANT AnswersAreTheirs
PROPERTY WasteIsIdleness
CHECK_DEADLOCK FALSE

SPECIFICATION HSpec
CONSTANTS
  Player = {p1, p2, p3}
  NoPlayer = NoPlayer
  Minigame <- Games
  AudienceGame <- Audience
  LimitMin <- Mins
  LimitMax <- Maxs
  MinPlayers = 3
  MaxPlayers = 3
  MinHackers = 1
  MaxHackers = 3
  SpecialMin = 3
  SpecialMax = 5
  AdminMaySelectSelf = TRUE
  RoundsPerCycle = 2
  ClockTotal = 3
  FailPenalty = 1
  AccusationCooldown = 1
  Card = {1, 2}
  Symbol = {1, 2}
  Wire = {"RED"}
  Code = {7}
SYMMETRY Symmetry
INVARIANTS ClockAccountsForTime GamesCanStart
PROPERTIES AdminRotationFair EveryTurnPlaysARound
CONSTRAINT AllBackAfterReveal
CHECK_DEADLOCK FALSE

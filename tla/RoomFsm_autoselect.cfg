SPECIFICATION Spec
CONSTANTS
  Player = {p1, p2, p3}
  NoPlayer = NoPlayer
  Minigame <- Games
  AudienceGame <- Audience
  LimitMin <- Mins
  LimitMax <- Maxs
  MinPlayers = 3
  MaxPlayers = 3
  MinHackers = 1
  MaxHackers = 1
  SpecialMin = 3
  SpecialMax = 5
  AdminMaySelectSelf = TRUE
  RoundsPerCycle = 1
  ClockTotal = 2
  FailPenalty = 1
  AccusationCooldown = 1
SYMMETRY Symmetry
CHECK_DEADLOCK FALSE
INVARIANT RoundWithinLimits

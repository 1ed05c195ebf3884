SPECIFICATION FairSpec
CONSTANTS
  Player = {p1, p2}
  NoPlayer = NoPlayer
  Minigame <- Games
  AudienceGame = {"PREDICT_THEM"}
  LimitMin <- Mins
  LimitMax <- Maxs
  MinPlayers = 2
  MaxPlayers = 2
  MinHackers = 1
  MaxHackers = 1
  SpecialMin = 3
  SpecialMax = 5
  AdminMaySelectSelf = TRUE
  RoundsPerCycle = 1
  ClockTotal = 2
  FailPenalty = 1
  AccusationCooldown = 1
INVARIANTS SecretsStaySecret ScreensOfferWhatIsAccepted
PROPERTIES ImplementsLifecycle MatchEnds
CHECK_DEADLOCK FALSE

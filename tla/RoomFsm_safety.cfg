SPECIFICATION Spec
CONSTANTS
  Player = {p1, p2, p3}
  NoPlayer = NoPlayer
  Minigame <- Games
  AudienceGame <- Audience
  LimitMin <- Mins
  LimitMax <- Maxs
  MinPlayers = 2
  MaxPlayers = 3
  MinHackers = 2
  MaxHackers = 3
  SpecialMin = 3
  SpecialMax = 5
  AdminMaySelectSelf = TRUE
  RoundsPerCycle = 1
  ClockTotal = 2
  FailPenalty = 1
  AccusationCooldown = 1
SYMMETRY Symmetry
INVARIANTS TypeOK RecordsFollowPhase ClockFollowsPhase HackAccounting FirewallIsEarned OpenVoteIsUndecided
PROPERTIES FirewallBlocksOneRound VerdictIsEarned VerdictStands
CONSTRAINT AllBackAfterReveal
CHECK_DEADLOCK FALSE

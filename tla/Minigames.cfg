SPECIFICATION FairSpec
CONSTANTS
  a = a
  b = b
  c = c
  Player = {a, b, c}
  NoAnswer = NoAnswer
  Card = {1, 2}
  MaxCharacters = 2
  MaxStrokes = 2
  MaxPoints = 2
  MaxAllPoints = 3
  Symbol = {s1, s2}
  Wire = {w1, w2}
  Code = {1, 2}
  MaxStrikes = 2
  Kinds = {"RANK_IT", "COMPLETE_IT", "DRAW_IT", "PREDICT_THEM", "DESCRIBE_IT", "DEFEND_IT", "BOMB_PROTOCOL"}
  Hackers = {c}
  Seats <- MCSeats
  Inputs <- MCInputs
  RecentLimit = 1
  MaxSends <- MCMaxSends
  Hacked = {a}
  MaxInFlight = 2
INVARIANTS AppliedOnce TurnsAreTaken AnswersAreHidden PromptsStayPrivate GameScreensOfferWhatIsAccepted
PROPERTIES TimersRunOut PlayEnds
CHECK_DEADLOCK FALSE

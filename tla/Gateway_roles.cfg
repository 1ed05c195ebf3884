SPECIFICATION Spec
CONSTANTS
  Socket = {w1,w2}
  Player = {p1}
  NoSocket = NoSocket
  NoPlayer = NoPlayer
  MaxDeals = 2
  MaxBusy = 2
  MaxFaults = 1
INVARIANT ToldRoleIsCurrent
CHECK_DEADLOCK FALSE

SPECIFICATION Spec
CONSTANTS
  Socket = {w1,w2}
  Player = {p1,p2}
  NoSocket = NoSocket
  NoPlayer = NoPlayer
  MaxDeals = 1
  MaxBusy = 2
  MaxFaults = 1
INVARIANTS SocketsOwnTheirSlot DisconnectIsNeverLast ConnectedIsWatched ViewsAreCurrent RoleIsTold
PROPERTY ImplementsRoster
CHECK_DEADLOCK FALSE
SYMMETRY Swaps

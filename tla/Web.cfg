SPECIFICATION Spec
CONSTANTS
  User = {u, v}
  NoUser = NoUser
  MaxLogins = 1
  Tab = {h, p}
  HostTab = {h}
  PlayerTab = {p}
  Call = {1, 2}
  Name = {n, m}
  MaxPlayers = 2
  MaxTrouble = 2
  Sock = {1, 2}
  MaxConsecutiveFailures = 1
  MaxOpen = 1
  MaxMounts = 2
  MaxVersions = 2
  MaxInbox = 2
INVARIANTS RetriesShareOneSeat GivenSeatsAuthenticate HostsOwnTheGame NobodyWaitsForNothing
PROPERTY ViewsNeverGoBack
SYMMETRY Swaps
CHECK_DEADLOCK FALSE

SPECIFICATION HFairSpec
CONSTANTS
  Actor = {a1, a2}
  NoActor = NoActor
  RoomId = RoomId
  Key <- RoomKeys
  Nothing = Nothing
  Ttl = 2
  MaxChanges = 2
  MaxFaults = 1
  MaxCrashes = 1
  MaxQueue = 2
INVARIANTS AcknowledgedIsStored HalvesDriftByCrashesOnly DeadlinesAreWatched DeadlineActsOnce
PROPERTIES PassedDeadlineIsHandled

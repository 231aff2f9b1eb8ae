SPECIFICATION MCFairSpec
CONSTANTS
  NoOne = NoOne
  ann = ann
  bob = bob
  cat = cat
  Players = {ann, bob, cat}
  Entered = {ann, bob}
  RunWins = 1
  RunLosses = 2
  Kinds = {"enter", "reconnect", "save", "search", "cancel", "leave", "concede", "disconnect", "timeout", "sweep"}
  MaxRequests = 6
  MaxRestarts = 1
  Overlap = TRUE
INVARIANTS RunsAreSettled OneMatch
PROPERTIES RecordsStand OverlapFinishes LiveRunsRetire
CHECK_DEADLOCK FALSE

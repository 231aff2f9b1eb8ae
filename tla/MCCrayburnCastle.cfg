SPECIFICATION MCSpec
CONSTANTS
  Chain <- ShortCastle
  BattleNodes <- ShortBattles
  None = None
  MaxWins = 2
  MaxCrashes = 0
  Habits <- Rude
INVARIANT CastleAddsUp
PROPERTIES BattlesHaveTheirOrder CastleIsBeatenInTheEnd
CHECK_DEADLOCK FALSE

SPECIFICATION MCSpec
CONSTANTS
  TierLength = 2
  RunLength = 4
  Elites <- MCElites
  LastUnrolled = 1
  MaxBattles = 3
  MaxRuns = 1
  MaxAgain = 0
  Hazards <- MCHazards
INVARIANTS RecordsAgree RewardsAreEarned
CHECK_DEADLOCK FALSE

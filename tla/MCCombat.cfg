SPECIFICATION MCSpec
CONSTANTS
  Host = "computer"
  Attackers = {"a1", "a2"}
  Defenders = {"b1", "b2", "b3"}
  Attack <- AttackOf
  Defense <- DefenseOf
  FirstStrike = {}
  DualStrike = {"a1"}
  Crush = {"a2"}
  Lethal = {"b1"}
  Forced = {}
  Effects = {"leave", "return", "block", "restart"}
  MaxEffects = 3
  MaxTurns = 1
INVARIANT BattleIsFought
PROPERTY PierceKillsBlockers
CHECK_DEADLOCK FALSE

SPECIFICATION MCSpec
CONSTANTS
  Players = {p1, p2}
  Dog = dog
  NoOne = noone
  Kinds = {"pass", "kill", "quit", "back"}
  Faults = {"drop", "crash"}
  Patience = 2
  MaxAsks = 2
  Winner = w
  Loser = l
  Unset = unset
  Eager = FALSE
  OtherIn = {"Playing"}
  HandSize = 3
  MaxOther = 2
INVARIANTS OneInsideUntilEnd VerdictIsRecord QuickIsFair OpeningIsOrderly
PROPERTIES RecordStands EveryGameMovesOn
CHECK_DEADLOCK FALSE

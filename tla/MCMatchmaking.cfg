SPECIFICATION MCSpec
CONSTANTS
  alice = alice
  bob = bob
  a1 = a1
  b1 = b1
  c1 = c1
  m1 = m1
  m2 = m2
  Users <- MCUsers
  Conns <- MCConns
  UserOf <- MCUserOf
  Faults = TRUE
  Idles = FALSE
  OneEach = FALSE
  Ladders = {l1, l2}
  Matches <- MCMatches
  MaxSearches = 4
INVARIANTS MatchesAreMade PairedAcknowledged
PROPERTY AcceptedIsPlayed
CHECK_DEADLOCK FALSE

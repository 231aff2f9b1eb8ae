SPECIFICATION LobbySpec
CONSTANTS
  alice = alice
  bob = bob
  a1 = a1
  a2 = a2
  b1 = b1
  Users <- Two
  Conns <- Pair
  UserOf <- PairOf
  Faults = TRUE
  Idles = TRUE
  OneEach = FALSE
  Overlap = TRUE
  MaxCalls = 3
INVARIANTS FriendshipsAreSettled ClosedIsUnregistered
PROPERTY ClientsAreTold
CHECK_DEADLOCK FALSE

SPECIFICATION FairReconnectSpec
CONSTANTS
  ann = ann  bob = bob  cat = cat
  a = a  t = t  c = c
  NoPlayer = NoPlayer
  NoItem = NoItem
  PlayerIds <- Duel
  Items = {a}
  ItemKind <- KindsHere
  QuickCards = {}
  Chainless = {}
  EntryItems = {}
  HookItems = {}
  PromptItems = {a}
  Servers = {}
  SyncClients = {}
  BonusSeats = {}
  Pvp = FALSE
  StopPolicies = {}
  TxKinds = {"pass", "play", "answer"}
  MaxTxs = 1
  MaxTurns = 2
  Clients = {ann}
  MaxRestarts = 1
PROPERTIES KeepsPromise TurnsPass ChainDrains
CHECK_DEADLOCK FALSE

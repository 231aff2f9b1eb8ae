SPECIFICATION RestingSpec
CONSTANTS
  ann = ann  bob = bob  cat = cat
  a = a  t = t  c = c
  NoPlayer = NoPlayer
  NoItem = NoItem
  PlayerIds <- Duel
  Items = {a, c, t}
  ItemKind <- KindsHere
  QuickCards = {c}
  Chainless = {}
  EntryItems = {}
  HookItems = {t}
  PromptItems = {t}
  Servers = {bob}
  SyncClients = {ann}
  BonusSeats = {}
  Pvp = FALSE
  StopPolicies = {}
  TxKinds = {"pass", "play", "answer"}
  MaxTxs = 1
  MaxTurns = 1
  Clients = {ann}
  MaxRestarts = 0
PROPERTIES PhaseAnswered
CHECK_DEADLOCK FALSE

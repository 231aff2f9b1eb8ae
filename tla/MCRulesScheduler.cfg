SPECIFICATION ScenesSpec
CONSTANTS
  ann = ann  bob = bob
  a = a  t = t  c = c
  NoPlayer = NoPlayer
  NoItem = NoItem
  PlayerIds <- TwoSeats
  Items = {t, c}
  ItemKind <- TriggerAndCard
  QuickCards = {c}
  Chainless = {}
  EntryItems = {t}
  HookItems = {t}
  PromptItems = {}
  Servers = {bob}
  SyncClients = {}
  BonusSeats = {}
  Pvp = FALSE
  StopPolicies = {}
  TxKinds = {"pass", "play"}
  MaxTxs = 1
  MaxTurns = 1
  Clients = {ann}
  MaxRestarts = 1
INVARIANTS ChainOwned OnceInEveryScene AsksTheRightPlayer
PROPERTIES PhaseKeepsChain EveryoneIsAsked RestartKeepsGoing
CHECK_DEADLOCK FALSE

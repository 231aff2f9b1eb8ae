-------------------------- MODULE MCRulesScheduler --------------------------
(***************************************************************************)
(* Six battles for TLC, explored side by side: the scene, chosen in the    *)
(* initial state, says which instance's constants the steps obey.  The     *)
(* module's own constants are those of the scene "rebuilt".                *)
(*   duel      two clients, an ability and a trigger that prompts          *)
(*   practice  a client against the server, which may quit or auto-pass    *)
(*   stops     practice again, with stop preferences and bonus turns       *)
(*   promise   two clients, with a trigger nobody may respond to           *)
(*   rebuilt   practice, with one restart between two calls                *)
(*   crashed   practice, with one restart that may hit a resolution        *)
(***************************************************************************)
EXTENDS RulesReconnect

CONSTANTS ann, bob, a, t, c

VARIABLE scene

TwoSeats == <<ann, bob>>
Kind == (a :> "ability") @@ (t :> "trigger") @@ (c :> "card")
AbilityAndTrigger == [i \in {a, t} |-> Kind[i]]
AbilityAndCard == [i \in {a, c} |-> Kind[i]]
TriggerAndCard == [i \in {t, c} |-> Kind[i]]
OneCard == [i \in {c} |-> Kind[i]]

DuelS == INSTANCE RulesScheduler WITH
    Items <- {a, t}, ItemKind <- AbilityAndTrigger, QuickCards <- {},
    Chainless <- {}, EntryItems <- {}, HookItems <- {t}, PromptItems <- {t},
    Servers <- {}, SyncClients <- {}, BonusSeats <- {}, Pvp <- TRUE,
    StopPolicies <- {}, TxKinds <- {"pass", "play", "answer"},
    MaxTxs <- 1, MaxTurns <- 1

PracticeS == INSTANCE RulesScheduler WITH
    Items <- {c}, ItemKind <- OneCard, QuickCards <- {c},
    Chainless <- {}, EntryItems <- {}, HookItems <- {}, PromptItems <- {},
    Servers <- {bob}, SyncClients <- {ann}, BonusSeats <- {}, Pvp <- FALSE,
    StopPolicies <- {}, TxKinds <- {"pass", "play", "autopass", "cancel", "quit"},
    MaxTxs <- 1, MaxTurns <- 1

StopsS == INSTANCE RulesScheduler WITH
    Items <- {c}, ItemKind <- OneCard, QuickCards <- {c},
    Chainless <- {}, EntryItems <- {}, HookItems <- {}, PromptItems <- {},
    Servers <- {bob}, SyncClients <- {ann}, BonusSeats <- {ann}, Pvp <- FALSE,
    StopPolicies <- {"None", "Active", "Defending"}, TxKinds <- {"pass", "play"},
    MaxTxs <- 1, MaxTurns <- 2

PromiseS == INSTANCE RulesScheduler WITH
    Items <- {t, c}, ItemKind <- TriggerAndCard, QuickCards <- {c},
    Chainless <- {t}, EntryItems <- {t}, HookItems <- {t}, PromptItems <- {},
    Servers <- {}, SyncClients <- {}, BonusSeats <- {}, Pvp <- TRUE,
    StopPolicies <- {}, TxKinds <- {"pass", "play"},
    MaxTxs <- 1, MaxTurns <- 1

CrashedS == INSTANCE RulesReconnect WITH
    Items <- {a, c}, ItemKind <- AbilityAndCard, QuickCards <- {c},
    Chainless <- {}, EntryItems <- {}, HookItems <- {}, PromptItems <- {a},
    Servers <- {bob}, SyncClients <- {ann}, BonusSeats <- {}, Pvp <- FALSE,
    StopPolicies <- {}, TxKinds <- {"pass", "play", "answer"},
    MaxTxs <- 1, MaxTurns <- 1, Clients <- {ann}, MaxRestarts <- 1

restartVars == <<savedChain, restarts, nominee>>

NeverRestarted == savedChain = <<>> /\ restarts = 0 /\ nominee = <<>>

ScenesInit ==
    \/ scene = "duel" /\ DuelS!Init /\ NeverRestarted
    \/ scene = "practice" /\ PracticeS!Init /\ NeverRestarted
    \/ scene = "stops" /\ StopsS!Init /\ NeverRestarted
    \/ scene = "promise" /\ PromiseS!Init /\ NeverRestarted
    \/ scene = "rebuilt" /\ ReconnectInit
    \/ scene = "crashed" /\ CrashedS!ReconnectInit

ScenesNext ==
    /\ UNCHANGED scene
    /\ \/ scene = "duel" /\ DuelS!Next /\ UNCHANGED restartVars
       \/ scene = "practice" /\ PracticeS!Next /\ UNCHANGED restartVars
       \/ scene = "stops" /\ StopsS!Next /\ UNCHANGED restartVars
       \/ scene = "promise" /\ PromiseS!Next /\ UNCHANGED restartVars
       \/ scene = "rebuilt" /\ ReconnectNext
       \/ scene = "crashed" /\ (CrashedS!ReconnectNext \/ CrashedS!RestartInResolution)

ScenesSpec == ScenesInit /\ [][ScenesNext]_<<scene, reconnectVars>>

---------------------------------------------------------------------------
(* ChainOwned and PhaseKeepsChain hold in all scenes.  The other properties *)
(* of RulesScheduler and RulesReconnect depend on a scene's constants.      *)

\* A queued item takes effect exactly once.  Not for a crash in the middle of
\* a resolution, after which the snapshot still names an item whose effects
\* are saved.
OnceInEveryScene ==
    CASE scene = "duel" -> DuelS!EffectOnce
      [] scene = "practice" -> PracticeS!EffectOnce
      [] scene = "stops" -> StopsS!EffectOnce
      [] scene = "promise" -> PromiseS!EffectOnce
      [] scene = "rebuilt" -> EffectOnce
      [] scene = "crashed" -> restarts = 0 => CrashedS!EffectOnce

\* The right player is asked: the mirror intents are validated against names
\* the player the entered window asks, in a battle without entry triggers or
\* restarts; a phase window for all players asks them in turn order from the
\* active one, and an item's window those queue_projected_chain chose for it.
AsksTheRightPlayer ==
    /\ restarts = 0 /\ scene \notin {"promise", "rebuilt"} => MirrorAgrees
    /\ scene = "duel" => ApnapOrder /\ DuelS!WindowPolicy

\* Everyone is asked: an item leaves the chain only after everyone its window
\* owes a response declined in one uninterrupted round, unless it ignores the
\* chain; a phase whose state asks all players is left only after such a
\* round; a decline counts only in the phase it was made in; and every step,
\* restarts included, is one of ResponseChain's or none.
EveryoneIsAsked ==
    [][/\ IF scene = "promise" THEN PromiseS!EveryoneAnswersStep
          ELSE EveryoneAnswersStep
       /\ scene \in {"duel", "practice"} => PhaseAnsweredStep
       /\ scene = "duel" => PassInItsPhaseStep /\ [DuelS!Promise!Next]_(Promise!vars)
       /\ scene = "promise" => [PromiseS!Promise!Next]_(Promise!vars)
       /\ scene = "rebuilt" => [Promise!Next]_(Promise!vars)]_vars

\* A restart loses no pending item, invents none, keeps their order, and
\* leaves a session somebody can act in.
RestartKeepsGoing ==
    [][restarts' # restarts =>
          /\ chain' = chain
          /\ chain' # <<>> \/ PriorityPlayers[phase] # "None" => Asks(acts')]_<<chain, restarts, acts>>
=============================================================================
